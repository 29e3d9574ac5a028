-------------------------- MODULE PageTableProofs --------------------------
(***************************************************************************)
(* libdune's page tables.  For any number of entries per directory, of     *)
(* pages, roots and calls: the tables mean what the calls asked for, refer *)
(* to no page of the free list except through the window that dune_init    *)
(* maps the pool at, and count every other reference, and every copy of an *)
(* entry of the window, until the first dune_vm_free.                      *)
(***************************************************************************)
EXTENDS PageTable, TLAPS, FiniteSetTheorems

-----------------------------------------------------------------------------
(***************************************************************************)
(* The inductive invariant.                                                *)
(***************************************************************************)

\* The type of an entry, and of a place.
Entries == [frame : Nat, flags : SUBSET Flags]
Places == [root : Frames, level : Levels, up : Nat]

\* An entry of the directory d leads to a leaf, a big page or the directory whose
\* place is below the entry; the pool is mapped big under pgroot, where level 0 has
\* no copy of a big page.
EntryOK(pl, d, i, e) ==
    /\ pl[d].level = 0 /\ ~pte_big(e) /\ e.frame \in Frames => pl[e.frame] = None
    /\ pl[d].level = 0 /\ pte_big(e) => pl[d].root # pgroot
    /\ pl[d].level > 0 /\ pte_big(e) =>
        pl[d].level < Top /\ (e.frame \in Frames => pl[d].root = pgroot)
    /\ pl[d].level > 0 /\ ~pte_big(e) =>
        /\ e.flags = {"P", "W"} /\ e.frame \in Pool
        /\ pl[e.frame] = Place(pl[d].root, pl[d].level - 1, pl[d].up * W + i)

\* So do the entries of all directories that have a place.
Tree(m, pl) ==
    \A d \in Frames, i \in Index :
        pl[d] # None /\ m[d][i] # None => EntryOK(pl, d, i, m[d][i])

\* The counts without those of the copies of the pool's window.
Owns(rf, pn) == [f \in Pool |-> rf[f] - pn[f]]
own == Owns(ref, pins)

\* Every variable has its type.
MemOK ==
    /\ mem \in [Frames -> [Index -> {None} \cup Entries]] /\ own \in [Pool -> Nat]
    /\ place \in [Frames -> {None} \cup Places]
    /\ roots \subseteq Frames /\ pgroot \in roots
    /\ want \in [roots -> [Pages -> {None} \cup Entries]]
    /\ frees \in Nat /\ proc \in {"run", "die", "null"}

\* The root that dune_vm_free is giving up.
Dying == IF walk # None /\ walk.cb \in {"destroy", "put"} THEN {walk.root} ELSE {}

\* Roots and directories: no two have one place, none is free, and those of the
\* roots in live have an entry that refers to them.
Hung(m, pl, rf, live, all) ==
    /\ \A r \in all : pl[r] = Place(r, Top, 0)
    /\ \A d \in Frames : pl[d] # None =>
        /\ pl[d].level = Top => pl[d].root = d /\ pl[d].up = 0
        /\ pl[d].root \in all
        /\ d \in Pool => rf[d] > 0
    /\ \A d, x \in Frames : pl[d] # None /\ pl[x] = pl[d] => x = d
    /\ \A d \in Frames : pl[d] # None /\ pl[d].level < Top /\ pl[d].root \in live =>
        \E x \in Frames, i \in Index :
            /\ pl[x] # None /\ pl[x].level = pl[d].level + 1
            /\ m[x][i] # None /\ ~pte_big(m[x][i]) /\ m[x][i].frame = d

\* The directories form trees.
TreeInv == Tree(mem, place) /\ Hung(mem, place, own, roots, roots \cup Dying)

\* The references to f.
Refs(m, pl, f) ==
    {x \in Frames \X Index : /\ pl[x[1]] # None
                             /\ m[x[1]][x[2]] # None /\ ~pte_big(m[x[1]][x[2]])
                             /\ m[x[1]][x[2]].frame = f}
IsRoot(pl, f) == IF pl[f] # None /\ pl[f].level = Top THEN 1 ELSE 0

\* They are counted; exactly, as long as nothing was freed.
Counted(m, pl, rf, exact) ==
    \A f \in Pool : /\ IsRoot(pl, f) + Cardinality(Refs(m, pl, f)) <= rf[f]
                    /\ exact => rf[f] = IsRoot(pl, f) + Cardinality(Refs(m, pl, f))

\* The counts are right.
CountInv == Counted(mem, place, own, frees = 0)

\* The pages of the list have no other counts than those of copies; a page that
\* is off the list is counted.
PoolFor(rf, pn, fr) ==
    /\ rf \in [Pool -> Nat] /\ pn \in [Pool -> Nat] /\ fr \subseteq Pool
    /\ \A f \in Pool : pn[f] <= rf[f] /\ (IF f \in fr THEN rf[f] = pn[f] ELSE rf[f] > 0)
PoolInv == PoolFor(ref, pins, free)

\* The directories of the path of page p from top down to level.
Chain(m, root, p, top, level, dirs) ==
    /\ dirs[top] = root
    /\ \A l \in level..(top - 1) :
        LET e == m[dirs[l + 1]][PDX(l + 1, p)]
        IN  e # None /\ ~pte_big(e) /\ e.frame = dirs[l]

\* The walk is in its range, and in the directories of the path of its page.
WalkOK == walk # None =>
    /\ walk \in Walks /\ walk.cur <= walk.hi /\ walk.level \in 0..walk.top
    /\ walk.cb \in {"destroy", "put"} =>
        walk.root \in Pool \ roots /\ frees > 0 /\ walk.create = None
    /\ walk.cb = "destroy" => walk.top < Top /\ Up(walk.top + 1, walk.cur) = 0
    /\ walk.cb \notin {"destroy", "put"} => walk.root \in roots /\ walk.top = Top
    /\ walk.cb # "put" => Chain(mem, walk.root, walk.cur, walk.top, walk.level, walk.dirs)

\* The chunk of p lies in a range.
ChunkIn(l, p, lo, hi) == \A q \in Pages : Up(l, q) = Up(l, p) => q \in lo..hi

\* What the callers promised holds for the pages that the walk has yet to come to.
Ahead == walk.cur..walk.hi
ReadyPhys == walk # None /\ walk.cb = "map_phys" =>
    /\ walk.create # None /\ walk.va <= walk.cur
    /\ walk.pa \in Frames => walk.create # 0 /\ walk.root = pgroot
    /\ ("PS" \in walk.flags) <=> walk.create # 0
    /\ \A p \in Ahead : IF walk.create = 0 THEN Replaceable(walk.root, p)
                        ELSE NoTable(walk.root, p, walk.create)
                             /\ ChunkIn(walk.create, p, walk.cur, walk.hi)
ReadyPages == walk # None /\ walk.cb = "map_pages" =>
    /\ walk.create = 0 /\ "PS" \notin walk.flags
    /\ \A p \in Ahead : Fresh(walk.root, p)
ReadyWhole == walk # None /\ walk.cb \in {"mprotect", "free", "clone"} =>
    /\ walk.create = None /\ "PS" \notin walk.flags
    /\ \A p \in Ahead : Whole(walk.root, p, walk.cur, walk.hi)
ReadyClone == walk # None /\ walk.cb = "clone" =>
    /\ walk.to \in roots \ {walk.root, pgroot}
    /\ \A p \in Ahead : Fresh(walk.to, p)
ReadyFree == walk # None /\ walk.cb = "free" =>
    \A p \in Ahead : ~MapsPool(LeafEntry(mem, walk.root, p))

\* The type of a lookup.
Looks == [root : Frames, page : Pages, level : Levels, dirs : [Levels -> Frames]]

\* The lookup is in the directories of the path of its page, which is not mapped;
\* that of a clone is for the entry that the walk is at.
LookOK == look # None =>
    /\ look \in Looks /\ look.root \in roots
    /\ Chain(mem, look.root, look.page, Top, look.level, look.dirs)
    /\ Fresh(look.root, look.page)
    /\ walk = None => look.root = pgroot
    /\ walk # None => /\ walk.cb = "clone" /\ look.root = walk.to
                      /\ IsLeafHere /\ look.page = walk.cur /\ look.page = Base

\* Every root means what was asked for.
Flat == \A r \in roots, p \in Pages : Translate(mem, r, p) = want[r][p]

\* The inductive invariant.
PtInv ==
    /\ MemOK /\ TreeInv /\ CountInv /\ PoolInv /\ WalkOK
    /\ ReadyPhys /\ ReadyPages /\ ReadyWhole /\ ReadyClone /\ ReadyFree
    /\ LookOK /\ Flat

-----------------------------------------------------------------------------
(***************************************************************************)
(* Digits of page numbers.                                                 *)
(***************************************************************************)

\* W is a positive number.
LEMMA WNat == W \in Nat /\ W > 0
BY PageTableAssumption

\* The last digit of a number, and what lies above it.
LEMMA DivMod ==
    ASSUME NEW a \in Nat
    PROVE  /\ a \div W \in Nat /\ a % W \in Index /\ a = (a \div W) * W + (a % W)
<1>1. a \div W \in Int /\ a \div W >= 0
  BY WNat
<1>2. a % W \in 0..(W - 1)
  BY WNat
<1>3. a % W = a - W * (a \div W)
  BY WNat
<1>4. PICK u \in Nat : u = a \div W
  BY <1>1
<1>5. PICK r \in Index : r = a % W
  BY <1>2 DEF Index
<1>6. r = a - W * u
  BY <1>3, <1>4, <1>5
<1>7. a = u * W + r
  BY <1>6, WNat DEF Index
<1> QED
  BY <1>4, <1>5, <1>7

\* A number has one last digit.
LEMMA DigitsUnique ==
    ASSUME NEW u \in Nat, NEW v \in Nat, NEW i \in Index, NEW j \in Index,
           u * W + i = v * W + j
    PROVE  u = v /\ i = j
<1>1. W \in Nat /\ W > 0 /\ i \in Nat /\ j \in Nat /\ i < W /\ j < W
  BY WNat DEF Index
<1>2. CASE u < v
  <2>1. v * W >= u * W + W
    BY <1>1, <1>2
  <2> QED
    BY <1>1, <2>1
<1>3. CASE v < u
  <2>1. u * W >= v * W + W
    BY <1>1, <1>3
  <2> QED
    BY <1>1, <2>1
<1> QED
  BY <1>1, <1>2, <1>3

\* The digits of a number that is put together.
LEMMA DivOf ==
    ASSUME NEW a \in Nat, NEW u \in Nat, NEW i \in Index, a = u * W + i
    PROVE  a \div W = u /\ a % W = i
<1>1. i \in 0..(W - 1)
  BY DEF Index
<1>2. a \div W = u
  BY <1>1, WNat
<1>3. a % W = i
  BY <1>1, WNat
<1> QED
  BY <1>2, <1>3

\* Up drops one digit after another.
LEMMA UpIs ==
    ASSUME NEW p \in Nat
    PROVE  /\ Up(0, p) = p /\ Up(1, p) = Up(0, p) \div W /\ Up(2, p) = Up(1, p) \div W
           /\ Up(3, p) = Up(2, p) \div W /\ Up(4, p) = Up(3, p) \div W
BY DEF Up

\* The upper digits of a page are a number.
LEMMA UpType ==
    ASSUME NEW p \in Nat, NEW l \in 0..4
    PROVE  Up(l, p) \in Nat
<1>1. Up(0, p) \in Nat
  BY UpIs
<1>2. Up(1, p) \in Nat
  BY UpIs, DivMod, <1>1
<1>3. Up(2, p) \in Nat
  BY UpIs, DivMod, <1>2
<1>4. Up(3, p) \in Nat
  BY UpIs, DivMod, <1>3
<1>5. Up(4, p) \in Nat
  BY UpIs, DivMod, <1>4
<1> QED
  BY <1>1, <1>2, <1>3, <1>4, <1>5

\* A level, and the one above it, has a number of upper digits.
LEMMA LevelIn ==
    ASSUME NEW l \in Levels
    PROVE  l \in 0..4 /\ l + 1 \in 0..4
BY DEF Levels, Top

\* Up and PDX at a level, from the level below.
LEMMA UpNext ==
    ASSUME NEW p \in Nat, NEW l \in Levels
    PROVE  /\ Up(l + 1, p) = Up(l, p) \div W /\ PDX(l, p) \in Index
           /\ Up(l, p) = Up(l + 1, p) * W + PDX(l, p)
<1>1. Up(l + 1, p) = Up(l, p) \div W
  BY UpIs DEF Levels, Top
<1>2. Up(l, p) \in Nat
  BY LevelIn, UpType
<1>3. PICK u \in Nat : u = Up(l, p)
  BY <1>2
<1>4. u \div W \in Nat /\ u % W \in Index /\ u = (u \div W) * W + (u % W)
  BY DivMod
<1>5. Up(l + 1, p) = u \div W /\ PDX(l, p) = u % W
  BY <1>1, <1>3 DEF PDX
<1> QED
  BY <1>3, <1>4, <1>5, Zenon

\* The digits of a page at a level are numbers, and the last is an index.
LEMMA UpLevel ==
    ASSUME NEW p \in Nat, NEW l \in Levels
    PROVE  Up(l, p) \in Nat /\ Up(l + 1, p) \in Nat /\ PDX(l, p) \in Index
BY LevelIn, UpType, UpNext

\* Pages that agree above a level agree above the higher ones.
LEMMA UpMono ==
    ASSUME NEW p \in Nat, NEW q \in Nat, NEW k \in 0..4, NEW l \in 0..4, k <= l,
           Up(k, p) = Up(k, q)
    PROVE  Up(l, p) = Up(l, q)
BY UpIs

\* The number of pages below an entry of each level.
LEMMA SizeIs ==
    /\ Size(0) = 1 /\ Size(1) = W /\ Size(2) = W * W /\ Size(3) = W * W * W
    /\ Size(4) = W * W * W * W
BY DEF Size

\* An entry of a level is worth W of the level below.
LEMMA SizeNext ==
    ASSUME NEW l \in Levels
    PROVE  Size(l) \in Nat /\ Size(l) > 0 /\ Size(l + 1) = Size(l) * W
<1>1. W \in Nat /\ W > 0
  BY WNat
<1>2. W * W \in Nat /\ W * W > 0
  BY <1>1
<1>3. W * W * W \in Nat /\ W * W * W > 0
  BY <1>1, <1>2
<1> QED
  BY <1>1, <1>2, <1>3, SizeIs DEF Levels, Top

\* A chunk lies in the chunk of the next level.
LEMMA ChunkStep ==
    ASSUME NEW S \in Nat, S > 0, NEW u \in Nat, NEW v \in Nat, NEW d \in Index, NEW p \in Nat,
           v = u * W + d, v * S <= p, p < v * S + S
    PROVE  u * (S * W) <= p /\ p < u * (S * W) + S * W
<1>1. d \in Nat /\ W \in Nat /\ d <= W - 1
  BY WNat DEF Index
<1>2. v * S = u * (S * W) + d * S
  BY <1>1
<1>3. d * S <= (W - 1) * S /\ d * S >= 0
  BY <1>1
<1>4. (W - 1) * S = S * W - S
  BY <1>1
<1>5. PICK x \in Nat : x = u * (S * W)
  BY <1>1
<1>6. PICK y \in Nat : y = d * S
  BY <1>1
<1>7. PICK z \in Nat : z = S * W
  BY <1>1
<1>8. v * S = x + y /\ y <= z - S
  BY <1>2, <1>3, <1>4, <1>5, <1>6, <1>7
<1>9. x <= p /\ p < x + z
  BY <1>8
<1> QED
  BY <1>5, <1>7, <1>9

\* A page lies in its chunk at every level.
LEMMA ChunkOf ==
    ASSUME NEW p \in Nat, NEW l \in 0..4
    PROVE  Up(l, p) * Size(l) <= p /\ p < Up(l, p) * Size(l) + Size(l)
<1> DEFINE C(k) == Up(k, p) * Size(k) <= p /\ p < Up(k, p) * Size(k) + Size(k)
<1>1. C(0)
  BY UpIs, SizeIs
<1>2. ASSUME NEW k \in Levels, C(k) PROVE C(k + 1)
  <2>1. Up(k, p) \in Nat /\ Up(k + 1, p) \in Nat
    BY LevelIn, UpType
  <2>2. Up(k, p) = Up(k + 1, p) * W + PDX(k, p) /\ PDX(k, p) \in Index
    BY UpNext
  <2>3. Size(k) \in Nat /\ Size(k) > 0 /\ Size(k + 1) = Size(k) * W
    BY SizeNext
  <2>4. Up(k + 1, p) * (Size(k) * W) <= p /\ p < Up(k + 1, p) * (Size(k) * W) + Size(k) * W
    BY <1>2, <2>1, <2>2, <2>3, ChunkStep
  <2> QED
    BY <2>3, <2>4
<1> HIDE DEF C
<1>3. C(1) /\ C(2) /\ C(3) /\ C(4)
  <2>1. C(0 + 1)
    BY <1>1, <1>2 DEF Levels, Top
  <2>2. C(1 + 1)
    BY <2>1, <1>2 DEF Levels, Top
  <2>3. C(2 + 1)
    BY <2>2, <1>2 DEF Levels, Top
  <2>4. C(3 + 1)
    BY <2>3, <1>2 DEF Levels, Top
  <2> QED
    BY <2>1, <2>2, <2>3, <2>4
<1>4. C(l)
  BY <1>1, <1>3
<1> QED
  BY <1>4 DEF C

\* Sizes are positive numbers.
LEMMA SizeType ==
    ASSUME NEW l \in 0..4
    PROVE  Size(l) \in Nat /\ Size(l) > 0
<1>1. W \in Nat /\ W > 0
  BY WNat
<1>2. W * W \in Nat /\ W * W > 0
  BY <1>1
<1>3. W * W * W \in Nat /\ W * W * W > 0
  BY <1>1, <1>2
<1>4. W * W * W * W \in Nat /\ W * W * W * W > 0
  BY <1>1, <1>3
<1> QED
  BY <1>1, <1>2, <1>3, <1>4, SizeIs

\* Multiples of a size that are apart.
LEMMA Multiples ==
    ASSUME NEW S \in Nat, NEW u \in Nat, NEW v \in Nat, u < v
    PROVE  u * S + S <= v * S
<1>1. (u + 1) * S <= v * S
  OBVIOUS
<1> QED
  BY <1>1

\* A number in a chunk has that chunk's digits.
LEMMA ChunkUnique ==
    ASSUME NEW q \in Nat, NEW u \in Nat, NEW l \in 0..4, u * Size(l) <= q, q < u * Size(l) + Size(l)
    PROVE  Up(l, q) = u
<1>1. PICK S \in Nat : S = Size(l)
  BY SizeType
<1>2. PICK v \in Nat : v = Up(l, q)
  BY UpType
<1>3. v * S <= q /\ q < v * S + S
  BY <1>1, <1>2, ChunkOf
<1>4. u * S <= q /\ q < u * S + S
  BY <1>1
<1>5. u * S \in Nat /\ v * S \in Nat
  OBVIOUS
<1>6. ~(u < v)
  BY Multiples, <1>3, <1>4, <1>5
<1>7. ~(v < u)
  BY Multiples, <1>3, <1>4, <1>5
<1> QED
  BY <1>2, <1>6, <1>7

\* Pages of a later chunk are later pages.
LEMMA UpOrder ==
    ASSUME NEW p \in Nat, NEW q \in Nat, NEW l \in 0..4, Up(l, p) < Up(l, q)
    PROVE  p < q /\ Up(l, p) * Size(l) + Size(l) <= q
<1>1. PICK S \in Nat : S = Size(l)
  BY SizeType
<1>2. PICK v \in Nat : v = Up(l, q)
  BY UpType
<1>3. PICK u \in Nat : u = Up(l, p)
  BY UpType
<1>4. v * S <= q /\ p < u * S + S
  BY <1>1, <1>2, <1>3, ChunkOf
<1>5. u * S + S <= v * S
  BY <1>2, <1>3, Multiples
<1>6. u * S \in Nat /\ v * S \in Nat
  OBVIOUS
<1>7. p < q /\ u * S + S <= q
  BY <1>4, <1>5, <1>6
<1> QED
  BY <1>1, <1>3, <1>7

\* Pages are numbers of four digits.
LEMMA PageNat ==
    ASSUME NEW p \in Pages
    PROVE  p \in Nat /\ Up(4, p) = 0
<1>1. Size(4) \in Nat /\ Size(4) > 0
  BY SizeType
<1>2. p \in Nat /\ p < Size(4)
  BY <1>1 DEF Pages, Top
<1>3. 0 * Size(4) <= p /\ p < 0 * Size(4) + Size(4)
  BY <1>1, <1>2
<1>4. Up(4, p) = 0
  BY <1>2, <1>3, ChunkUnique
<1> QED
  BY <1>2, <1>4

\* The first page of the chunk of p, and the first page after it.
LEMMA ChunkEnds ==
    ASSUME NEW p \in Nat, NEW l \in 0..4, NEW b \in Nat, b = Up(l, p) * Size(l)
    PROVE  /\ b <= p /\ p < b + Size(l) /\ Up(l, b) = Up(l, p) /\ Up(l, b + Size(l)) = Up(l, p) + 1
           /\ Up(l, b + Size(l) - 1) = Up(l, p) /\ b + Size(l) \in Nat /\ b + Size(l) - 1 \in Nat
<1>1. PICK S \in Nat : S = Size(l) /\ S > 0
  BY SizeType
<1>2. PICK u \in Nat : u = Up(l, p)
  BY UpType
<1>3. b = u * S /\ b <= p /\ p < b + S
  BY <1>1, <1>2, ChunkOf
<1>4. Up(l, b) = u
  BY <1>1, <1>3, ChunkUnique
<1>5. (u + 1) * S = b + S
  BY <1>3
<1>6. Up(l, b + S) = u + 1
  <2>1. (u + 1) * Size(l) <= b + S /\ b + S < (u + 1) * Size(l) + Size(l) /\ b + S \in Nat
    BY <1>1, <1>5
  <2> QED
    BY <2>1, ChunkUnique
<1>7. Up(l, b + S - 1) = u
  <2>1. u * Size(l) <= b + S - 1 /\ b + S - 1 < u * Size(l) + Size(l) /\ b + S - 1 \in Nat
    BY <1>1, <1>3
  <2> QED
    BY <2>1, ChunkUnique
<1> QED
  BY <1>1, <1>2, <1>3, <1>4, <1>6, <1>7

\* Counting up by one.
LEMMA Carry ==
    ASSUME NEW u \in Nat
    PROVE  /\ u % W = W - 1 => (u + 1) \div W = (u \div W) + 1
           /\ u % W < W - 1 => (u + 1) \div W = u \div W
<1>1. PICK v \in Nat : v = u \div W
  BY DivMod
<1>2. PICK i \in Index : i = u % W
  BY DivMod
<1>3. u = v * W + i /\ i \in Nat
  BY <1>1, <1>2, DivMod DEF Index
<1>4. ASSUME i = W - 1 PROVE (u + 1) \div W = v + 1
  <2>1. u + 1 = (v + 1) * W + 0
    BY <1>3, <1>4, WNat
  <2>2. 0 \in Index
    BY WNat DEF Index
  <2> QED
    BY <2>1, <2>2, DivOf
<1>5. ASSUME i < W - 1 PROVE (u + 1) \div W = v
  <2>1. u + 1 = v * W + (i + 1)
    BY <1>3, WNat
  <2>2. i + 1 \in Index
    BY <1>3, <1>5, WNat DEF Index
  <2> QED
    BY <2>1, <2>2, DivOf
<1> QED
  BY <1>1, <1>2, <1>4, <1>5

\* The page after a chunk differs from the chunk's pages up to the digit that
\* is counted up.
LEMMA AfterDigits ==
    ASSUME NEW p \in Nat, NEW l \in Levels, NEW k \in l..Top, NEW a \in Nat,
           a = Up(l, p) * Size(l) + Size(l),
           PDX(k, p) < W - 1, \A j \in l..(k - 1) : PDX(j, p) = W - 1
    PROVE  \A n \in (k + 1)..4 : Up(n, a) = Up(n, p)
<1> DEFINE One(j) == Up(j, a) = Up(j, p) + 1
<1>1. l \in 0..4 /\ k \in Levels
  BY DEF Levels, Top
<1>2. One(l)
  <2>0. Up(l, p) \in Nat /\ Size(l) \in Nat
    BY <1>1, UpType, SizeType
  <2>1. PICK b \in Nat : b = Up(l, p) * Size(l)
    BY <2>0
  <2>2. a = b + Size(l)
    BY <2>1
  <2> QED
    BY <1>1, <2>1, <2>2, ChunkEnds
<1>3. ASSUME NEW j \in l..(k - 1), One(j) PROVE One(j + 1)
  <2>1. j \in Levels /\ PDX(j, p) = W - 1
    BY DEF Levels, Top
  <2>2. Up(j + 1, a) = Up(j, a) \div W /\ Up(j + 1, p) = Up(j, p) \div W
    BY <2>1, UpNext
  <2>3. Up(j, p) \in Nat
    BY <2>1, UpLevel
  <2>4. Up(j, p) % W = W - 1
    BY <2>1 DEF PDX
  <2> QED
    BY <1>3, <2>2, <2>3, <2>4, Carry
<1> HIDE DEF One
<1>4. One(k)
  <2>1. CASE k = l
    BY <1>2, <2>1
  <2>2. CASE k = l + 1
    BY <1>2, <1>3, <2>2 DEF Levels, Top
  <2>3. CASE k = l + 2
    <3>1. One(l + 1)
      BY <1>2, <1>3, <2>3 DEF Levels, Top
    <3>2. One((l + 1) + 1)
      BY <3>1, <1>3, <2>3 DEF Levels, Top
    <3> QED
      BY <3>2, <2>3 DEF Levels, Top
  <2>4. CASE k = l + 3
    <3>1. One(l + 1)
      BY <1>2, <1>3, <2>4 DEF Levels, Top
    <3>2. One((l + 1) + 1)
      BY <3>1, <1>3, <2>4 DEF Levels, Top
    <3>3. One(((l + 1) + 1) + 1)
      BY <3>2, <1>3, <2>4 DEF Levels, Top
    <3> QED
      BY <3>3, <2>4 DEF Levels, Top
  <2> QED
    BY <2>1, <2>2, <2>3, <2>4 DEF Levels, Top
<1>5. Up(k + 1, a) = Up(k + 1, p)
  <2>1. Up(k + 1, a) = Up(k, a) \div W /\ Up(k + 1, p) = Up(k, p) \div W
    BY <1>1, UpNext
  <2>2. Up(k, p) \in Nat /\ Up(k, p) % W < W - 1
    BY <1>1, UpLevel DEF PDX, Levels, Top
  <2> QED
    BY <1>4, <2>1, <2>2, Carry DEF One
<1> QED
  <2> TAKE n \in (k + 1)..4
  <2>1. n \in 0..4 /\ k + 1 \in 0..4 /\ k + 1 <= n
    BY <1>1 DEF Levels, Top
  <2> QED
    BY <1>5, <2>1, UpMono

-----------------------------------------------------------------------------
(***************************************************************************)
(* Trees, chains and the paths of pages.                                   *)
(***************************************************************************)

\* None is not a number, an entry or a place.
LEMMA NoneIs ==
    /\ \A n \in Nat : n # None
    /\ \A e \in Entries : e # None
    /\ \A x \in Places : x # None
BY NoneAssumption DEF Entries, Places

\* A well-formed memory with its places.
TreeFor(m, pl) ==
    /\ m \in [Frames -> [Index -> {None} \cup Entries]] /\ pl \in [Frames -> {None} \cup Places]
    /\ Tree(m, pl)

\* The parts of a place.
LEMMA PlaceType ==
    ASSUME NEW r \in Frames, NEW l \in Levels, NEW u \in Nat
    PROVE  /\ Place(r, l, u) \in Places /\ Place(r, l, u) # None
           /\ Place(r, l, u).root = r /\ Place(r, l, u).level = l /\ Place(r, l, u).up = u
<1>1. Place(r, l, u) \in Places
  BY DEF Place, Places
<1> QED
  BY <1>1, NoneIs DEF Place

\* A table's directory has its place below the entry.
LEMMA TableChild ==
    ASSUME NEW m, NEW pl, TreeFor(m, pl), NEW d \in Frames, NEW i \in Index,
           pl[d] # None, pl[d].level > 0, m[d][i] # None, ~pte_big(m[d][i])
    PROVE  /\ m[d][i].frame \in Pool /\ m[d][i].frame \in Frames
           /\ m[d][i].flags = {"P", "W"}
           /\ pl[m[d][i].frame] = Place(pl[d].root, pl[d].level - 1, pl[d].up * W + i)
<1>1. Pool \subseteq Frames
  BY PageTableAssumption DEF Pool, Frames
<1> QED
  BY <1>1 DEF TreeFor, Tree, EntryOK

\* The processor walks on through exactly the entries that refer to directories.
LEMMA TableMeans ==
    ASSUME NEW m, NEW pl, TreeFor(m, pl), NEW d \in Frames, NEW i \in Index,
           pl[d] # None, pl[d].level > 0
    PROVE  IsTable(pl[d].level, m[d][i]) <=> m[d][i] # None /\ ~pte_big(m[d][i])
<1>1. CASE m[d][i] # None /\ ~pte_big(m[d][i])
  BY <1>1, TableChild DEF IsTable
<1>2. CASE m[d][i] = None
  BY <1>2 DEF IsTable
<1>3. CASE m[d][i] # None /\ pte_big(m[d][i])
  <2>1. pl[d].level < Top
    BY <1>3 DEF TreeFor, Tree, EntryOK
  <2> QED
    BY <2>1, <1>3 DEF IsTable
<1> QED
  BY <1>1, <1>2, <1>3

\* The directories of a chain are at the places of the page.
LEMMA ChainPlaces ==
    ASSUME NEW m, NEW pl, TreeFor(m, pl), NEW r \in Frames, NEW p \in Nat, NEW top \in 1..Top,
           NEW l \in 0..top, NEW ds \in [Levels -> Frames],
           Chain(m, r, p, top, l, ds), pl[r] = Place(r, Top, 0), Up(top + 1, p) = 0
    PROVE  \A k \in l..top : pl[ds[k]] = Place(r, k + (Top - top), Up(k + 1, p))
<1> DEFINE At(k) == pl[ds[k]] = Place(r, k + (Top - top), Up(k + 1, p))
<1>1. At(top)
  <2>1. ds[top] = r
    BY DEF Chain
  <2> QED
    BY <2>1 DEF Top
<1>2. ASSUME NEW k \in l..(top - 1), At(k + 1) PROVE At(k)
  <2>1. /\ k \in Levels /\ k + 1 \in Levels /\ k + 1 + (Top - top) \in Levels
        /\ k + 1 + (Top - top) > 0 /\ k + 2 \in 0..4
    BY DEF Levels, Top
  <2>2. PICK d \in Frames : d = ds[k + 1]
    BY <2>1
  <2>3. PICK i \in Index : i = PDX(k + 1, p)
    BY <2>1, UpNext
  <2>4. PICK u \in Nat : u = Up(k + 2, p)
    BY <2>1, UpType
  <2>5. m[d][i] # None /\ ~pte_big(m[d][i]) /\ m[d][i].frame = ds[k]
    BY <2>2, <2>3 DEF Chain
  <2>6. (k + 1) + 1 = k + 2
    OBVIOUS
  <2>7. PICK v \in Levels : v = k + 1 + (Top - top)
    BY <2>1
  <2>8. pl[d] = Place(r, v, u)
    BY <1>2, <2>2, <2>4, <2>6, <2>7
  <2>9. pl[d] # None /\ pl[d].root = r /\ pl[d].level = v /\ pl[d].up = u /\ v > 0
    BY <2>1, <2>7, <2>8, PlaceType
  <2>10. pl[m[d][i].frame] = Place(pl[d].root, pl[d].level - 1, pl[d].up * W + i)
    BY <2>5, <2>9, TableChild
  <2>11. pl[ds[k]] = Place(r, v - 1, u * W + i)
    BY <2>5, <2>9, <2>10
  <2>12. u * W + i = Up(k + 1, p)
    BY <2>1, <2>3, <2>4, <2>6, UpNext
  <2>13. v - 1 = k + (Top - top)
    BY <2>7 DEF Top
  <2> QED
    BY <2>11, <2>12, <2>13
<1> HIDE DEF At
<1>3. \A k \in l..top : At(k)
  <2>1. top - 1 \in l..top => At(top - 1)
    BY <1>1, <1>2
  <2>2. top - 2 \in l..top => At(top - 2)
    BY <2>1, <1>2
  <2>3. top - 3 \in l..top => At(top - 3)
    BY <2>2, <1>2
  <2>4. \A k \in l..top : k = top \/ k = top - 1 \/ k = top - 2 \/ k = top - 3
    BY DEF Top
  <2> QED
    BY <1>1, <2>1, <2>2, <2>3, <2>4
<1> QED
  BY <1>3 DEF At

\* Where a path ends.
Ends(m, p, l, ds) == l = 0 \/ ~IsTable(l, m[ds[l]][PDX(l, p)])

\* The path of a page ends where a chain of it ends.
LEMMA LeafIs ==
    ASSUME NEW m, NEW r \in Frames, NEW p \in Nat, NEW l \in Levels, NEW ds \in [Levels -> Frames],
           Chain(m, r, p, Top, l, ds), Ends(m, p, l, ds)
    PROVE  Leaf(m, r, p) = [dir |-> ds[l], level |-> l]
<1>1. ds[3] = r
  BY DEF Chain, Top
<1>2. ASSUME NEW k \in l..2
      PROVE  IsTable(k + 1, m[ds[k + 1]][PDX(k + 1, p)]) /\ m[ds[k + 1]][PDX(k + 1, p)].frame = ds[k]
  <2>1. k \in Levels /\ ds[k] \in Frames
    BY SMTT(20) DEF Levels, Top
  <2> QED
    BY <2>1 DEF Chain, Top, IsTable
<1>3. CASE l = 3
  BY <1>1, <1>3 DEF Leaf, Ends
<1>4. CASE l = 2
  <2>1. IsTable(3, m[ds[3]][PDX(3, p)]) /\ m[ds[3]][PDX(3, p)].frame = ds[2]
    BY <1>2, <1>4
  <2> QED
    BY <1>1, <1>4, <2>1 DEF Leaf, Ends
<1>5. CASE l = 1
  <2>1. IsTable(3, m[ds[3]][PDX(3, p)]) /\ m[ds[3]][PDX(3, p)].frame = ds[2]
    BY <1>2, <1>5
  <2>2. IsTable(2, m[ds[2]][PDX(2, p)]) /\ m[ds[2]][PDX(2, p)].frame = ds[1]
    BY <1>2, <1>5
  <2> QED
    BY <1>1, <1>5, <2>1, <2>2 DEF Leaf, Ends
<1>6. CASE l = 0
  <2>1. IsTable(3, m[ds[3]][PDX(3, p)]) /\ m[ds[3]][PDX(3, p)].frame = ds[2]
    BY <1>2, <1>6
  <2>2. IsTable(2, m[ds[2]][PDX(2, p)]) /\ m[ds[2]][PDX(2, p)].frame = ds[1]
    BY <1>2, <1>6
  <2>3. IsTable(1, m[ds[1]][PDX(1, p)]) /\ m[ds[1]][PDX(1, p)].frame = ds[0]
    BY <1>2, <1>6, SMTT(20)
  <2> QED
    BY <1>1, <1>6, <2>1, <2>2, <2>3 DEF Leaf
<1> QED
  BY <1>3, <1>4, <1>5, <1>6 DEF Levels, Top

\* A chain can be made one longer.
LEMMA ChainDown ==
    ASSUME NEW m, NEW r \in Frames, NEW p \in Nat, NEW top \in 1..Top, NEW l \in 1..top,
           NEW ds \in [Levels -> Frames], Chain(m, r, p, top, l, ds),
           NEW e, e = m[ds[l]][PDX(l, p)], e # None, ~pte_big(e), e.frame \in Frames,
           NEW ds2, ds2 = [ds EXCEPT ![l - 1] = e.frame]
    PROVE  ds2 \in [Levels -> Frames] /\ Chain(m, r, p, top, l - 1, ds2)
<1>1. l - 1 \in Levels /\ l - 1 # top /\ ds2[l - 1] = e.frame
      /\ \A k \in Levels : k # l - 1 => ds2[k] = ds[k]
  BY DEF Levels, Top
<1>2. ds2 \in [Levels -> Frames]
  OBVIOUS
<1>3. ASSUME NEW k \in (l - 1)..(top - 1)
      PROVE  LET x == m[ds2[k + 1]][PDX(k + 1, p)] IN x # None /\ ~pte_big(x) /\ x.frame = ds2[k]
  <2>1. CASE k = l - 1
    <3>1. k + 1 = l /\ ds2[k + 1] = ds[l]
      BY <1>1, <2>1 DEF Levels, Top
    <3> QED
      BY <1>1, <2>1, <3>1
  <2>2. CASE k # l - 1
    <3>1. k \in l..(top - 1) /\ ds2[k + 1] = ds[k + 1] /\ ds2[k] = ds[k]
      BY <1>1, <2>2 DEF Levels, Top
    <3> QED
      BY <3>1 DEF Chain
  <2> QED
    BY <2>1, <2>2
<1>4. ds2[top] = r
  BY <1>1 DEF Chain, Levels, Top
<1> QED
  BY <1>2, <1>3, <1>4 DEF Chain

\* Every page has a chain to the end of its path.
LEMMA LeafChain ==
    ASSUME NEW m, NEW pl, TreeFor(m, pl), NEW r \in Frames, pl[r] = Place(r, Top, 0), NEW p \in Pages
    PROVE  \E l \in Levels, ds \in [Levels -> Frames] :
                Chain(m, r, p, Top, l, ds) /\ Ends(m, p, l, ds)
<1>1. p \in Nat /\ Up(4, p) = 0
  BY PageNat
<1> DEFINE Has(l) == \E ds \in [Levels -> Frames] : Chain(m, r, p, Top, l, ds)
           Stop(l) == \E ds \in [Levels -> Frames] : Chain(m, r, p, Top, l, ds) /\ Ends(m, p, l, ds)
<1>2. Has(3)
  <2>1. [k \in Levels |-> r] \in [Levels -> Frames]
    OBVIOUS
  <2>2. Chain(m, r, p, Top, 3, [k \in Levels |-> r])
    BY DEF Chain, Top, Levels
  <2> QED
    BY <2>1, <2>2
<1>3. ASSUME NEW l \in 1..3, Has(l), ~Stop(l) PROVE Has(l - 1)
  <2>1. PICK ds \in [Levels -> Frames] : Chain(m, r, p, Top, l, ds)
    BY <1>3
  <2>2. IsTable(l, m[ds[l]][PDX(l, p)])
    BY <1>3, <2>1 DEF Ends
  <2>3. l \in Levels /\ ds[l] \in Frames /\ PDX(l, p) \in Index /\ Top \in 1..Top /\ Top - Top = 0
    BY <1>1, UpNext DEF Levels, Top
  <2>4. pl[ds[l]] = Place(r, l + (Top - Top), Up(l + 1, p))
    BY <1>1, <2>1, ChainPlaces DEF Top
  <2>5. Up(l + 1, p) \in Nat
    BY <1>1, UpType
  <2>6. pl[ds[l]] # None /\ pl[ds[l]].level = l
    BY <2>3, <2>4, <2>5, PlaceType DEF Top
  <2>7. PICK e : e = m[ds[l]][PDX(l, p)]
    OBVIOUS
  <2>8. e # None /\ ~pte_big(e)
    BY <2>2, <2>3, <2>6, <2>7, TableMeans
  <2>9. e.frame \in Frames
    BY <2>3, <2>6, <2>7, <2>8, TableChild
  <2>10. PICK ds2 : ds2 = [ds EXCEPT ![l - 1] = e.frame]
    OBVIOUS
  <2>11. ds2 \in [Levels -> Frames] /\ Chain(m, r, p, Top, l - 1, ds2)
    BY <1>1, <2>1, <2>3, <2>7, <2>8, <2>9, <2>10, ChainDown DEF Top
  <2> QED
    BY <2>11
<1>4. ASSUME Has(0) PROVE Stop(0)
  BY <1>4 DEF Ends
<1> HIDE DEF Has, Stop
<1>5. \E l \in Levels : Stop(l)
  <2>1. Stop(3) \/ Has(2)
    BY <1>2, <1>3
  <2>2. Stop(3) \/ Stop(2) \/ Has(1)
    BY <2>1, <1>3
  <2>3. Stop(3) \/ Stop(2) \/ Stop(1) \/ Has(0)
    BY <2>2, <1>3
  <2> QED
    BY <2>3, <1>4 DEF Levels, Top
<1> QED
  BY <1>5 DEF Stop

\* A chain is one for all pages with the same digits above it.
LEMMA ChainFor ==
    ASSUME NEW m, NEW r, NEW p \in Nat, NEW q \in Nat, NEW top \in 1..Top, NEW l \in 0..top, NEW ds,
           Chain(m, r, p, top, l, ds), Up(l + 1, q) = Up(l + 1, p)
    PROVE  Chain(m, r, q, top, l, ds)
<1>1. ASSUME NEW k \in l..(top - 1) PROVE PDX(k + 1, q) = PDX(k + 1, p)
  <2>1. l + 1 \in 0..4 /\ k + 1 \in 0..4 /\ l + 1 <= k + 1
    BY DEF Top
  <2>2. Up(k + 1, q) = Up(k + 1, p)
    BY <2>1, UpMono
  <2> QED
    BY <2>2 DEF PDX
<1> QED
  BY <1>1 DEF Chain

\* All pages below the entry at which a chain ends have that entry.
LEMMA ChainLeaf ==
    ASSUME NEW m, NEW r \in Frames, NEW p \in Nat, NEW q \in Nat, NEW l \in Levels,
           NEW ds \in [Levels -> Frames],
           Chain(m, r, p, Top, l, ds), Ends(m, p, l, ds), Up(l, q) = Up(l, p)
    PROVE  /\ Leaf(m, r, q) = [dir |-> ds[l], level |-> l]
           /\ LeafEntry(m, r, q) = m[ds[l]][PDX(l, p)]
<1>1. l \in 0..Top /\ Top \in 1..Top /\ l + 1 \in 0..4 /\ l \in 0..4
  BY DEF Levels, Top
<1>2. Up(l + 1, q) = Up(l + 1, p)
  BY <1>1, UpMono
<1>3. Chain(m, r, q, Top, l, ds)
  BY <1>1, <1>2, ChainFor
<1>4. PDX(l, q) = PDX(l, p)
  BY DEF PDX
<1>5. Ends(m, q, l, ds)
  BY <1>4 DEF Ends
<1>6. Leaf(m, r, q) = [dir |-> ds[l], level |-> l]
  BY <1>3, <1>5, LeafIs
<1> QED
  BY <1>4, <1>6 DEF LeafEntry

\* What is known of the end of a path.
LEMMA LeafFacts ==
    ASSUME NEW m, NEW pl, TreeFor(m, pl), NEW r \in Frames, pl[r] = Place(r, Top, 0), NEW p \in Pages,
           NEW f, f = Leaf(m, r, p), NEW e, e = LeafEntry(m, r, p)
    PROVE  /\ f.dir \in Frames /\ f.level \in Levels /\ PDX(f.level, p) \in Index
           /\ pl[f.dir] = Place(r, f.level, Up(f.level + 1, p))
           /\ e = m[f.dir][PDX(f.level, p)] /\ e \in {None} \cup Entries
           /\ e # None /\ f.level > 0 => pte_big(e) /\ f.level < Top
<1>1. p \in Nat /\ Up(4, p) = 0
  BY PageNat
<1>2. PICK l \in Levels, ds \in [Levels -> Frames] : Chain(m, r, p, Top, l, ds) /\ Ends(m, p, l, ds)
  BY LeafChain
<1>3. f = [dir |-> ds[l], level |-> l] /\ e = m[ds[l]][PDX(l, p)]
  BY <1>1, <1>2, LeafIs DEF LeafEntry
<1>4. f.dir = ds[l] /\ f.level = l /\ ds[l] \in Frames
  BY <1>3
<1>5. PDX(l, p) \in Index /\ Up(l + 1, p) \in Nat
  BY <1>1, UpLevel
<1>6. pl[ds[l]] = Place(r, l, Up(l + 1, p))
  <2>1. Top \in 1..Top /\ l \in 0..Top /\ l \in l..Top /\ l + (Top - Top) = l /\ Up(Top + 1, p) = 0
    BY <1>1 DEF Levels, Top
  <2>2. pl[ds[l]] = Place(r, l + (Top - Top), Up(l + 1, p))
    BY <1>1, <1>2, <2>1, ChainPlaces
  <2> QED
    BY <2>1, <2>2
<1>7. e \in {None} \cup Entries
  BY <1>3, <1>4, <1>5 DEF TreeFor
<1>8. ASSUME e # None, l > 0 PROVE pte_big(e) /\ l < Top
  <2>1. pl[ds[l]] # None /\ pl[ds[l]].level = l
    BY <1>5, <1>6, PlaceType
  <2>2. ~IsTable(l, m[ds[l]][PDX(l, p)])
    BY <1>2, <1>8 DEF Ends
  <2>3. pte_big(e)
    BY <1>3, <1>4, <1>5, <1>8, <2>1, <2>2, TableMeans
  <2> QED
    BY <1>3, <1>4, <1>5, <1>8, <2>1, <2>3 DEF TreeFor, Tree, EntryOK
<1> QED
  BY <1>3, <1>4, <1>5, <1>6, <1>7, <1>8

\* Pages of one chunk have one leaf.
LEMMA LeafChunk ==
    ASSUME NEW m, NEW pl, TreeFor(m, pl), NEW r \in Frames, pl[r] = Place(r, Top, 0), NEW p \in Pages,
           NEW q \in Pages, Up(Leaf(m, r, p).level, q) = Up(Leaf(m, r, p).level, p)
    PROVE  Leaf(m, r, q) = Leaf(m, r, p) /\ LeafEntry(m, r, q) = LeafEntry(m, r, p)
<1>1. p \in Nat /\ q \in Nat
  BY PageNat
<1>2. PICK l \in Levels, ds \in [Levels -> Frames] : Chain(m, r, p, Top, l, ds) /\ Ends(m, p, l, ds)
  BY LeafChain
<1>3. Leaf(m, r, p) = [dir |-> ds[l], level |-> l] /\ LeafEntry(m, r, p) = m[ds[l]][PDX(l, p)]
  BY <1>1, <1>2, ChainLeaf
<1>4. Up(l, q) = Up(l, p)
  BY <1>3
<1>5. Leaf(m, r, q) = [dir |-> ds[l], level |-> l] /\ LeafEntry(m, r, q) = m[ds[l]][PDX(l, p)]
  BY <1>1, <1>2, <1>4, ChainLeaf
<1> QED
  BY <1>3, <1>5

\* A memory that is the same along the path of a page.
SamePath(m, m2, pl, r, p) ==
    \A d \in Frames, l \in Levels :
        pl[d] = Place(r, l, Up(l + 1, p)) => m2[d][PDX(l, p)] = m[d][PDX(l, p)]

\* The path of a page is the same in a memory that is the same along it.
LEMMA LeafSame ==
    ASSUME NEW m, NEW m2, NEW pl, TreeFor(m, pl), NEW r \in Frames, pl[r] = Place(r, Top, 0),
           NEW p \in Pages, SamePath(m, m2, pl, r, p)
    PROVE  /\ Leaf(m2, r, p) = Leaf(m, r, p) /\ LeafEntry(m2, r, p) = LeafEntry(m, r, p)
           /\ Translate(m2, r, p) = Translate(m, r, p)
<1>1. p \in Nat /\ Up(4, p) = 0
  BY PageNat
<1>2. PICK l \in Levels, ds \in [Levels -> Frames] : Chain(m, r, p, Top, l, ds) /\ Ends(m, p, l, ds)
  BY LeafChain
<1>3. \A k \in l..Top : m2[ds[k]][PDX(k, p)] = m[ds[k]][PDX(k, p)]
  <2>1. Top \in 1..Top /\ l \in 0..Top /\ Up(Top + 1, p) = 0
    BY <1>1 DEF Levels, Top
  <2>2. \A k \in l..Top : pl[ds[k]] = Place(r, k + (Top - Top), Up(k + 1, p))
    BY <1>1, <1>2, <2>1, ChainPlaces
  <2>3. ASSUME NEW k \in l..Top PROVE m2[ds[k]][PDX(k, p)] = m[ds[k]][PDX(k, p)]
    <3>1. k \in Levels /\ ds[k] \in Frames /\ k + (Top - Top) = k
      BY DEF Levels, Top
    <3> QED
      BY <2>2, <3>1 DEF SamePath
  <2> QED
    BY <2>3
<1>4. Chain(m2, r, p, Top, l, ds)
  <2>1. ASSUME NEW k \in l..(Top - 1)
        PROVE  m2[ds[k + 1]][PDX(k + 1, p)] = m[ds[k + 1]][PDX(k + 1, p)]
    BY <1>3 DEF Levels, Top
  <2> QED
    BY <1>2, <2>1 DEF Chain
<1>5. m2[ds[l]][PDX(l, p)] = m[ds[l]][PDX(l, p)]
  BY <1>3 DEF Levels
<1>6. Ends(m2, p, l, ds)
  BY <1>2, <1>5 DEF Ends
<1>7. Leaf(m, r, p) = [dir |-> ds[l], level |-> l] /\ LeafEntry(m, r, p) = m[ds[l]][PDX(l, p)]
  BY <1>1, <1>2, ChainLeaf
<1>8. Leaf(m2, r, p) = [dir |-> ds[l], level |-> l] /\ LeafEntry(m2, r, p) = m2[ds[l]][PDX(l, p)]
  BY <1>1, <1>4, <1>6, ChainLeaf
<1>9. Leaf(m2, r, p) = Leaf(m, r, p) /\ LeafEntry(m2, r, p) = LeafEntry(m, r, p)
  BY <1>5, <1>7, <1>8
<1> QED
  BY <1>9 DEF Translate

\* A path goes at least as far as a chain of it.
LEMMA ChainLevel ==
    ASSUME NEW m, NEW r \in Frames, NEW p \in Nat, NEW l \in Levels, NEW ds \in [Levels -> Frames],
           Chain(m, r, p, Top, l, ds)
    PROVE  Leaf(m, r, p).level \in 0..l
<1>1. ds[3] = r
  BY DEF Chain, Top
<1>2. ASSUME NEW k \in l..2
      PROVE  IsTable(k + 1, m[ds[k + 1]][PDX(k + 1, p)]) /\ m[ds[k + 1]][PDX(k + 1, p)].frame = ds[k]
  <2>1. k \in Levels /\ ds[k] \in Frames
    BY DEF Levels, Top
  <2> QED
    BY <2>1 DEF Chain, Top, IsTable
<1>3. CASE l = 3
  BY <1>1, <1>3 DEF Leaf
<1>4. CASE l = 2
  <2>1. IsTable(3, m[ds[3]][PDX(3, p)]) /\ m[ds[3]][PDX(3, p)].frame = ds[2]
    BY <1>2, <1>4
  <2> QED
    BY <1>1, <1>4, <2>1 DEF Leaf
<1>5. CASE l = 1
  <2>1. IsTable(3, m[ds[3]][PDX(3, p)]) /\ m[ds[3]][PDX(3, p)].frame = ds[2]
    BY <1>2, <1>5
  <2>2. IsTable(2, m[ds[2]][PDX(2, p)]) /\ m[ds[2]][PDX(2, p)].frame = ds[1]
    BY <1>2, <1>5
  <2> QED
    BY <1>1, <1>5, <2>1, <2>2 DEF Leaf
<1>6. CASE l = 0
  <2>1. Ends(m, p, l, ds)
    BY <1>6 DEF Ends
  <2> QED
    BY <1>6, <2>1, LeafIs
<1> QED
  BY <1>3, <1>4, <1>5, <1>6 DEF Levels, Top

-----------------------------------------------------------------------------
(***************************************************************************)
(* Writing an entry that ends a path.                                      *)
(***************************************************************************)

\* The type of the memory.
MemType == [Frames -> [Index -> {None} \cup Entries]]

\* The frames are the pool and pgroot.
LEMMA PoolFrames == Pool \subseteq Frames /\ pgroot \in Frames /\ pgroot \notin Pool
BY PageTableAssumption DEF Pool, Frames, pgroot

\* Two memories that differ at one entry of the directories.
Changed(m, m2, pl, d, i) ==
    \A x \in Frames, j \in Index : pl[x] # None /\ ~(x = d /\ j = i) => m2[x][j] = m[x][j]

\* An entry that ends a path.
LeafOK(pl, d, e) == e # None =>
    /\ e \in Entries
    /\ pl[d].level = 0 /\ ~pte_big(e) /\ e.frame \in Frames => pl[e.frame] = None
    /\ pl[d].level = 0 /\ pte_big(e) => pl[d].root # pgroot
    /\ pl[d].level > 0 => pte_big(e) /\ pl[d].level < Top /\ (e.frame \in Frames => pl[d].root = pgroot)

\* A write of an entry that ends a path keeps the tree.
LEMMA EntryTree ==
    ASSUME NEW m, NEW m2 \in MemType, NEW pl, TreeFor(m, pl), NEW d \in Frames, NEW i \in Index,
           Changed(m, m2, pl, d, i), LeafOK(pl, d, m2[d][i]), pl[d] # None
    PROVE  TreeFor(m2, pl)
<1> SUFFICES ASSUME NEW x \in Frames, NEW j \in Index, pl[x] # None, m2[x][j] # None
             PROVE  EntryOK(pl, x, j, m2[x][j])
  BY DEF TreeFor, Tree, MemType
<1>1. CASE x = d /\ j = i
  BY <1>1 DEF LeafOK, EntryOK
<1>2. CASE ~(x = d /\ j = i)
  <2>1. m2[x][j] = m[x][j]
    BY <1>2 DEF Changed
  <2> QED
    BY <2>1 DEF TreeFor, Tree, EntryOK
<1> QED
  BY <1>1, <1>2

\* It takes no directory away.
LEMMA EntryHung ==
    ASSUME NEW m, NEW m2, NEW pl, NEW rf, NEW rf2, NEW live, NEW all,
           Hung(m, pl, rf, live, all), NEW d \in Frames, NEW i \in Index,
           Changed(m, m2, pl, d, i), m[d][i] = None \/ pl[d].level = 0 \/ pte_big(m[d][i]),
           pl \in [Frames -> {None} \cup Places],
           \A x \in Pool : pl[x] # None => rf2[x] > 0
    PROVE  Hung(m2, pl, rf2, live, all)
<1>1. ASSUME NEW x \in Frames, NEW j \in Index, NEW c \in Frames, pl[x] # None, pl[c] # None,
             pl[x].level = pl[c].level + 1, m[x][j] # None, ~pte_big(m[x][j])
      PROVE  m2[x][j] = m[x][j]
  <2>1. pl[c].level \in Nat
    BY <1>1 DEF Places, Levels
  <2>2. ~(x = d /\ j = i)
    BY <1>1, <2>1
  <2> QED
    BY <1>1, <2>2 DEF Changed
<1>2. ASSUME NEW c \in Frames, pl[c] # None, pl[c].level < Top, pl[c].root \in live
      PROVE  \E x \in Frames, j \in Index :
                /\ pl[x] # None /\ pl[x].level = pl[c].level + 1
                /\ m2[x][j] # None /\ ~pte_big(m2[x][j]) /\ m2[x][j].frame = c
  <2>1. PICK x \in Frames, j \in Index :
                /\ pl[x] # None /\ pl[x].level = pl[c].level + 1
                /\ m[x][j] # None /\ ~pte_big(m[x][j]) /\ m[x][j].frame = c
    BY <1>2 DEF Hung
  <2>2. m2[x][j] = m[x][j]
    BY <1>1, <1>2, <2>1
  <2> QED
    BY <2>1, <2>2
<1> QED
  BY <1>2 DEF Hung

\* How an entry counts for a frame.
RefTo(e, f) == IF e # None /\ ~pte_big(e) /\ e.frame = f THEN 1 ELSE 0

\* A frame has finitely many references.
LEMMA RefsFinite ==
    ASSUME NEW m, NEW pl, NEW f
    PROVE  IsFiniteSet(Refs(m, pl, f)) /\ Cardinality(Refs(m, pl, f)) \in Nat
<1>1. IsFiniteSet(Frames) /\ IsFiniteSet(Index)
  BY FS_Interval, PageTableAssumption DEF Frames, Index
<1>2. IsFiniteSet(Frames \X Index)
  BY <1>1, FS_Product
<1>3. Refs(m, pl, f) \in SUBSET (Frames \X Index)
  BY DEF Refs
<1> QED
  BY <1>2, <1>3, FS_Subset, FS_CardinalityType

\* It changes the references by the old entry and the new.
LEMMA EntryRefs ==
    ASSUME NEW m, NEW m2, NEW pl, NEW d \in Frames, NEW i \in Index, NEW f,
           Changed(m, m2, pl, d, i), pl[d] # None
    PROVE  Cardinality(Refs(m2, pl, f)) + RefTo(m[d][i], f)
                = Cardinality(Refs(m, pl, f)) + RefTo(m2[d][i], f)
<1>1. PICK x : x = <<d, i>>
  OBVIOUS
<1>2. x \in Refs(m, pl, f) <=> RefTo(m[d][i], f) = 1
  BY <1>1 DEF Refs, RefTo
<1>3. x \in Refs(m2, pl, f) <=> RefTo(m2[d][i], f) = 1
  BY <1>1 DEF Refs, RefTo
<1>4. Refs(m2, pl, f) \ {x} = Refs(m, pl, f) \ {x}
  <2>1. ASSUME NEW y \in Frames \X Index, y # x
        PROVE  y \in Refs(m2, pl, f) <=> y \in Refs(m, pl, f)
    <3>1. PICK a \in Frames, b \in Index : y = <<a, b>>
      OBVIOUS
    <3>2. ~(a = d /\ b = i)
      BY <1>1, <2>1, <3>1
    <3>3. pl[a] # None => m2[a][b] = m[a][b]
      BY <3>2 DEF Changed
    <3> QED
      BY <3>1, <3>3 DEF Refs
  <2>2. Refs(m2, pl, f) \subseteq Frames \X Index /\ Refs(m, pl, f) \subseteq Frames \X Index
    BY DEF Refs
  <2> QED
    BY <2>1, <2>2
<1>5. Cardinality(Refs(m2, pl, f) \ {x})
        = IF x \in Refs(m2, pl, f) THEN Cardinality(Refs(m2, pl, f)) - 1 ELSE Cardinality(Refs(m2, pl, f))
  BY RefsFinite, FS_RemoveElement
<1>6. Cardinality(Refs(m, pl, f) \ {x})
        = IF x \in Refs(m, pl, f) THEN Cardinality(Refs(m, pl, f)) - 1 ELSE Cardinality(Refs(m, pl, f))
  BY RefsFinite, FS_RemoveElement
<1>7. Cardinality(Refs(m2, pl, f)) \in Nat /\ Cardinality(Refs(m, pl, f)) \in Nat
  BY RefsFinite
<1>8. RefTo(m[d][i], f) \in {0, 1} /\ RefTo(m2[d][i], f) \in {0, 1}
  BY DEF RefTo
<1>9. PICK c \in Nat : c = Cardinality(Refs(m, pl, f))
  BY <1>7
<1>10. PICK c2 \in Nat : c2 = Cardinality(Refs(m2, pl, f))
  BY <1>7
<1>11. (IF RefTo(m2[d][i], f) = 1 THEN c2 - 1 ELSE c2) = (IF RefTo(m[d][i], f) = 1 THEN c - 1 ELSE c)
  BY <1>2, <1>3, <1>4, <1>5, <1>6, <1>9, <1>10
<1>12. c2 + RefTo(m[d][i], f) = c + RefTo(m2[d][i], f)
  BY <1>8, <1>11
<1> QED
  BY <1>9, <1>10, <1>12

\* The counts follow the entry.
Balanced(m, m2, rf, rf2, d, i) ==
    \A f \in Pool : rf2[f] + RefTo(m[d][i], f) = rf[f] + RefTo(m2[d][i], f)

\* The counts stay right when they follow the entry.
LEMMA EntryCount ==
    ASSUME NEW m, NEW m2, NEW pl, NEW rf \in [Pool -> Nat], NEW rf2 \in [Pool -> Nat], NEW exact,
           Counted(m, pl, rf, exact), NEW d \in Frames, NEW i \in Index,
           Changed(m, m2, pl, d, i), pl[d] # None, Balanced(m, m2, rf, rf2, d, i)
    PROVE  Counted(m2, pl, rf2, exact)
<1> SUFFICES ASSUME NEW f \in Pool
             PROVE  /\ IsRoot(pl, f) + Cardinality(Refs(m2, pl, f)) <= rf2[f]
                    /\ exact => rf2[f] = IsRoot(pl, f) + Cardinality(Refs(m2, pl, f))
  BY DEF Counted
<1>1. Cardinality(Refs(m2, pl, f)) + RefTo(m[d][i], f) = Cardinality(Refs(m, pl, f)) + RefTo(m2[d][i], f)
  BY EntryRefs
<1>2. /\ IsRoot(pl, f) + Cardinality(Refs(m, pl, f)) <= rf[f]
      /\ exact => rf[f] = IsRoot(pl, f) + Cardinality(Refs(m, pl, f))
  BY DEF Counted
<1>3. Cardinality(Refs(m2, pl, f)) \in Nat /\ Cardinality(Refs(m, pl, f)) \in Nat
  BY RefsFinite
<1>4. RefTo(m[d][i], f) \in {0, 1} /\ RefTo(m2[d][i], f) \in {0, 1} /\ IsRoot(pl, f) \in {0, 1}
  BY DEF RefTo, IsRoot
<1>5. rf[f] \in Nat /\ rf2[f] \in Nat /\ rf2[f] + RefTo(m[d][i], f) = rf[f] + RefTo(m2[d][i], f)
  BY DEF Balanced
<1> QED
  BY <1>1, <1>2, <1>3, <1>4, <1>5

\* A free page is no directory, and no entry refers to it.
LEMMA FreeUnused ==
    ASSUME NEW m, NEW pl, NEW rf \in [Pool -> Nat], NEW live, NEW all, NEW exact,
           Hung(m, pl, rf, live, all), Counted(m, pl, rf, exact), NEW f \in Pool, rf[f] = 0
    PROVE  /\ pl[f] = None
           /\ \A x \in Frames, j \in Index : pl[x] # None /\ m[x][j] # None /\ ~pte_big(m[x][j]) => m[x][j].frame # f
<1>1. pl[f] = None
  BY PoolFrames DEF Hung
<1>2. Refs(m, pl, f) = {}
  <2>1. IsRoot(pl, f) + Cardinality(Refs(m, pl, f)) <= 0
    BY DEF Counted
  <2>2. IsRoot(pl, f) \in {0, 1} /\ Cardinality(Refs(m, pl, f)) \in Nat
    BY RefsFinite DEF IsRoot
  <2>3. Cardinality(Refs(m, pl, f)) = 0
    BY <2>1, <2>2
  <2> QED
    BY <2>3, RefsFinite, FS_EmptySet
<1>3. ASSUME NEW x \in Frames, NEW j \in Index, pl[x] # None, m[x][j] # None, ~pte_big(m[x][j]),
             m[x][j].frame = f
      PROVE  FALSE
  <2>1. <<x, j>> \in Refs(m, pl, f)
    BY <1>3 DEF Refs
  <2> QED
    BY <1>2, <2>1
<1> QED
  BY <1>1, <1>3

-----------------------------------------------------------------------------
(***************************************************************************)
(* Linking a new directory.                                                *)
(***************************************************************************)

\* The type of place.
PlacesOf == [Frames -> {None} \cup Places]

\* A new directory n below entry i of d.
Linked(m, m2, pl, pl2, d, i, n) ==
    /\ Changed(m, m2, pl, d, i) /\ m2[d][i] = Pte(n, {"P", "W"}) /\ \A j \in Index : m2[n][j] = None
    /\ pl2[n] = Place(pl[d].root, pl[d].level - 1, pl[d].up * W + i)
    /\ \A x \in Frames : x # n => pl2[x] = pl[x]
    /\ pl[d] # None /\ pl[d].level > 0 /\ m[d][i] = None /\ pl[n] = None
    /\ \A x \in Frames, j \in Index : pl[x] # None /\ m[x][j] # None /\ ~pte_big(m[x][j]) => m[x][j].frame # n

\* The place of a new directory.
LEMMA LinkPlace ==
    ASSUME NEW m, NEW m2, NEW pl \in PlacesOf, NEW pl2, NEW d \in Frames, NEW i \in Index,
           NEW n \in Pool, Linked(m, m2, pl, pl2, d, i, n)
    PROVE  /\ pl2[n] \in Places /\ pl2[n] # None /\ pl2[n].root = pl[d].root
           /\ pl2[n].level = pl[d].level - 1 /\ pl2[n].up = pl[d].up * W + i
           /\ pl2[d] = pl[d] /\ d # n /\ n \in Frames /\ pl[d] \in Places
<1>1. pl[d] \in Places /\ d # n
  BY DEF Linked, PlacesOf
<1>2. pl[d].root \in Frames /\ pl[d].level - 1 \in Levels /\ pl[d].up * W + i \in Nat
  <2>1. pl[d].up \in Nat /\ i \in Nat /\ W \in Nat /\ pl[d].level \in 0..3 /\ pl[d].level > 0
    BY <1>1, WNat DEF Places, Levels, Top, Index, Linked
  <2>2. pl[d].up * W \in Nat
    BY <2>1
  <2> QED
    BY <1>1, <2>1, <2>2 DEF Places, Levels, Top
<1>3. pl2[n] = Place(pl[d].root, pl[d].level - 1, pl[d].up * W + i) /\ pl2[d] = pl[d]
  BY <1>1 DEF Linked
<1> QED
  BY <1>1, <1>2, <1>3, PlaceType, PoolFrames

\* A new directory keeps the tree,
LEMMA LinkTree ==
    ASSUME NEW m, NEW m2 \in MemType, NEW pl, TreeFor(m, pl), NEW pl2 \in PlacesOf,
           NEW d \in Frames, NEW i \in Index, NEW n \in Pool, Linked(m, m2, pl, pl2, d, i, n)
    PROVE  TreeFor(m2, pl2)
<1>1. pl \in PlacesOf
  BY DEF TreeFor, PlacesOf
<1> SUFFICES ASSUME NEW x \in Frames, NEW j \in Index, pl2[x] # None, m2[x][j] # None
             PROVE  EntryOK(pl2, x, j, m2[x][j])
  BY DEF TreeFor, Tree, MemType, PlacesOf
<1>2. x # n
  BY DEF Linked
<1>3. pl2[x] = pl[x] /\ pl[x] # None
  BY <1>2 DEF Linked
<1>4. CASE x = d /\ j = i
  <2>1. m2[x][j] = Pte(n, {"P", "W"})
    BY <1>4 DEF Linked
  <2>2. m2[x][j].flags = {"P", "W"} /\ m2[x][j].frame = n /\ ~pte_big(m2[x][j])
    BY <2>1 DEF Pte, pte_big
  <2>3. pl2[n] = Place(pl2[x].root, pl2[x].level - 1, pl2[x].up * W + j) /\ pl2[x].level > 0
    BY <1>3, <1>4 DEF Linked
  <2>4. ~(pl2[x].level = 0)
    BY <2>3
  <2> QED
    BY <2>2, <2>3, <2>4 DEF EntryOK
<1>5. CASE ~(x = d /\ j = i)
  <2>1. m2[x][j] = m[x][j] /\ (~pte_big(m[x][j]) => m[x][j].frame # n)
    BY <1>3, <1>5 DEF Linked, Changed
  <2>2. ~pte_big(m2[x][j]) /\ m2[x][j].frame \in Frames => pl2[m2[x][j].frame] = pl[m2[x][j].frame]
    BY <2>1 DEF Linked
  <2>3. Pool \subseteq Frames
    BY PoolFrames
  <2> QED
    BY <1>3, <2>1, <2>2, <2>3 DEF TreeFor, Tree, EntryOK
<1> QED
  BY <1>4, <1>5

\* is the only one at its place,
LEMMA LinkHung ==
    ASSUME NEW m, NEW m2, NEW pl, TreeFor(m, pl), NEW pl2 \in PlacesOf,
           NEW d \in Frames, NEW i \in Index, NEW n \in Pool, Linked(m, m2, pl, pl2, d, i, n),
           NEW rf, NEW rf2, NEW live, NEW all, Hung(m, pl, rf, live, all), live \subseteq all,
           pl[d].root \in live, all \subseteq Frames,
           \A x \in Pool : x # n => rf2[x] = rf[x], rf2[n] > 0
    PROVE  Hung(m2, pl2, rf2, live, all)
<1>1. pl \in PlacesOf
  BY DEF TreeFor, PlacesOf
<1>2. /\ pl2[n] \in Places /\ pl2[n] # None /\ pl2[n].root = pl[d].root
      /\ pl2[n].level = pl[d].level - 1 /\ pl2[n].up = pl[d].up * W + i
      /\ pl2[d] = pl[d] /\ d # n /\ n \in Frames /\ pl[d] \in Places
  BY <1>1, LinkPlace
<1>3. \A x \in Frames : x # n => pl2[x] = pl[x]
  BY DEF Linked
<1>4. pl[n] = None /\ pl[d] # None /\ pl[d].level \in 1..Top
  BY <1>2 DEF Linked, Places, Levels, Top
<1>5. \A r \in all : pl2[r] = Place(r, Top, 0)
  <2> TAKE r \in all
  <2>1. pl[r] = Place(r, Top, 0) /\ r \in Frames
    BY DEF Hung
  <2>2. r # n
    BY <1>4, <2>1, PlaceType DEF Levels, Top
  <2> QED
    BY <1>3, <2>1, <2>2
<1>6. ASSUME NEW x \in Frames, pl2[x] # None
      PROVE  /\ pl2[x].level = Top => pl2[x].root = x /\ pl2[x].up = 0
             /\ pl2[x].root \in all
             /\ x \in Pool => rf2[x] > 0
  <2>1. CASE x = n
    BY <1>2, <1>4, <2>1 DEF Top
  <2>2. CASE x # n
    BY <1>3, <1>6, <2>2 DEF Hung
  <2> QED
    BY <2>1, <2>2
<1>7. ASSUME NEW x \in Frames, x # n, pl[x] # None, pl[x] = pl2[n] PROVE FALSE
  <2>1. pl[x].root \in live /\ pl[x].level < Top
    BY <1>2, <1>4, <1>7 DEF Top
  <2>2. PICK y \in Frames, j \in Index :
            /\ pl[y] # None /\ pl[y].level = pl[x].level + 1
            /\ m[y][j] # None /\ ~pte_big(m[y][j]) /\ m[y][j].frame = x
    BY <1>7, <2>1 DEF Hung
  <2>3. pl[y] \in Places /\ pl[x] \in Places
    BY <1>1, <1>7, <2>2 DEF PlacesOf
  <2>4. pl[y].level > 0
    BY <2>2, <2>3 DEF Places, Levels
  <2>5. pl[x] = Place(pl[y].root, pl[y].level - 1, pl[y].up * W + j)
    BY <2>2, <2>4, TableChild
  <2>6. pl[x].root = pl[y].root /\ pl[x].up = pl[y].up * W + j
    BY <2>5 DEF Place
  <2>7. pl[y].root = pl[d].root /\ pl[y].level = pl[d].level /\ pl[y].up * W + j = pl[d].up * W + i
    BY <1>2, <1>4, <1>7, <2>2, <2>6
  <2>8. pl[y].up = pl[d].up /\ j = i
    BY <1>2, <2>3, <2>7, DigitsUnique DEF Places
  <2>9. pl[y] = pl[d]
    BY <1>2, <2>3, <2>7, <2>8 DEF Places
  <2>10. y = d
    BY <1>4, <2>9 DEF Hung
  <2> QED
    BY <2>2, <2>8, <2>10 DEF Linked
<1>8. ASSUME NEW x \in Frames, NEW y \in Frames, pl2[x] # None, pl2[y] = pl2[x] PROVE y = x
  <2>1. CASE x = n /\ y # n
    BY <1>3, <1>7, <1>8, <2>1
  <2>2. CASE x # n /\ y = n
    BY <1>3, <1>7, <1>8, <2>2
  <2>3. CASE x # n /\ y # n
    BY <1>3, <1>8, <2>3 DEF Hung
  <2> QED
    BY <2>1, <2>2, <2>3
<1>9. ASSUME NEW c \in Frames, pl2[c] # None, pl2[c].level < Top, pl2[c].root \in live
      PROVE  \E x \in Frames, j \in Index :
                /\ pl2[x] # None /\ pl2[x].level = pl2[c].level + 1
                /\ m2[x][j] # None /\ ~pte_big(m2[x][j]) /\ m2[x][j].frame = c
  <2>1. CASE c = n
    <3>1. m2[d][i] = Pte(n, {"P", "W"}) /\ Pte(n, {"P", "W"}) \in Entries
      BY <1>2 DEF Linked, Pte, Entries, Flags, Pool
    <3>2. m2[d][i] # None /\ ~pte_big(m2[d][i]) /\ m2[d][i].frame = n
      BY <3>1, NoneIs DEF Pte, pte_big
    <3>3. pl2[d] # None /\ pl2[d].level = pl2[c].level + 1
      BY <1>2, <1>4, <2>1
    <3> QED
      BY <2>1, <3>2, <3>3
  <2>2. CASE c # n
    <3>1. pl2[c] = pl[c]
      BY <1>3, <2>2
    <3>2. PICK x \in Frames, j \in Index :
                /\ pl[x] # None /\ pl[x].level = pl[c].level + 1
                /\ m[x][j] # None /\ ~pte_big(m[x][j]) /\ m[x][j].frame = c
      BY <1>9, <3>1 DEF Hung
    <3>3. x # n /\ ~(x = d /\ j = i)
      BY <1>4, <3>2 DEF Linked
    <3>4. pl2[x] = pl[x] /\ m2[x][j] = m[x][j]
      BY <1>3, <3>2, <3>3 DEF Linked, Changed
    <3> QED
      BY <3>1, <3>2, <3>4
  <2> QED
    BY <2>1, <2>2
<1> QED
  BY <1>5, <1>6, <1>8, <1>9 DEF Hung

\* and is counted.
LEMMA LinkCount ==
    ASSUME NEW m, NEW m2, NEW pl \in PlacesOf, NEW pl2 \in PlacesOf,
           NEW d \in Frames, NEW i \in Index, NEW n \in Pool, Linked(m, m2, pl, pl2, d, i, n),
           NEW rf \in [Pool -> Nat], NEW rf2 \in [Pool -> Nat], NEW exact, Counted(m, pl, rf, exact),
           \A x \in Pool : x # n => rf2[x] = rf[x], rf[n] = 0, rf2[n] = 1
    PROVE  Counted(m2, pl2, rf2, exact)
<1>1. /\ pl2[n] \in Places /\ pl2[n] # None /\ pl2[n].level = pl[d].level - 1 /\ pl[d] \in Places
      /\ n \in Frames
  BY LinkPlace
<1>2. m[d][i] = None /\ m2[d][i] = Pte(n, {"P", "W"}) /\ pl[d] # None /\ pl[n] = None
  BY DEF Linked
<1>3. m2[d][i] # None /\ m2[d][i].frame = n /\ ~pte_big(m2[d][i])
  <2>1. Pte(n, {"P", "W"}) \in Entries
    BY DEF Pte, Entries, Flags, Pool
  <2> QED
    BY <1>2, <2>1, NoneIs DEF Pte, pte_big
<1>4. Balanced(m, m2, rf, rf2, d, i)
  BY <1>2, <1>3 DEF RefTo, Balanced
<1>5. Changed(m, m2, pl, d, i)
  BY DEF Linked
<1>6. Counted(m2, pl, rf2, exact)
  <2>1. pl[d] # None
    BY <1>2
  <2> QED
    BY <1>4, <1>5, <2>1, EntryCount
<1>7. ASSUME NEW f \in Pool PROVE Refs(m2, pl2, f) = Refs(m2, pl, f) /\ IsRoot(pl2, f) = IsRoot(pl, f)
  <2>1. ASSUME NEW x \in Frames, NEW j \in Index
        PROVE  (pl2[x] # None /\ m2[x][j] # None) <=> (pl[x] # None /\ m2[x][j] # None)
    BY <1>2 DEF Linked
  <2>2. Refs(m2, pl2, f) = Refs(m2, pl, f)
    BY <2>1 DEF Refs
  <2>3. f # n => pl2[f] = pl[f]
    BY PoolFrames DEF Linked
  <2>4. ~(pl2[n].level = Top)
    BY <1>1 DEF Places, Levels, Top
  <2>5. IsRoot(pl2, f) = IsRoot(pl, f)
    <3>1. CASE f = n
      BY <1>2, <2>4, <3>1 DEF IsRoot, Top
    <3>2. CASE f # n
      BY <2>3, <3>2 DEF IsRoot
    <3> QED
      BY <3>1, <3>2
  <2> QED
    BY <2>2, <2>5
<1> QED
  BY <1>6, <1>7 DEF Counted

-----------------------------------------------------------------------------
(***************************************************************************)
(* What an entry written, a directory linked, a root made and a tree pruned *)
(* do to the paths of the pages.                                           *)
(***************************************************************************)

\* A write to the entry at which a path ends.
OneEntry(m, m2, pl, r, c, l, ds) ==
    /\ TreeFor(m, pl) /\ m2 \in MemType /\ r \in Frames /\ c \in Pages /\ l \in Levels
    /\ ds \in [Levels -> Frames] /\ pl[r] = Place(r, Top, 0) /\ Chain(m, r, c, Top, l, ds)
    /\ Changed(m, m2, pl, ds[l], PDX(l, c)) /\ LeafOK(pl, ds[l], m2[ds[l]][PDX(l, c)])
    /\ m[ds[l]][PDX(l, c)] = None \/ l = 0 \/ pte_big(m[ds[l]][PDX(l, c)])

\* The directory of the entry written.
LEMMA OneDir ==
    ASSUME NEW m, NEW m2, NEW pl, NEW r, NEW c, NEW l, NEW ds, OneEntry(m, m2, pl, r, c, l, ds)
    PROVE  /\ c \in Nat /\ ds[l] \in Frames /\ PDX(l, c) \in Index
           /\ pl[ds[l]] = Place(r, l, Up(l + 1, c)) /\ pl[ds[l]] # None
           /\ pl[ds[l]].level = l /\ pl[ds[l]].root = r /\ pl[ds[l]].up = Up(l + 1, c)
           /\ Up(l + 1, c) \in Nat
<1>1. c \in Nat /\ Up(4, c) = 0 /\ c \in Pages
  BY PageNat DEF OneEntry
<1>2. l \in Levels /\ r \in Frames /\ ds \in [Levels -> Frames]
  BY DEF OneEntry
<1>3. PDX(l, c) \in Index /\ ds[l] \in Frames
  BY <1>1, <1>2, UpNext
<1>4. Up(l + 1, c) \in Nat
  BY <1>1, <1>2, UpLevel
<1>5. \A k \in l..Top : pl[ds[k]] = Place(r, k + (Top - Top), Up(k + 1, c))
  BY <1>1, <1>2, ChainPlaces DEF OneEntry, Top, Levels
<1>6. pl[ds[l]] = Place(r, l, Up(l + 1, c))
  BY <1>2, <1>5 DEF Levels, Top
<1> QED
  BY <1>1, <1>2, <1>3, <1>4, <1>6, PlaceType

\* The write keeps the tree.
LEMMA OneTree ==
    ASSUME NEW m, NEW m2, NEW pl, NEW r, NEW c, NEW l, NEW ds, OneEntry(m, m2, pl, r, c, l, ds)
    PROVE  TreeFor(m2, pl)
<1>1. ds[l] \in Frames /\ PDX(l, c) \in Index /\ pl[ds[l]] # None
  BY OneDir
<1>2. PICK d \in Frames : d = ds[l]
  BY <1>1
<1>3. PICK i \in Index : i = PDX(l, c)
  BY <1>1
<1>4. /\ m2 \in MemType /\ TreeFor(m, pl) /\ Changed(m, m2, pl, d, i) /\ LeafOK(pl, d, m2[d][i])
      /\ pl[d] # None
  BY <1>1, <1>2, <1>3 DEF OneEntry
<1> QED
  BY <1>4, EntryTree

\* The tables of a chain are still there.
LEMMA OneChain ==
    ASSUME NEW m, NEW m2, NEW pl, NEW r, NEW c, NEW l, NEW ds, OneEntry(m, m2, pl, r, c, l, ds),
           NEW s \in Frames, NEW p \in Pages, NEW k \in Levels, NEW es \in [Levels -> Frames],
           pl[s] = Place(s, Top, 0), Chain(m, s, p, Top, k, es)
    PROVE  Chain(m2, s, p, Top, k, es)
<1>1. p \in Nat /\ Up(4, p) = 0
  BY PageNat
<1>2. \A n \in k..Top : pl[es[n]] = Place(s, n + (Top - Top), Up(n + 1, p))
  BY <1>1, ChainPlaces, SMTT(20) DEF OneEntry, Top, Levels
<1>3. ASSUME NEW n \in k..(Top - 1)
      PROVE  m2[es[n + 1]][PDX(n + 1, p)] = m[es[n + 1]][PDX(n + 1, p)]
  <2>1. n + 1 \in Levels /\ n + 1 > 0 /\ n + 1 \in k..Top
    BY DEF Levels, Top
  <2>2. es[n + 1] \in Frames /\ PDX(n + 1, p) \in Index /\ Up(n + 2, p) \in Nat
    BY <1>1, <2>1, UpLevel, (n + 1) + 1 = n + 2
  <2>3. pl[es[n + 1]] = Place(s, n + 1, Up(n + 2, p))
    BY <1>2, <2>1 DEF Top, Levels
  <2>4. pl[es[n + 1]] # None /\ pl[es[n + 1]].level = n + 1
    BY <2>1, <2>2, <2>3, PlaceType
  <2>5. m[es[n + 1]][PDX(n + 1, p)] # None /\ ~pte_big(m[es[n + 1]][PDX(n + 1, p)])
    BY DEF Chain
  <2>6. ~(es[n + 1] = ds[l] /\ PDX(n + 1, p) = PDX(l, c))
    <3> SUFFICES ASSUME es[n + 1] = ds[l], PDX(n + 1, p) = PDX(l, c) PROVE FALSE
      OBVIOUS
    <3>1. l = n + 1
      BY <2>4, OneDir
    <3> QED
      BY <2>1, <2>5, <3>1 DEF OneEntry
  <2> QED
    BY <2>2, <2>4, <2>6 DEF OneEntry, Changed
<1> QED
  BY <1>3 DEF Chain

\* Other paths do not meet the entry.
LEMMA OneOther ==
    ASSUME NEW m, NEW m2, NEW pl, NEW r, NEW c, NEW l, NEW ds, OneEntry(m, m2, pl, r, c, l, ds),
           NEW s \in Frames, NEW p \in Pages, pl[s] = Place(s, Top, 0),
           s # r \/ Up(l, p) # Up(l, c)
    PROVE  /\ Leaf(m2, s, p) = Leaf(m, s, p) /\ LeafEntry(m2, s, p) = LeafEntry(m, s, p)
           /\ Translate(m2, s, p) = Translate(m, s, p)
<1>1. p \in Nat
  BY PageNat
<1>2. TreeFor(m, pl)
  BY DEF OneEntry
<1>3. SamePath(m, m2, pl, s, p)
  <2> SUFFICES ASSUME NEW d \in Frames, NEW k \in Levels, pl[d] = Place(s, k, Up(k + 1, p))
               PROVE  m2[d][PDX(k, p)] = m[d][PDX(k, p)]
    BY DEF SamePath
  <2>1. Up(k + 1, p) \in Nat /\ PDX(k, p) \in Index
    BY <1>1, UpLevel
  <2>2. pl[d] # None /\ pl[d].root = s /\ pl[d].level = k /\ pl[d].up = Up(k + 1, p)
    BY <2>1, PlaceType
  <2>3. ~(d = ds[l] /\ PDX(k, p) = PDX(l, c))
    <3> SUFFICES ASSUME d = ds[l], PDX(k, p) = PDX(l, c) PROVE FALSE
      OBVIOUS
    <3>1. s = r /\ k = l /\ Up(k + 1, p) = Up(l + 1, c) /\ c \in Nat
      BY <2>2, OneDir
    <3>2. Up(l, p) = Up(l + 1, p) * W + PDX(l, p) /\ Up(l, c) = Up(l + 1, c) * W + PDX(l, c)
      BY <1>1, <3>1, UpNext
    <3> QED
      BY <3>1, <3>2
  <2> QED
    BY <2>1, <2>2, <2>3 DEF OneEntry, Changed
<1> QED
  BY <1>2, <1>3, LeafSame

\* The pages below the entry end there, before and after.
LEMMA OneHere ==
    ASSUME NEW m, NEW m2, NEW pl, NEW r, NEW c, NEW l, NEW ds, OneEntry(m, m2, pl, r, c, l, ds),
           NEW p \in Pages, Up(l, p) = Up(l, c)
    PROVE  /\ Leaf(m, r, p) = [dir |-> ds[l], level |-> l]
           /\ LeafEntry(m, r, p) = m[ds[l]][PDX(l, c)]
           /\ Leaf(m2, r, p) = [dir |-> ds[l], level |-> l]
           /\ LeafEntry(m2, r, p) = m2[ds[l]][PDX(l, c)]
<1>1. p \in Nat /\ c \in Nat
  BY PageNat, OneDir
<1>2. l \in Levels /\ r \in Frames /\ ds \in [Levels -> Frames] /\ c \in Pages /\ pl[r] = Place(r, Top, 0)
      /\ Chain(m, r, c, Top, l, ds)
  BY DEF OneEntry
<1>3. Chain(m2, r, c, Top, l, ds)
  BY <1>2, OneChain
<1>4. pl[ds[l]] # None /\ pl[ds[l]].level = l /\ ds[l] \in Frames /\ PDX(l, c) \in Index
  BY OneDir
<1>5. Ends(m, c, l, ds)
  <2>1. l = 0 \/ m[ds[l]][PDX(l, c)] = None \/ pte_big(m[ds[l]][PDX(l, c)])
    BY DEF OneEntry
  <2>2. l # 0 => l > 0
    BY <1>2 DEF Levels
  <2>3. TreeFor(m, pl)
    BY DEF OneEntry
  <2>4. l > 0 => (IsTable(l, m[ds[l]][PDX(l, c)]) <=> m[ds[l]][PDX(l, c)] # None /\ ~pte_big(m[ds[l]][PDX(l, c)]))
    BY <1>4, <2>3, TableMeans
  <2> QED
    BY <2>1, <2>2, <2>4 DEF Ends
<1>6. Ends(m2, c, l, ds)
  <2>1. TreeFor(m2, pl)
    BY OneTree
  <2>2. l # 0 => l > 0
    BY <1>2 DEF Levels
  <2>3. l > 0 => m2[ds[l]][PDX(l, c)] = None \/ pte_big(m2[ds[l]][PDX(l, c)])
    BY <1>4 DEF OneEntry, LeafOK
  <2>4. l > 0 => (IsTable(l, m2[ds[l]][PDX(l, c)]) <=> m2[ds[l]][PDX(l, c)] # None /\ ~pte_big(m2[ds[l]][PDX(l, c)]))
    BY <1>4, <2>1, TableMeans
  <2> QED
    BY <2>2, <2>3, <2>4 DEF Ends
<1>7. Leaf(m, r, p) = [dir |-> ds[l], level |-> l] /\ LeafEntry(m, r, p) = m[ds[l]][PDX(l, c)]
  BY <1>1, <1>2, <1>5, ChainLeaf
<1>8. Leaf(m2, r, p) = [dir |-> ds[l], level |-> l] /\ LeafEntry(m2, r, p) = m2[ds[l]][PDX(l, c)]
  BY <1>1, <1>2, <1>3, <1>6, ChainLeaf
<1> QED
  BY <1>7, <1>8

\* A new directory at the end of a path.
OneLink(m, m2, pl, pl2, r, c, l, ds, n) ==
    /\ TreeFor(m, pl) /\ m2 \in MemType /\ pl2 \in PlacesOf
    /\ r \in Frames /\ c \in Pages /\ l \in 1..Top
    /\ ds \in [Levels -> Frames] /\ pl[r] = Place(r, Top, 0) /\ Chain(m, r, c, Top, l, ds)
    /\ n \in Pool /\ Linked(m, m2, pl, pl2, ds[l], PDX(l, c), n)

\* The directory that the new one is made in.
LEMMA LinkDir ==
    ASSUME NEW m, NEW m2, NEW pl, NEW pl2, NEW r, NEW c, NEW l, NEW ds, NEW n,
           OneLink(m, m2, pl, pl2, r, c, l, ds, n)
    PROVE  /\ c \in Nat /\ l \in Levels /\ ds[l] \in Frames /\ PDX(l, c) \in Index
           /\ pl[ds[l]] # None
           /\ pl[ds[l]].level = l /\ pl[ds[l]].root = r /\ pl[ds[l]].up = Up(l + 1, c)
<1>1. c \in Nat /\ Up(4, c) = 0 /\ c \in Pages
  BY PageNat DEF OneLink
<1>2. l \in Levels /\ r \in Frames /\ ds \in [Levels -> Frames]
  BY DEF OneLink, Levels, Top
<1>3. PDX(l, c) \in Index /\ ds[l] \in Frames
  BY <1>1, <1>2, UpNext
<1>4. Up(l + 1, c) \in Nat
  BY <1>1, <1>2, UpLevel
<1>5. \A k \in l..Top : pl[ds[k]] = Place(r, k + (Top - Top), Up(k + 1, c))
  BY <1>1, <1>2, ChainPlaces DEF OneLink, Top, Levels
<1>6. pl[ds[l]] = Place(r, l, Up(l + 1, c))
  BY <1>2, <1>5 DEF Levels, Top
<1> QED
  BY <1>1, <1>2, <1>3, <1>4, <1>6, PlaceType

\* A new directory breaks no chain.
LEMMA LinkChain ==
    ASSUME NEW m, NEW m2, NEW pl, NEW pl2, NEW r, NEW c, NEW l, NEW ds, NEW n,
           OneLink(m, m2, pl, pl2, r, c, l, ds, n),
           NEW s \in Frames, NEW p \in Pages, NEW k \in Levels, NEW es \in [Levels -> Frames],
           pl[s] = Place(s, Top, 0), Chain(m, s, p, Top, k, es)
    PROVE  Chain(m2, s, p, Top, k, es)
<1>1. p \in Nat /\ Up(4, p) = 0
  BY PageNat
<1>2. \A j \in k..Top : pl[es[j]] = Place(s, j + (Top - Top), Up(j + 1, p))
  BY <1>1, ChainPlaces DEF OneLink, Top, Levels
<1>3. ASSUME NEW j \in k..(Top - 1)
      PROVE  m2[es[j + 1]][PDX(j + 1, p)] = m[es[j + 1]][PDX(j + 1, p)]
  <2>1. j + 1 \in Levels /\ j + 1 \in k..Top
    BY DEF Levels, Top
  <2>2. es[j + 1] \in Frames /\ PDX(j + 1, p) \in Index /\ Up(j + 2, p) \in Nat
    BY <1>1, <2>1, UpLevel, (j + 1) + 1 = j + 2
  <2>3. pl[es[j + 1]] = Place(s, j + 1, Up(j + 2, p))
    BY <1>2, <2>1 DEF Top, Levels
  <2>4. pl[es[j + 1]] # None
    BY <2>1, <2>2, <2>3, PlaceType
  <2>5. m[es[j + 1]][PDX(j + 1, p)] # None
    BY DEF Chain
  <2>6. ~(es[j + 1] = ds[l] /\ PDX(j + 1, p) = PDX(l, c))
    BY <2>5 DEF OneLink, Linked
  <2> QED
    BY <2>2, <2>4, <2>6 DEF OneLink, Linked, Changed
<1> QED
  BY <1>3 DEF Chain

\* Other paths do not meet the new directory.
LEMMA LinkOther ==
    ASSUME NEW m, NEW m2, NEW pl, NEW pl2, NEW r, NEW c, NEW l, NEW ds, NEW n,
           OneLink(m, m2, pl, pl2, r, c, l, ds, n),
           NEW s \in Frames, NEW p \in Pages, pl[s] = Place(s, Top, 0),
           s # r \/ Up(l, p) # Up(l, c)
    PROVE  /\ Leaf(m2, s, p) = Leaf(m, s, p) /\ LeafEntry(m2, s, p) = LeafEntry(m, s, p)
           /\ Translate(m2, s, p) = Translate(m, s, p)
<1>1. p \in Nat
  BY PageNat
<1>2. TreeFor(m, pl)
  BY DEF OneLink
<1>3. SamePath(m, m2, pl, s, p)
  <2> SUFFICES ASSUME NEW d \in Frames, NEW k \in Levels, pl[d] = Place(s, k, Up(k + 1, p))
               PROVE  m2[d][PDX(k, p)] = m[d][PDX(k, p)]
    BY DEF SamePath
  <2>1. Up(k + 1, p) \in Nat /\ PDX(k, p) \in Index
    BY <1>1, UpLevel
  <2>2. pl[d] # None /\ pl[d].root = s /\ pl[d].level = k /\ pl[d].up = Up(k + 1, p)
    BY <2>1, PlaceType
  <2>3. ~(d = ds[l] /\ PDX(k, p) = PDX(l, c))
    <3> SUFFICES ASSUME d = ds[l], PDX(k, p) = PDX(l, c) PROVE FALSE
      OBVIOUS
    <3>1. s = r /\ k = l /\ Up(k + 1, p) = Up(l + 1, c) /\ c \in Nat
      BY <2>2, LinkDir
    <3>2. Up(l, p) = Up(l + 1, p) * W + PDX(l, p) /\ Up(l, c) = Up(l + 1, c) * W + PDX(l, c)
      BY <1>1, <3>1, UpNext
    <3> QED
      BY <3>1, <3>2
  <2> QED
    BY <2>1, <2>2, <2>3 DEF OneLink, Linked, Changed
<1> QED
  BY <1>2, <1>3, LeafSame

\* The paths of the pages below it end in it.
LEMMA LinkHere ==
    ASSUME NEW m, NEW m2, NEW pl, NEW pl2, NEW r, NEW c, NEW l, NEW ds, NEW n,
           OneLink(m, m2, pl, pl2, r, c, l, ds, n), NEW p \in Pages, Up(l, p) = Up(l, c)
    PROVE  /\ LeafEntry(m, r, p) = None /\ LeafEntry(m2, r, p) = None
           /\ Leaf(m2, r, p).level = l - 1
<1>1. p \in Nat /\ c \in Nat /\ l \in Levels /\ ds[l] \in Frames /\ PDX(l, c) \in Index
  BY PageNat, LinkDir
<1>2. l \in 1..Top /\ r \in Frames /\ ds \in [Levels -> Frames] /\ c \in Pages
      /\ pl[r] = Place(r, Top, 0) /\ Chain(m, r, c, Top, l, ds) /\ n \in Frames /\ n \in Pool
  BY PoolFrames DEF OneLink
<1>3. Chain(m2, r, c, Top, l, ds)
  BY <1>1, <1>2, LinkChain
<1>4. m[ds[l]][PDX(l, c)] = None /\ m2[ds[l]][PDX(l, c)] = Pte(n, {"P", "W"})
      /\ \A j \in Index : m2[n][j] = None
  BY DEF OneLink, Linked
<1>5. LeafEntry(m, r, p) = None
  <2>1. Ends(m, c, l, ds)
    BY <1>4 DEF Ends, IsTable
  <2> QED
    BY <1>1, <1>2, <1>4, <2>1, ChainLeaf
<1>6. PICK e \in Entries : e = m2[ds[l]][PDX(l, c)] /\ e = Pte(n, {"P", "W"})
  BY <1>2, <1>4 DEF Pte, Entries, Flags, Pool
<1>7. e # None /\ ~pte_big(e) /\ e.frame = n
  BY <1>6, NoneIs DEF pte_big, Pte
<1>8. PICK es : es = [ds EXCEPT ![l - 1] = e.frame]
  OBVIOUS
<1>9. es \in [Levels -> Frames] /\ Chain(m2, r, c, Top, l - 1, es)
  <2>1. Top \in 1..Top
    BY DEF Top
  <2> QED
    BY <1>1, <1>2, <1>3, <1>6, <1>7, <1>8, <2>1, ChainDown
<1>10. l - 1 \in Levels /\ (l - 1) + 1 = l
  BY <1>2 DEF Levels, Top
<1>11. es[l - 1] = n
  BY <1>2, <1>7, <1>8, <1>10
<1>12. PDX(l - 1, p) \in Index
  BY <1>1, <1>10, UpNext
<1>13. Chain(m2, r, p, Top, l - 1, es)
  BY <1>1, <1>9, <1>10, ChainFor DEF Top, Levels
<1>14. m2[es[l - 1]][PDX(l - 1, p)] = None
  BY <1>4, <1>11, <1>12
<1>15. Ends(m2, p, l - 1, es)
  BY <1>14 DEF Ends, IsTable
<1>16. Leaf(m2, r, p) = [dir |-> es[l - 1], level |-> l - 1] /\ LeafEntry(m2, r, p) = None
  BY <1>1, <1>2, <1>9, <1>10, <1>13, <1>14, <1>15, ChainLeaf, SMTT(20)
<1> QED
  BY <1>5, <1>16

\* A new directory changes no translation.
LEMMA LinkPaths ==
    ASSUME NEW m, NEW m2, NEW pl, NEW pl2, NEW r, NEW c, NEW l, NEW ds, NEW n,
           OneLink(m, m2, pl, pl2, r, c, l, ds, n),
           NEW s \in Frames, NEW p \in Pages, pl[s] = Place(s, Top, 0)
    PROVE  /\ LeafEntry(m2, s, p) = LeafEntry(m, s, p) /\ Translate(m2, s, p) = Translate(m, s, p)
           /\ LeafEntry(m, s, p) # None => Leaf(m2, s, p) = Leaf(m, s, p)
           /\ Leaf(m2, s, p) = Leaf(m, s, p) \/ Leaf(m2, s, p).level = l - 1
<1>1. CASE s = r /\ Up(l, p) = Up(l, c)
  <2>1. LeafEntry(m, s, p) = None /\ LeafEntry(m2, s, p) = None /\ Leaf(m2, s, p).level = l - 1
    BY <1>1, LinkHere
  <2> QED
    BY <2>1 DEF Translate
<1>2. CASE ~(s = r /\ Up(l, p) = Up(l, c))
  BY <1>2, LinkOther
<1> QED
  BY <1>1, <1>2

\* A new root n.
Rooted(m, m2, pl, pl2, n) ==
    /\ \A j \in Index : m2[n][j] = None
    /\ \A x \in Frames, j \in Index : pl[x] # None => m2[x][j] = m[x][j]
    /\ pl2[n] = Place(n, Top, 0) /\ pl[n] = None
    /\ \A x \in Frames : x # n => pl2[x] = pl[x]
    /\ \A x \in Frames, j \in Index : pl[x] # None /\ m[x][j] # None /\ ~pte_big(m[x][j]) => m[x][j].frame # n

\* A new root keeps the tree,
LEMMA RootTree ==
    ASSUME NEW m, NEW m2 \in MemType, NEW pl, TreeFor(m, pl), NEW pl2 \in PlacesOf,
           NEW n \in Pool, Rooted(m, m2, pl, pl2, n)
    PROVE  TreeFor(m2, pl2)
<1> SUFFICES ASSUME NEW x \in Frames, NEW j \in Index, pl2[x] # None, m2[x][j] # None
             PROVE  EntryOK(pl2, x, j, m2[x][j])
  BY DEF TreeFor, Tree, MemType, PlacesOf
<1>1. x # n
  BY DEF Rooted
<1>2. /\ pl2[x] = pl[x] /\ pl[x] # None /\ m2[x][j] = m[x][j]
      /\ ~pte_big(m[x][j]) => m[x][j].frame # n
  BY <1>1 DEF Rooted
<1>3. ~pte_big(m2[x][j]) /\ m2[x][j].frame \in Frames => pl2[m2[x][j].frame] = pl[m2[x][j].frame]
  BY <1>2 DEF Rooted
<1> QED
  BY <1>2, <1>3, PoolFrames DEF TreeFor, Tree, EntryOK

\* is the only one at its place,
LEMMA RootHung ==
    ASSUME NEW m, NEW m2, NEW pl \in PlacesOf, NEW pl2 \in PlacesOf, NEW n \in Pool,
           Rooted(m, m2, pl, pl2, n), NEW rf, NEW rf2, NEW live, NEW all,
           Hung(m, pl, rf, live, all), all \subseteq Frames,
           \A x \in Pool : x # n => rf2[x] = rf[x], rf2[n] > 0
    PROVE  Hung(m2, pl2, rf2, live \cup {n}, all \cup {n})
<1>1. n \in Frames /\ 0 \in Nat /\ Top \in Levels
  BY PoolFrames DEF Levels, Top
<1>2. pl2[n] # None /\ pl2[n].root = n /\ pl2[n].level = Top /\ pl2[n].up = 0 /\ pl[n] = None
      /\ pl2[n] = Place(n, Top, 0)
  BY <1>1, PlaceType DEF Rooted
<1>3. \A x \in Frames : x # n => pl2[x] = pl[x]
  BY DEF Rooted
<1>4. \A r \in all \cup {n} : pl2[r] = Place(r, Top, 0)
  BY <1>2, <1>3 DEF Hung
<1>5. ASSUME NEW x \in Frames, pl2[x] # None
      PROVE  /\ pl2[x].level = Top => pl2[x].root = x /\ pl2[x].up = 0
             /\ pl2[x].root \in all \cup {n}
             /\ x \in Pool => rf2[x] > 0
  BY <1>2, <1>3, <1>5 DEF Hung
<1>6. ASSUME NEW x \in Frames, NEW y \in Frames, pl2[x] # None, pl2[y] = pl2[x] PROVE y = x
  <2>1. CASE x = n \/ y = n
    BY <1>2, <1>5, <1>6, <2>1
  <2>2. CASE x # n /\ y # n
    BY <1>3, <1>6, <2>2 DEF Hung
  <2> QED
    BY <2>1, <2>2
<1>7. ASSUME NEW c \in Frames, pl2[c] # None, pl2[c].level < Top, pl2[c].root \in live \cup {n}
      PROVE  \E x \in Frames, j \in Index :
                /\ pl2[x] # None /\ pl2[x].level = pl2[c].level + 1
                /\ m2[x][j] # None /\ ~pte_big(m2[x][j]) /\ m2[x][j].frame = c
  <2>1. c # n
    BY <1>2, <1>7 DEF Top
  <2>2. pl2[c] = pl[c] /\ pl[c].root \in all
    BY <1>3, <1>7, <2>1 DEF Hung
  <2>3. pl[c].root # n
    <3>1. n \in all => pl[n] # None
      BY <1>1, PlaceType DEF Hung
    <3> QED
      BY <1>2, <2>2, <3>1
  <2>4. PICK x \in Frames, j \in Index :
                /\ pl[x] # None /\ pl[x].level = pl[c].level + 1
                /\ m[x][j] # None /\ ~pte_big(m[x][j]) /\ m[x][j].frame = c
    BY <1>7, <2>2, <2>3 DEF Hung
  <2>5. x # n
    BY <1>2, <2>4
  <2>6. pl2[x] = pl[x] /\ m2[x][j] = m[x][j]
    BY <2>4, <2>5 DEF Rooted
  <2> QED
    BY <2>2, <2>4, <2>6
<1> QED
  BY <1>4, <1>5, <1>6, <1>7 DEF Hung

\* and is counted.
LEMMA RootCount ==
    ASSUME NEW m, NEW m2, NEW pl \in PlacesOf, NEW pl2 \in PlacesOf, NEW n \in Pool,
           Rooted(m, m2, pl, pl2, n), NEW rf \in [Pool -> Nat], NEW rf2 \in [Pool -> Nat], NEW exact,
           Counted(m, pl, rf, exact),
           \A x \in Pool : x # n => rf2[x] = rf[x], rf[n] = 0, rf2[n] = 1
    PROVE  Counted(m2, pl2, rf2, exact)
<1> SUFFICES ASSUME NEW f \in Pool
             PROVE  /\ IsRoot(pl2, f) + Cardinality(Refs(m2, pl2, f)) <= rf2[f]
                    /\ exact => rf2[f] = IsRoot(pl2, f) + Cardinality(Refs(m2, pl2, f))
  BY DEF Counted
<1>1. Refs(m2, pl2, f) = Refs(m, pl, f)
  <2>1. ASSUME NEW x \in Frames, NEW j \in Index
        PROVE  /\ (pl2[x] # None /\ m2[x][j] # None) <=> (pl[x] # None /\ m[x][j] # None)
               /\ pl[x] # None => m2[x][j] = m[x][j]
    <3>1. CASE x = n
      BY <3>1 DEF Rooted
    <3>2. CASE x # n
      BY <3>2 DEF Rooted
    <3> QED
      BY <3>1, <3>2
  <2> QED
    BY <2>1 DEF Refs
<1>2. IsRoot(pl, f) + Cardinality(Refs(m, pl, f)) <= rf[f]
      /\ (exact => rf[f] = IsRoot(pl, f) + Cardinality(Refs(m, pl, f)))
  BY DEF Counted
<1>3. Cardinality(Refs(m, pl, f)) \in Nat
  BY RefsFinite
<1>4. PICK k \in Nat : k = Cardinality(Refs(m, pl, f))
  BY <1>3
<1>5. CASE f = n
  <2>1. pl2[n] # None /\ pl2[n].level = Top
    BY PoolFrames, PlaceType DEF Rooted, Levels, Top
  <2>2. IsRoot(pl2, f) = 1 /\ IsRoot(pl, f) = 0
    BY <1>5, <2>1 DEF IsRoot, Rooted
  <2>3. k = 0
    BY <1>2, <1>4, <1>5, <2>2
  <2> QED
    BY <1>1, <1>4, <1>5, <2>2, <2>3
<1>6. CASE f # n
  <2>1. IsRoot(pl2, f) = IsRoot(pl, f) /\ rf2[f] = rf[f]
    BY <1>6, PoolFrames DEF IsRoot, Rooted
  <2> QED
    BY <1>1, <1>2, <2>1
<1> QED
  BY <1>5, <1>6

\* The other roots mean what they meant, the new one maps nothing.
LEMMA RootPaths ==
    ASSUME NEW m, NEW m2, NEW pl, TreeFor(m, pl), NEW pl2, NEW n \in Pool, Rooted(m, m2, pl, pl2, n),
           NEW p \in Pages
    PROVE  /\ \A s \in Frames : pl[s] = Place(s, Top, 0) =>
                /\ Leaf(m2, s, p) = Leaf(m, s, p) /\ LeafEntry(m2, s, p) = LeafEntry(m, s, p)
                /\ Translate(m2, s, p) = Translate(m, s, p)
           /\ LeafEntry(m2, n, p) = None /\ Translate(m2, n, p) = None
<1>1. p \in Nat
  BY PageNat
<1>2. ASSUME NEW s \in Frames, pl[s] = Place(s, Top, 0)
      PROVE  /\ Leaf(m2, s, p) = Leaf(m, s, p) /\ LeafEntry(m2, s, p) = LeafEntry(m, s, p)
             /\ Translate(m2, s, p) = Translate(m, s, p)
  <2>1. SamePath(m, m2, pl, s, p)
    <3> SUFFICES ASSUME NEW d \in Frames, NEW k \in Levels, pl[d] = Place(s, k, Up(k + 1, p))
                 PROVE  m2[d][PDX(k, p)] = m[d][PDX(k, p)]
      BY DEF SamePath
    <3>1. Up(k + 1, p) \in Nat /\ PDX(k, p) \in Index
      BY <1>1, UpLevel
    <3>2. pl[d] # None
      BY <3>1, PlaceType
    <3> QED
      BY <3>1, <3>2 DEF Rooted
  <2> QED
    BY <1>2, <2>1, LeafSame
<1>3. PDX(3, p) \in Index
  BY <1>1, UpNext DEF Levels, Top
<1>4. m2[n][PDX(3, p)] = None
  BY <1>3 DEF Rooted
<1>5. Leaf(m2, n, p) = [dir |-> n, level |-> 3]
  BY <1>4 DEF Leaf, IsTable
<1>6. LeafEntry(m2, n, p) = None
  BY <1>4, <1>5 DEF LeafEntry
<1> QED
  BY <1>2, <1>6 DEF Translate

\* Directories and entries are given up.
Pruned(m, m2, pl, pl2) ==
    /\ \A x \in Frames : pl2[x] = pl[x] \/ pl2[x] = None
    /\ \A x \in Frames, j \in Index : pl2[x] # None => m2[x][j] = m[x][j] \/ m2[x][j] = None
    /\ \A x \in Frames, j \in Index :
            pl2[x] # None /\ pl2[x].level > 0 /\ m2[x][j] # None /\ ~pte_big(m2[x][j])
                => pl2[m2[x][j].frame] = pl[m2[x][j].frame]

\* What is left is a tree.
LEMMA PruneTree ==
    ASSUME NEW m, NEW m2 \in MemType, NEW pl, TreeFor(m, pl), NEW pl2 \in PlacesOf,
           Pruned(m, m2, pl, pl2)
    PROVE  TreeFor(m2, pl2)
<1> SUFFICES ASSUME NEW x \in Frames, NEW j \in Index, pl2[x] # None, m2[x][j] # None
             PROVE  EntryOK(pl2, x, j, m2[x][j])
  BY DEF TreeFor, Tree, MemType, PlacesOf
<1>1. pl2[x] = pl[x] /\ pl[x] # None /\ m2[x][j] = m[x][j]
  BY DEF Pruned
<1>2. m2[x][j].frame \in Frames => pl2[m2[x][j].frame] = pl[m2[x][j].frame] \/ pl2[m2[x][j].frame] = None
  BY DEF Pruned
<1>3. pl2[x].level > 0 /\ ~pte_big(m2[x][j]) => pl2[m2[x][j].frame] = pl[m2[x][j].frame]
  BY DEF Pruned
<1> QED
  BY <1>1, <1>2, <1>3 DEF TreeFor, Tree, EntryOK

\* The tables of the roots in live are left alone.
Survives(m, m2, pl, pl2, rf2, live, all, all2) ==
    /\ \A x \in Frames : pl[x] # None /\ pl[x].root \in live => pl2[x] = pl[x]
    /\ \A x \in Frames, j \in Index : pl[x] # None /\ pl[x].root \in live => m2[x][j] = m[x][j]
    /\ \A x \in Frames : pl2[x] # None => pl2[x].root \in all2
    /\ all2 \subseteq all /\ \A r \in all2 : pl2[r] = pl[r]
    /\ \A x \in Pool : pl2[x] # None => rf2[x] > 0

\* What is left of a live root still hangs from it.
LEMMA PruneHung ==
    ASSUME NEW m, NEW m2, NEW pl \in PlacesOf, NEW pl2 \in PlacesOf, TreeFor(m, pl),
           Pruned(m, m2, pl, pl2),
           NEW rf, NEW rf2, NEW live, NEW all, NEW all2, Hung(m, pl, rf, live, all),
           Survives(m, m2, pl, pl2, rf2, live, all, all2)
    PROVE  Hung(m2, pl2, rf2, live, all2)
<1>0. /\ \A x \in Frames : pl[x] # None /\ pl[x].root \in live => pl2[x] = pl[x]
      /\ \A x \in Frames, j \in Index : pl[x] # None /\ pl[x].root \in live => m2[x][j] = m[x][j]
      /\ \A x \in Frames : pl2[x] # None => pl2[x].root \in all2
      /\ all2 \subseteq all /\ \A r \in all2 : pl2[r] = pl[r]
      /\ \A x \in Pool : pl2[x] # None => rf2[x] > 0
  BY DEF Survives
<1>1. \A x \in Frames : pl2[x] # None => pl2[x] = pl[x] /\ pl[x] # None
  BY DEF Pruned
<1>2. \A r \in all2 : pl2[r] = Place(r, Top, 0)
  BY <1>0 DEF Hung
<1>3. ASSUME NEW x \in Frames, pl2[x] # None
      PROVE  /\ pl2[x].level = Top => pl2[x].root = x /\ pl2[x].up = 0
             /\ pl2[x].root \in all2 /\ (x \in Pool => rf2[x] > 0)
  BY <1>0, <1>1, <1>3 DEF Hung
<1>4. ASSUME NEW x \in Frames, NEW y \in Frames, pl2[x] # None, pl2[y] = pl2[x] PROVE y = x
  BY <1>1, <1>4 DEF Hung
<1>5. ASSUME NEW c \in Frames, pl2[c] # None, pl2[c].level < Top, pl2[c].root \in live
      PROVE  \E x \in Frames, j \in Index :
                /\ pl2[x] # None /\ pl2[x].level = pl2[c].level + 1
                /\ m2[x][j] # None /\ ~pte_big(m2[x][j]) /\ m2[x][j].frame = c
  <2>1. pl2[c] = pl[c] /\ pl[c] # None /\ pl[c] \in Places
    BY <1>1, <1>5 DEF PlacesOf
  <2>2. PICK x \in Frames, j \in Index :
                /\ pl[x] # None /\ pl[x].level = pl[c].level + 1
                /\ m[x][j] # None /\ ~pte_big(m[x][j]) /\ m[x][j].frame = c
    BY <1>5, <2>1 DEF Hung
  <2>3. pl[x].level > 0
    BY <2>1, <2>2 DEF Places, Levels
  <2>4. pl[c] = Place(pl[x].root, pl[x].level - 1, pl[x].up * W + j)
    BY <2>2, <2>3, TableChild
  <2>5. pl[x].root \in live
    BY <1>5, <2>1, <2>4 DEF Place
  <2>6. pl2[x] = pl[x] /\ m2[x][j] = m[x][j]
    BY <1>0, <2>2, <2>5
  <2> QED
    BY <2>1, <2>2, <2>6
<1> QED
  BY <1>2, <1>3, <1>4, <1>5 DEF Hung

\* A count falls only with a reference.
Dropped(m, m2, pl, pl2, rf, rf2) ==
    \A f \in Pool : \/ rf2[f] = rf[f]
                    \/ /\ rf2[f] = rf[f] - 1
                       /\ \/ IsRoot(pl, f) = 1 /\ IsRoot(pl2, f) = 0
                          \/ \E x \in Refs(m, pl, f) : x \notin Refs(m2, pl2, f)

\* The counts still cover the references that are left.
LEMMA PruneCount ==
    ASSUME NEW m, NEW m2, NEW pl, NEW pl2, Pruned(m, m2, pl, pl2),
           NEW rf \in [Pool -> Nat], NEW rf2 \in [Pool -> Nat], NEW exact, Counted(m, pl, rf, exact),
           Dropped(m, m2, pl, pl2, rf, rf2)
    PROVE  Counted(m2, pl2, rf2, FALSE)
<1> SUFFICES ASSUME NEW f \in Pool
             PROVE  IsRoot(pl2, f) + Cardinality(Refs(m2, pl2, f)) <= rf2[f]
  BY DEF Counted
<1>1. Refs(m2, pl2, f) \subseteq Refs(m, pl, f)
  <2>1. ASSUME NEW x \in Frames, NEW j \in Index, pl2[x] # None, m2[x][j] # None
        PROVE  pl[x] # None /\ m2[x][j] = m[x][j]
    BY <2>1 DEF Pruned
  <2> QED
    BY <2>1 DEF Refs
<1>2. IsRoot(pl2, f) = 1 => IsRoot(pl, f) = 1
  BY PoolFrames DEF Pruned, IsRoot
<1>3. IsRoot(pl2, f) \in {0, 1} /\ IsRoot(pl, f) \in {0, 1}
  BY DEF IsRoot
<1>4. IsFiniteSet(Refs(m, pl, f)) /\ Cardinality(Refs(m, pl, f)) \in Nat
      /\ Cardinality(Refs(m2, pl2, f)) \in Nat
  BY RefsFinite
<1>5. Cardinality(Refs(m2, pl2, f)) <= Cardinality(Refs(m, pl, f))
  BY <1>1, <1>4, FS_Subset
<1>6. IsRoot(pl, f) + Cardinality(Refs(m, pl, f)) <= rf[f] /\ rf[f] \in Nat /\ rf2[f] \in Nat
  BY DEF Counted
<1>7. CASE rf2[f] = rf[f]
  BY <1>2, <1>3, <1>4, <1>5, <1>6, <1>7
<1>8. CASE rf2[f] = rf[f] - 1 /\ IsRoot(pl, f) = 1 /\ IsRoot(pl2, f) = 0
  BY <1>4, <1>5, <1>6, <1>8
<1>9. CASE rf2[f] = rf[f] - 1 /\ \E x \in Refs(m, pl, f) : x \notin Refs(m2, pl2, f)
  <2>1. PICK x \in Refs(m, pl, f) : x \notin Refs(m2, pl2, f)
    BY <1>9
  <2>2. Refs(m2, pl2, f) \subseteq Refs(m, pl, f) \ {x}
    BY <1>1, <2>1
  <2>3. /\ IsFiniteSet(Refs(m, pl, f) \ {x})
        /\ Cardinality(Refs(m, pl, f) \ {x}) = Cardinality(Refs(m, pl, f)) - 1
    BY <1>4, <2>1, FS_RemoveElement
  <2>4. Cardinality(Refs(m2, pl2, f)) <= Cardinality(Refs(m, pl, f) \ {x})
    BY <2>2, <2>3, FS_Subset
  <2> QED
    BY <1>2, <1>3, <1>4, <1>6, <1>9, <2>3, <2>4
<1> QED
  BY <1>7, <1>8, <1>9 DEF Dropped

\* What lives keeps its meaning.
LEMMA PrunePaths ==
    ASSUME NEW m, NEW m2, NEW pl, TreeFor(m, pl), NEW s \in Frames, pl[s] = Place(s, Top, 0),
           NEW p \in Pages,
           \A x \in Frames, j \in Index : pl[x] # None /\ pl[x].root = s => m2[x][j] = m[x][j]
    PROVE  /\ Leaf(m2, s, p) = Leaf(m, s, p) /\ LeafEntry(m2, s, p) = LeafEntry(m, s, p)
           /\ Translate(m2, s, p) = Translate(m, s, p)
<1>1. p \in Nat
  BY PageNat
<1>2. SamePath(m, m2, pl, s, p)
  <2> SUFFICES ASSUME NEW d \in Frames, NEW k \in Levels, pl[d] = Place(s, k, Up(k + 1, p))
               PROVE  m2[d][PDX(k, p)] = m[d][PDX(k, p)]
    BY DEF SamePath
  <2>1. Up(k + 1, p) \in Nat /\ PDX(k, p) \in Index
    <3>1. k + 1 \in 0..4
      BY DEF Levels, Top
    <3>2. Up(k + 1, p) \in Nat
      BY <1>1, <3>1, UpType
    <3>3. PDX(k, p) \in Index
      BY <1>1, UpNext
    <3> QED
      BY <3>2, <3>3
  <2>2. pl[d] # None /\ pl[d].root = s
    BY <2>1, PlaceType
  <2> QED
    BY <2>1, <2>2
<1> QED
  BY <1>2, LeafSame

-----------------------------------------------------------------------------
(***************************************************************************)
(* The walk.                                                               *)
(***************************************************************************)

\* The chain of the walk is, up to the innermost directory that has a next
\* entry, that of the next page.
LEMMA NextChain ==
    ASSUME NEW m, NEW r, NEW c \in Nat, NEW top \in 1..Top, NEW l \in 0..top, NEW ds,
           Chain(m, r, c, top, l, ds), NEW a \in Nat, a = Up(l, c) * Size(l) + Size(l),
           NEW k \in l..top, PDX(k, c) < W - 1, \A j \in l..(k - 1) : PDX(j, c) = W - 1
    PROVE  Chain(m, r, a, top, k, ds) /\ Up(top + 1, a) = Up(top + 1, c)
<1>1. l \in Levels /\ k \in l..Top /\ k \in 0..top /\ k + 1 \in (k + 1)..4 /\ top + 1 \in (k + 1)..4
  BY DEF Levels, Top
<1>2. \A n \in (k + 1)..4 : Up(n, a) = Up(n, c)
  BY <1>1, AfterDigits
<1>3. Up(k + 1, a) = Up(k + 1, c) /\ Up(top + 1, a) = Up(top + 1, c)
  BY <1>1, <1>2
<1>4. Chain(m, r, c, top, k, ds)
  BY <1>1 DEF Chain, Top
<1>5. Chain(m, r, a, top, k, ds)
  BY <1>1, <1>3, <1>4, ChainFor
<1> QED
  BY <1>3, <1>5

\* The pages before and from the end of the chunk of c.
LEMMA Beyond ==
    ASSUME NEW c \in Nat, NEW l \in Levels, NEW a, a = Up(l, c) * Size(l) + Size(l), NEW q \in Nat
    PROVE  /\ a \in Nat /\ c < a
           /\ q >= a => Up(l, q) # Up(l, c)
           /\ c <= q /\ q < a => Up(l, q) = Up(l, c)
<1>1. l \in 0..4
  BY DEF Levels, Top
<1>2. PICK u \in Nat : u = Up(l, c)
  BY <1>1, UpType
<1>3. PICK S \in Nat : S = Size(l)
  BY <1>1, SizeType
<1>4. PICK b \in Nat : b = u * S
  OBVIOUS
<1>5. a = b + S
  BY <1>2, <1>3, <1>4
<1>6. b <= c /\ c < b + S
  BY <1>1, <1>2, <1>3, <1>4, ChunkOf
<1>7. q >= a => Up(l, q) # u
  <2>1. Up(l, q) * Size(l) <= q /\ q < Up(l, q) * Size(l) + Size(l)
    BY <1>1, ChunkOf
  <2> QED
    BY <1>3, <1>4, <1>5, <2>1
<1>8. c <= q /\ q < a => Up(l, q) = u
  <2> SUFFICES ASSUME c <= q, q < a PROVE Up(l, q) = u
    OBVIOUS
  <2>1. b <= q /\ q < b + S
    BY <1>5, <1>6
  <2>2. u * Size(l) <= q /\ q < u * Size(l) + Size(l)
    BY <1>3, <1>4, <2>1
  <2> QED
    BY <1>1, <2>2, ChunkUnique
<1> QED
  BY <1>2, <1>5, <1>6, <1>7, <1>8

\* A number below a page is a page.
LEMMA PageBelow ==
    ASSUME NEW h \in Pages, NEW a \in Nat, a <= h
    PROVE  a \in Pages
<1>1. PICK S \in Nat : S = Size(Top + 1)
  BY SizeType DEF Top
<1>2. h \in 0..(S - 1)
  BY <1>1 DEF Pages
<1>3. a \in 0..(S - 1)
  BY <1>2
<1> QED
  BY <1>1, <1>3 DEF Pages

\* A set of levels has a least one.
LEMMA Least ==
    ASSUME NEW S, S \subseteq Levels, S # {}
    PROVE  \E l \in S : \A k \in S : l <= k
<1>1. \A k \in S : k = 0 \/ k = 1 \/ k = 2 \/ k = 3
  BY DEF Levels, Top
<1>2. CASE 0 \in S
  BY <1>1, <1>2
<1>3. CASE 0 \notin S /\ 1 \in S
  BY <1>1, <1>3
<1>4. CASE 0 \notin S /\ 1 \notin S /\ 2 \in S
  BY <1>1, <1>4
<1>5. CASE 0 \notin S /\ 1 \notin S /\ 2 \notin S
  <2>1. PICK l \in S : TRUE
    OBVIOUS
  <2>2. \A k \in S : l <= k
    BY <1>1, <1>5
  <2> QED
    BY <2>2
<1> QED
  BY <1>2, <1>3, <1>4, <1>5

\* The walk in progress, and where it goes on.
LEMMA WalkFacts ==
    ASSUME WalkOK, walk # None
    PROVE  /\ walk.cur \in Nat /\ walk.hi \in Nat /\ walk.level \in Levels /\ walk.top \in Levels
           /\ After \in Nat /\ walk.cur < After /\ Here \in Frames /\ Idx \in Index
           /\ \A q \in Nat : /\ q >= After => Up(walk.level, q) # Up(walk.level, walk.cur)
                             /\ walk.cur <= q /\ q < After => Up(walk.level, q) = Up(walk.level, walk.cur)
<1>1. walk.cur \in Pages /\ walk.hi \in Pages /\ walk.top \in 1..Top /\ walk.level \in 0..walk.top
      /\ walk.dirs \in [Levels -> Frames]
  BY DEF WalkOK, Walks
<1>2. walk.cur \in Nat /\ walk.hi \in Nat /\ walk.level \in Levels /\ walk.top \in Levels
  BY <1>1, PageNat DEF Levels, Top
<1>3. PICK l \in Levels : l = walk.level
  BY <1>2
<1>4. PICK c \in Nat : c = walk.cur
  BY <1>2
<1>5. PICK a : a = Up(l, c) * Size(l) + Size(l)
  OBVIOUS
<1>6. After = a
  BY <1>3, <1>4, <1>5 DEF After, Base
<1>7. \A q \in Nat : /\ a \in Nat /\ c < a
                     /\ q >= a => Up(l, q) # Up(l, c)
                     /\ c <= q /\ q < a => Up(l, q) = Up(l, c)
  BY <1>5, Beyond
<1>8. PDX(l, c) \in Index
  BY UpNext
<1> QED
  BY <1>1, <1>2, <1>3, <1>4, <1>6, <1>7, <1>8 DEF Here, Idx

\* Where the walk goes on.
Onward ==
    /\ walk' # None /\ walk' \in Walks /\ After <= walk.hi
    /\ walk'.cb = walk.cb /\ walk'.root = walk.root /\ walk'.top = walk.top
    /\ walk'.create = walk.create /\ walk'.hi = walk.hi /\ walk'.flags = walk.flags
    /\ walk'.va = walk.va /\ walk'.pa = walk.pa /\ walk'.to = walk.to /\ walk'.dirs = walk.dirs
    /\ walk'.cur = After /\ walk'.level \in walk.level..walk.top
    /\ PDX(walk'.level, walk.cur) < W - 1
    /\ \A j \in walk.level..(walk'.level - 1) : PDX(j, walk.cur) = W - 1

\* What Advance makes of a walk.
LEMMA AdvanceIs ==
    ASSUME WalkOK, walk # None, walk' = Advance, walk' # None
    PROVE  \/ Onward
           \/ walk.cb = "destroy" /\ walk.top = 2 /\ walk' = Walk("destroy", walk.root, 1, All, None)
           \/ walk.cb = "destroy" /\ walk.top # 2 /\ walk' = [walk EXCEPT !.cb = "put"]
<1>1. CASE After > walk.hi \/ Open = {}
  BY <1>1 DEF Advance, Return
<1>2. CASE ~(After > walk.hi \/ Open = {})
  <2>1. walk' = [walk EXCEPT !.cur = After, !.level = Innermost]
    BY <1>2 DEF Advance
  <2>2. After \in Nat /\ walk.hi \in Nat /\ walk.level \in Levels /\ walk.top \in Levels /\ walk.cur \in Nat
    BY WalkFacts
  <2>3. Open \subseteq Levels
    BY <2>2 DEF Open, Levels, Top
  <2>4. \E l \in Open : \A k \in Open : l <= k
    BY <1>2, <2>3, Least
  <2>5. Innermost \in Open /\ \A k \in Open : Innermost <= k
    BY <2>4 DEF Innermost
  <2>6. PICK n \in Open : n = Innermost
    BY <2>5
  <2>7. n \in walk.level..walk.top /\ PDX(n, walk.cur) < W - 1 /\ n \in Levels
    BY <2>3 DEF Open
  <2>8. ASSUME NEW j \in walk.level..(n - 1) PROVE PDX(j, walk.cur) = W - 1
    <3>1. j \in Levels /\ j \in walk.level..walk.top
      BY <2>2, <2>7 DEF Levels, Top
    <3>2. j \notin Open
      BY <2>5, <2>6, <2>7, <3>1 DEF Levels
    <3>3. ~(PDX(j, walk.cur) < W - 1)
      BY <3>1, <3>2 DEF Open
    <3>4. PDX(j, walk.cur) \in Index
      BY <2>2, <3>1, UpNext
    <3> QED
      BY <3>3, <3>4, WNat DEF Index
  <2>9. walk'.level = n /\ walk'.cur = After
    BY <2>1, <2>6 DEF WalkOK, Walks
  <2>10. /\ walk'.cb = walk.cb /\ walk'.root = walk.root /\ walk'.top = walk.top
         /\ walk'.create = walk.create /\ walk'.hi = walk.hi /\ walk'.flags = walk.flags
         /\ walk'.va = walk.va /\ walk'.pa = walk.pa /\ walk'.to = walk.to /\ walk'.dirs = walk.dirs
    BY <2>1 DEF WalkOK, Walks
  <2>11. After <= walk.hi
    BY <1>2, <2>2
  <2>12. After \in Pages
    BY <2>2, <2>11, PageBelow DEF WalkOK, Walks
  <2>13. walk' \in Walks
    BY <2>1, <2>6, <2>7, <2>12 DEF WalkOK, Walks
  <2> QED
    BY <2>7, <2>8, <2>9, <2>10, <2>11, <2>13 DEF Onward
<1> QED
  BY <1>1, <1>2

\* A walk is not None.
LEMMA WalkNotNone ==
    ASSUME NEW w \in Walks
    PROVE  w # None
BY NoneAssumption

\* The range of all pages.
LEMMA AllRange == All = <<0, Size(Top + 1) - 1>> /\ 0 \in Pages /\ Size(Top + 1) - 1 \in Pages
<1>1. Size(4) \in Nat /\ Size(4) > 0
  BY SizeType
<1> QED
  BY <1>1 DEF All, Pages, Top

\* The chain of a walk that begins is that of its root alone.
LEMMA StartChain ==
    ASSUME NEW r, NEW top \in 1..Top, NEW ds, ds = [l \in Levels |-> r], NEW m, NEW p
    PROVE  Chain(m, r, p, top, top, ds)
<1>1. top..(top - 1) = {} /\ top \in Levels
  BY DEF Levels, Top
<1> QED
  BY <1>1 DEF Chain

\* A walk that advances is still right.
LEMMA WalkAdvances ==
    ASSUME MemOK, WalkOK, walk # None, walk.cb # "put", walk' = Advance, roots' = roots, frees' = frees,
           Chain(mem', walk.root, walk.cur, walk.top, walk.level, walk.dirs)
    PROVE  WalkOK' /\ Dying' = Dying /\ (walk' # None /\ walk.cb # "destroy" => Onward)
<1>1. /\ walk.cur \in Nat /\ walk.hi \in Nat /\ walk.level \in Levels /\ walk.top \in Levels
      /\ After \in Nat /\ walk.cur < After
  BY WalkFacts
<1>2. walk \in Walks /\ walk.top \in 1..Top /\ walk.level \in 0..walk.top /\ walk.root \in Frames
  BY DEF WalkOK, Walks
<1>3. CASE walk' = None
  <2>1. walk.cb # "destroy"
    <3> SUFFICES ASSUME walk.cb = "destroy" PROVE FALSE
      OBVIOUS
    <3>1. 1 \in 1..Top
      BY DEF Top
    <3>2. Walk("destroy", walk.root, 1, All, None) # None
      <4>1. Walk("destroy", walk.root, 1, All, None) \in Walks
        BY <1>2, AllRange DEF Walk, Walks, Levels, Top
      <4> QED
        BY <4>1, WalkNotNone
    <3>3. [walk EXCEPT !.cb = "put"] # None
      <4>1. [walk EXCEPT !.cb = "put"] \in Walks
        BY <1>2 DEF Walks
      <4> QED
        BY <4>1, WalkNotNone
    <3>4. ~(After > walk.hi \/ Open = {})
      BY <1>3, <3>2, <3>3 DEF Advance, Return
    <3>5. walk' = [walk EXCEPT !.cur = After, !.level = Innermost]
      BY <3>4 DEF Advance
    <3>6. Open \subseteq Levels
      BY <1>1 DEF Open, Levels, Top
    <3>7. \E l \in Open : \A k \in Open : l <= k
      BY <3>4, <3>6, Least
    <3>8. Innermost \in Levels
      BY <3>6, <3>7 DEF Innermost
    <3>9. After \in Pages
      BY <1>1, <3>4, PageBelow DEF WalkOK, Walks
    <3>10. walk' \in Walks
      BY <1>2, <3>5, <3>8, <3>9 DEF Walks
    <3> QED
      BY <1>3, <3>10, WalkNotNone
  <2> QED
    BY <1>3, <2>1 DEF WalkOK, Dying
<1>4. CASE walk' # None
  <2>1. CASE Onward
    <3>1. PICK c \in Nat : c = walk.cur
      BY <1>1
    <3>2. PICK top \in 1..Top : top = walk.top
      BY <1>2
    <3>3. PICK l \in 0..top : l = walk.level
      BY <1>2, <3>2
    <3>4. PICK a \in Nat : a = After
      BY <1>1
    <3>5. a = Up(l, c) * Size(l) + Size(l)
      BY <3>1, <3>3, <3>4 DEF After, Base
    <3>6. PICK k \in l..top : k = walk'.level
      BY <2>1, <3>2, <3>3 DEF Onward
    <3>7. PDX(k, c) < W - 1 /\ \A j \in l..(k - 1) : PDX(j, c) = W - 1
      BY <2>1, <3>1, <3>3, <3>6 DEF Onward
    <3>8. PICK m2 : m2 = mem'
      OBVIOUS
    <3>9. Chain(m2, walk.root, c, top, l, walk.dirs)
      BY <3>1, <3>2, <3>3, <3>8
    <3>10. Chain(m2, walk.root, a, top, k, walk.dirs) /\ Up(top + 1, a) = Up(top + 1, c)
      BY <3>5, <3>7, <3>9, NextChain
    <3>11. Chain(mem', walk'.root, walk'.cur, walk'.top, walk'.level, walk'.dirs)
      BY <2>1, <3>2, <3>4, <3>6, <3>8, <3>10 DEF Onward
    <3>12. walk'.cb = "destroy" => walk'.top < Top /\ Up(walk'.top + 1, walk'.cur) = 0
      BY <2>1, <3>1, <3>2, <3>4, <3>10 DEF Onward, WalkOK
    <3>13. walk'.level \in 0..walk'.top /\ walk'.cur <= walk'.hi /\ walk' \in Walks
      BY <2>1, <3>2, <3>6 DEF Onward
    <3>14. walk'.cb = walk.cb /\ walk'.root = walk.root /\ walk'.top = walk.top /\ walk'.create = walk.create
      BY <2>1 DEF Onward
    <3>15. WalkOK'
      BY <3>11, <3>12, <3>13, <3>14 DEF WalkOK
    <3>16. Dying' = Dying
      BY <1>4, <3>14 DEF Dying
    <3> QED
      BY <2>1, <3>15, <3>16
  <2>2. CASE walk.cb = "destroy" /\ walk.top = 2 /\ walk' = Walk("destroy", walk.root, 1, All, None)
    <3>1. 1 \in 1..Top /\ Up(2, 0) = 0
      <4>1. Up(2, 0) * Size(2) <= 0 /\ Up(2, 0) \in Nat /\ Size(2) \in Nat /\ Size(2) > 0
        BY ChunkOf, UpType, SizeType
      <4>2. PICK u \in Nat : u = Up(2, 0)
        BY <4>1
      <4>3. PICK S \in Nat : S = Size(2)
        BY <4>1
      <4>4. u * S <= 0 /\ S > 0
        BY <4>1, <4>2, <4>3
      <4>5. u = 0
        BY <4>4
      <4> QED
        BY <4>2, <4>5 DEF Top
    <3>2. /\ walk' \in Walks /\ walk'.cb = "destroy" /\ walk'.root = walk.root /\ walk'.top = 1
          /\ walk'.create = None /\ walk'.cur = 0 /\ walk'.hi = Size(Top + 1) - 1 /\ walk'.level = 1
          /\ walk'.dirs = [l \in Levels |-> walk.root]
      <4>1. PICK rg \in Pages \X Pages : rg = <<0, Size(Top + 1) - 1>>
        BY AllRange
      <4>2. rg[1] = 0 /\ rg[2] = Size(Top + 1) - 1
        BY <4>1
      <4>3. walk' = Walk("destroy", walk.root, 1, rg, None)
        BY <2>2, <4>1 DEF All
      <4> QED
        BY <1>2, <4>1, <4>2, <4>3 DEF Walk, Walks, Levels, Top
    <3>3. Chain(mem', walk'.root, walk'.cur, walk'.top, walk'.level, walk'.dirs)
      BY <3>1, <3>2, StartChain
    <3>4. 0 <= Size(Top + 1) - 1
      BY AllRange DEF Pages
    <3>5. walk.root \in Pool \ roots /\ frees > 0
      BY <2>2 DEF WalkOK
    <3>6. walk'.level \in 0..walk'.top /\ walk'.top < Top /\ Up(walk'.top + 1, walk'.cur) = 0
      BY <3>1, <3>2 DEF Top
    <3>7. WalkOK'
      BY <3>2, <3>3, <3>4, <3>5, <3>6 DEF WalkOK
    <3>8. Dying' = Dying
      BY <1>4, <2>2, <3>2 DEF Dying
    <3> QED
      BY <2>2, <3>7, <3>8
  <2>3. CASE walk.cb = "destroy" /\ walk.top # 2 /\ walk' = [walk EXCEPT !.cb = "put"]
    <3>1. /\ walk' \in Walks /\ walk'.cb = "put" /\ walk'.root = walk.root /\ walk'.create = walk.create
          /\ walk'.cur = walk.cur /\ walk'.hi = walk.hi /\ walk'.level = walk.level /\ walk'.top = walk.top
      BY <1>2, <2>3 DEF Walks
    <3>2. WalkOK'
      BY <2>3, <3>1 DEF WalkOK
    <3>3. Dying' = Dying
      BY <1>4, <2>3, <3>1 DEF Dying
    <3> QED
      BY <2>3, <3>2, <3>3
  <2> QED
    BY <1>4, <2>1, <2>2, <2>3, AdvanceIs
<1> QED
  BY <1>3, <1>4

\* What the invariant says of the tables.
LEMMA StateTree ==
    ASSUME MemOK, TreeInv
    PROVE  /\ TreeFor(mem, place) /\ place \in PlacesOf /\ mem \in MemType /\ roots \subseteq Frames
           /\ \A r \in roots : r \in Frames /\ place[r] = Place(r, Top, 0)
           /\ Hung(mem, place, own, roots, roots \cup Dying)
BY DEF MemOK, TreeInv, TreeFor, PlacesOf, MemType, Hung

\* A write of an entry that ends a path keeps the tree and the counts.
LEMMA EntryKeeps ==
    ASSUME MemOK, TreeInv, CountInv, NEW r, NEW c, NEW l, NEW ds,
           OneEntry(mem, mem', place, r, c, l, ds), own' \in [Pool -> Nat],
           place' = place, roots' = roots, frees' = frees, Dying' = Dying,
           Balanced(mem, mem', own, own', ds[l], PDX(l, c))
    PROVE  TreeInv' /\ CountInv'
<1>1. PICK m2 : m2 = mem'
  OBVIOUS
<1>2. PICK rf2 \in [Pool -> Nat] : rf2 = own'
  OBVIOUS
<1>3. OneEntry(mem, m2, place, r, c, l, ds)
  BY <1>1
<1>4. TreeFor(m2, place)
  BY <1>3, OneTree
<1>5. ds[l] \in Frames /\ PDX(l, c) \in Index /\ place[ds[l]] # None /\ place[ds[l]].level = l
  BY <1>3, OneDir
<1>6. PICK d \in Frames : d = ds[l]
  BY <1>5
<1>7. PICK i \in Index : i = PDX(l, c)
  BY <1>5
<1>8. Balanced(mem, m2, own, rf2, d, i)
  BY <1>1, <1>2, <1>6, <1>7
<1>9. /\ Changed(mem, m2, place, d, i) /\ LeafOK(place, d, m2[d][i]) /\ place[d] # None
      /\ mem[d][i] = None \/ place[d].level = 0 \/ pte_big(mem[d][i])
      /\ l \in Levels /\ place[d].level = l
  BY <1>3, <1>5, <1>6, <1>7 DEF OneEntry
<1>10. /\ TreeFor(mem, place) /\ place \in PlacesOf /\ own \in [Pool -> Nat]
       /\ Hung(mem, place, own, roots, roots \cup Dying)
  BY StateTree DEF MemOK
<1>11. ASSUME NEW x \in Pool, place[x] # None PROVE rf2[x] > 0
  <2>1. x \in Frames /\ own[x] > 0 /\ own[x] \in Nat /\ rf2[x] \in Nat
    BY <1>10, <1>11, PoolFrames DEF Hung
  <2>2. l = 0 \/ l > 0
    BY <1>9 DEF Levels
  <2>3. RefTo(m2[d][i], x) = 0
    BY <1>9, <1>11, <2>1, <2>2 DEF LeafOK, RefTo
  <2>4. RefTo(mem[d][i], x) = 0
    BY <1>9, <1>10, <1>11, <2>1, <2>2 DEF TreeFor, Tree, EntryOK, RefTo
  <2> QED
    BY <1>8, <2>1, <2>3, <2>4 DEF Balanced
<1>12. Hung(m2, place, rf2, roots, roots \cup Dying)
  BY <1>9, <1>10, <1>11, EntryHung DEF PlacesOf
<1>13. PICK exact : exact = (frees = 0)
  OBVIOUS
<1>14. Counted(mem, place, own, exact)
  BY <1>13 DEF CountInv
<1>15. Counted(m2, place, rf2, exact)
  BY <1>8, <1>9, <1>10, <1>14, EntryCount
<1>16. TreeInv'
  BY <1>1, <1>2, <1>4, <1>12 DEF TreeInv, TreeFor
<1>17. CountInv'
  BY <1>1, <1>2, <1>13, <1>15 DEF CountInv
<1> QED
  BY <1>16, <1>17

\* The pages after the entry are mapped as before.
SameAhead(s) ==
    \A p \in Pages : p >= After =>
        Leaf(mem', s, p) = Leaf(mem, s, p) /\ LeafEntry(mem', s, p) = LeafEntry(mem, s, p)

\* A big page that is ahead of the walk is not the one it is at.
LEMMA WholeAhead ==
    ASSUME MemOK, TreeInv, WalkOK, walk # None, walk.cb \notin {"destroy", "put"},
           NEW p \in Pages, p >= After, Whole(walk.root, p, walk.cur, walk.hi),
           pte_big(LeafEntry(mem, walk.root, p)), NEW l, l = Leaf(mem, walk.root, p).level,
           NEW q \in Pages, Up(l, q) = Up(l, p)
    PROVE  q \in After..walk.hi
<1>1. PICK r \in Frames : r = walk.root /\ place[r] = Place(r, Top, 0)
  BY StateTree DEF WalkOK
<1>2. TreeFor(mem, place)
  BY StateTree
<1>3. /\ walk.cur \in Nat /\ walk.hi \in Nat /\ walk.level \in Levels /\ After \in Nat
      /\ \A x \in Nat : /\ x >= After => Up(walk.level, x) # Up(walk.level, walk.cur)
                        /\ walk.cur <= x /\ x < After => Up(walk.level, x) = Up(walk.level, walk.cur)
  BY WalkFacts
<1>4. PICK c \in Pages : c = walk.cur
  BY DEF WalkOK, Walks
<1>5. PICK k \in Levels : k = walk.level
  BY <1>3
<1>6. p \in Nat /\ q \in Nat /\ c \in Nat
  BY PageNat
<1>7. PICK f : f = Leaf(mem, r, p)
  OBVIOUS
<1>8. PICK e : e = LeafEntry(mem, r, p)
  OBVIOUS
<1>9. f.level \in Levels /\ l = f.level
  BY <1>1, <1>2, <1>7, <1>8, LeafFacts
<1>10. q \in walk.cur..walk.hi
  BY DEF Whole
<1>11. q >= After
  <2> SUFFICES ASSUME q < After PROVE FALSE
    BY <1>3, <1>6
  <2>1. Up(k, q) = Up(k, c) /\ Up(k, p) # Up(k, c)
    BY <1>3, <1>4, <1>5, <1>6, <1>10
  <2>2. CASE l <= k
    <3>1. l \in 0..4 /\ k \in 0..4
      BY <1>9 DEF Levels, Top
    <3>2. Up(k, q) = Up(k, p)
      BY <1>6, <2>2, <3>1, UpMono
    <3> QED
      BY <2>1, <3>2
  <2>3. CASE l > k
    <3>1. l \in 0..4 /\ k \in 0..4 /\ k <= l
      BY <1>9, <2>3 DEF Levels, Top
    <3>2. Up(l, q) = Up(l, c)
      BY <1>6, <2>1, <3>1, UpMono
    <3>3. Up(Leaf(mem, r, p).level, c) = Up(Leaf(mem, r, p).level, p)
      BY <1>7, <1>9, <3>2
    <3>4. Leaf(mem, r, c) = Leaf(mem, r, p)
      BY <1>1, <1>2, <3>3, LeafChunk
    <3>5. Chain(mem, r, c, Top, k, walk.dirs) /\ walk.dirs \in [Levels -> Frames]
      BY <1>1, <1>4, <1>5 DEF WalkOK, Walks
    <3>6. Leaf(mem, r, c).level \in 0..k
      BY <1>6, <3>5, ChainLevel
    <3> QED
      BY <1>5, <1>7, <1>9, <2>3, <3>4, <3>6 DEF Levels
  <2> QED
    BY <1>9, <2>2, <2>3 DEF Levels
<1> QED
  BY <1>3, <1>6, <1>10, <1>11

\* The level of a walk that makes entries is not below theirs.
LEMMA NotBelow ==
    ASSUME MemOK, TreeInv, WalkOK, ReadyPhys, walk # None, walk.cb = "map_phys", walk.create # 0
    PROVE  walk.create \in {1, 2} /\ walk.create <= walk.level
<1>1. walk.create \in {1, 2}
  BY DEF ReadyPhys, WalkOK, Walks
<1>2. PICK c \in Pages : c = walk.cur /\ c \in walk.cur..walk.hi
  BY PageNat DEF WalkOK, Walks
<1>3. NoTable(walk.root, c, walk.create)
  BY <1>2 DEF ReadyPhys, Ahead
<1>4. PICK r \in Frames : r = walk.root
  BY DEF WalkOK, Walks
<1>5. PICK k \in Levels : k = walk.level
  BY DEF WalkOK, Walks
<1>6. Chain(mem, r, c, Top, k, walk.dirs) /\ walk.dirs \in [Levels -> Frames]
  BY <1>2, <1>4, <1>5 DEF WalkOK, Walks
<1>7. Leaf(mem, r, c).level \in 0..k
  BY <1>6, PageNat, ChainLevel
<1>8. Leaf(mem, r, c).level >= walk.create
  BY <1>3, <1>4 DEF NoTable
<1> QED
  BY <1>1, <1>5, <1>7, <1>8 DEF Levels, Top

\* A chunk ahead of the walk that lies in its range lies in what is left of it.
LEMMA ChunkAhead ==
    ASSUME WalkOK, walk # None, NEW p \in Pages, p >= After, NEW l \in Levels, l <= walk.level,
           ChunkIn(l, p, walk.cur, walk.hi)
    PROVE  ChunkIn(l, p, After, walk.hi)
<1> SUFFICES ASSUME NEW q \in Pages, Up(l, q) = Up(l, p) PROVE q \in After..walk.hi
  BY DEF ChunkIn
<1>1. /\ walk.cur \in Nat /\ walk.hi \in Nat /\ walk.level \in Levels /\ After \in Nat
      /\ \A x \in Nat : /\ x >= After => Up(walk.level, x) # Up(walk.level, walk.cur)
                        /\ walk.cur <= x /\ x < After => Up(walk.level, x) = Up(walk.level, walk.cur)
  BY WalkFacts
<1>2. p \in Nat /\ q \in Nat
  BY PageNat
<1>3. q \in walk.cur..walk.hi
  BY DEF ChunkIn
<1>4. PICK k \in Levels : k = walk.level
  BY <1>1
<1>5. l \in 0..4 /\ k \in 0..4 /\ l <= k
  BY <1>4 DEF Levels, Top
<1>6. Up(k, q) = Up(k, p)
  BY <1>2, <1>5, UpMono
<1> QED
  BY <1>1, <1>2, <1>3, <1>4, <1>6

\* What the caller promised of the pages ahead is still so after a step that changes none of them.
LEMMA ReadyGoesOn ==
    ASSUME MemOK, TreeInv, WalkOK, ReadyPhys, ReadyPages, ReadyWhole, ReadyClone, ReadyFree,
           walk # None, walk.cb \notin {"destroy", "put"}, walk' # None => Onward,
           SameAhead(walk.root), walk.cb = "clone" => SameAhead(walk.to), roots' = roots
    PROVE  ReadyPhys' /\ ReadyPages' /\ ReadyWhole' /\ ReadyClone' /\ ReadyFree'
<1>1. CASE walk' = None
  BY <1>1 DEF ReadyPhys, ReadyPages, ReadyWhole, ReadyClone, ReadyFree
<1>2. CASE walk' # None
  <2>1. /\ walk'.cb = walk.cb /\ walk'.root = walk.root /\ walk'.create = walk.create
        /\ walk'.hi = walk.hi /\ walk'.flags = walk.flags /\ walk'.va = walk.va
        /\ walk'.pa = walk.pa /\ walk'.to = walk.to /\ walk'.cur = After
    BY <1>2 DEF Onward
  <2>2. walk.cur \in Nat /\ walk.hi \in Nat /\ walk.level \in Levels /\ After \in Nat /\ walk.cur < After
    BY WalkFacts
  <2>3. walk.hi \in Pages
    BY DEF WalkOK, Walks
  <2>4. ASSUME NEW p \in After..walk.hi
        PROVE  p \in Pages /\ p >= After /\ p \in Ahead
    BY <2>2, <2>3, PageBelow DEF Ahead
  <2>5. Ahead' = After..walk.hi
    BY <2>1 DEF Ahead
  <2>6. ASSUME NEW p \in After..walk.hi
        PROVE  /\ Leaf(mem', walk.root, p) = Leaf(mem, walk.root, p)
               /\ LeafEntry(mem', walk.root, p) = LeafEntry(mem, walk.root, p)
    BY <2>4 DEF SameAhead
  <2>7. ReadyPhys'
    <3> SUFFICES ASSUME walk.cb = "map_phys"
                 PROVE  /\ walk.create # None /\ walk.va <= After
                        /\ walk.pa \in Frames => walk.create # 0 /\ walk.root = pgroot
                        /\ ("PS" \in walk.flags) <=> walk.create # 0
                        /\ \A p \in After..walk.hi :
                                IF walk.create = 0 THEN Replaceable(walk.root, p)'
                                ELSE NoTable(walk.root, p, walk.create)'
                                     /\ ChunkIn(walk.create, p, After, walk.hi)
      BY <2>1, <2>5 DEF ReadyPhys, Replaceable, NoTable, Fresh
    <3>1. walk.create # None /\ walk.va <= walk.cur
          /\ (walk.pa \in Frames => walk.create # 0 /\ walk.root = pgroot)
          /\ (("PS" \in walk.flags) <=> walk.create # 0)
      BY DEF ReadyPhys
    <3>2. walk.va <= After
      BY <2>2, <3>1 DEF WalkOK, Walks
    <3>3. ASSUME NEW p \in After..walk.hi, walk.create = 0
          PROVE  Replaceable(walk.root, p)'
      <4>1. Replaceable(walk.root, p)
        BY <2>4, <3>3 DEF ReadyPhys
      <4> QED
        BY <2>1, <2>6, <4>1 DEF Replaceable
    <3>4. ASSUME NEW p \in After..walk.hi, walk.create # 0
          PROVE  NoTable(walk.root, p, walk.create)' /\ ChunkIn(walk.create, p, After, walk.hi)
      <4>1. NoTable(walk.root, p, walk.create) /\ ChunkIn(walk.create, p, walk.cur, walk.hi)
        BY <2>4, <3>4 DEF ReadyPhys
      <4>2. NoTable(walk.root, p, walk.create)'
        BY <2>1, <2>6, <4>1 DEF NoTable, Fresh
      <4>3. walk.create \in Levels /\ walk.create <= walk.level
        BY <3>4, NotBelow DEF Levels, Top
      <4> QED
        BY <2>4, <4>1, <4>2, <4>3, ChunkAhead
    <3> QED
      BY <3>1, <3>2, <3>3, <3>4
  <2>8. ReadyPages'
    BY <2>1, <2>4, <2>5, <2>6 DEF ReadyPages, Fresh
  <2>9. ReadyWhole'
    <3> SUFFICES ASSUME walk.cb \in {"mprotect", "free", "clone"}
                 PROVE  \A p \in After..walk.hi : Whole(walk.root, p, walk.cur, walk.hi)'
      BY <2>1, <2>5 DEF ReadyWhole
    <3> TAKE p \in After..walk.hi
    <3>1. Whole(walk.root, p, walk.cur, walk.hi)
      BY <2>4 DEF ReadyWhole
    <3> SUFFICES ASSUME pte_big(LeafEntry(mem, walk.root, p)), NEW q \in Pages,
                        Up(Leaf(mem, walk.root, p).level, q) = Up(Leaf(mem, walk.root, p).level, p)
                 PROVE  q \in After..walk.hi
      BY <2>1, <2>6 DEF Whole
    <3>2. PICK l : l = Leaf(mem, walk.root, p).level
      OBVIOUS
    <3> QED
      BY <2>4, <3>1, <3>2, WholeAhead
  <2>10. ReadyClone'
    <3> SUFFICES ASSUME walk.cb = "clone"
                 PROVE  /\ walk.to \in roots \ {walk.root, pgroot}
                        /\ \A p \in After..walk.hi : Fresh(walk.to, p)'
      BY <2>1, <2>5 DEF ReadyClone
    <3>1. /\ walk.to \in roots \ {walk.root, pgroot}
          /\ \A p \in Ahead : Fresh(walk.to, p)
      BY DEF ReadyClone
    <3>2. ASSUME NEW p \in After..walk.hi PROVE Fresh(walk.to, p)'
      <4>1. LeafEntry(mem', walk.to, p) = LeafEntry(mem, walk.to, p)
        BY <2>4 DEF SameAhead
      <4> QED
        BY <2>1, <2>4, <3>1, <4>1 DEF Fresh
    <3> QED
      BY <3>1, <3>2
  <2>11. ReadyFree'
    BY <2>1, <2>4, <2>5, <2>6 DEF ReadyFree
  <2> QED
    BY <2>7, <2>8, <2>9, <2>10, <2>11
<1> QED
  BY <1>1, <1>2

-----------------------------------------------------------------------------
(***************************************************************************)
(* The steps of a call.                                                    *)
(***************************************************************************)

\* The pages that the step is about.
Now(p) == p \in walk.cur..walk.hi /\ p < After

\* What is served is what lies below the entry.
LEMMA ServedIs ==
    ASSUME MemOK, WalkOK, walk # None, NEW s \in roots, NEW g \in [Pages -> {None} \cup Entries],
           want' = [want EXCEPT ![s] = [p \in Pages |->
                        IF p \in walk.cur..walk.hi /\ p < After THEN g[p] ELSE want[s][p]]]
    PROVE  /\ want' \in [roots -> [Pages -> {None} \cup Entries]]
           /\ \A r \in roots : r # s => want'[r] = want[r]
           /\ \A p \in Pages : want'[s][p] = IF Now(p) THEN g[p] ELSE want[s][p]
           /\ \A p \in Pages : Up(walk.level, p) # Up(walk.level, walk.cur) => want'[s][p] = want[s][p]
<1>1. want \in [roots -> [Pages -> {None} \cup Entries]]
  BY DEF MemOK
<1>2. PICK h : h = [p \in Pages |-> IF p \in walk.cur..walk.hi /\ p < After THEN g[p] ELSE want[s][p]]
  OBVIOUS
<1>3. h \in [Pages -> {None} \cup Entries]
  BY <1>1, <1>2
<1>4. want' = [want EXCEPT ![s] = h]
  BY <1>2
<1>5. want' \in [roots -> [Pages -> {None} \cup Entries]] /\ want'[s] = h
      /\ \A r \in roots : r # s => want'[r] = want[r]
  BY <1>1, <1>3, <1>4
<1>6. \A p \in Pages : want'[s][p] = IF Now(p) THEN g[p] ELSE want[s][p]
  BY <1>2, <1>5 DEF Now
<1>7. ASSUME NEW p \in Pages, Up(walk.level, p) # Up(walk.level, walk.cur) PROVE ~Now(p)
  <2>1. p \in Nat /\ walk.cur \in Nat /\ After \in Nat
        /\ (walk.cur <= p /\ p < After => Up(walk.level, p) = Up(walk.level, walk.cur))
    BY PageNat, WalkFacts
  <2> QED
    BY <1>7, <2>1 DEF Now
<1> QED
  BY <1>5, <1>6, <1>7

\* A step of a walk that changes the entry it is at.
LEMMA RootStep ==
    ASSUME PtInv, walk # None, walk.cb \notin {"destroy", "put"}, look = None,
           OneEntry(mem, mem', place, walk.root, walk.cur, walk.level, walk.dirs),
           own' \in [Pool -> Nat], PoolInv', Balanced(mem, mem', own, own', Here, Idx), walk' = Advance,
           roots' = roots, look' = look, proc' = proc, place' = place, frees' = frees,
           NEW s \in roots, NEW g \in [Pages -> {None} \cup Entries],
           want' = want \/ want' = [want EXCEPT ![s] = [p \in Pages |->
                        IF p \in walk.cur..walk.hi /\ p < After THEN g[p] ELSE want[s][p]]],
           \A p \in Pages : Up(walk.level, p) = Up(walk.level, walk.cur) =>
                                    Translate(mem', s, p) = want'[s][p],
           s # walk.root => mem' = mem
    PROVE  PtInv'
<1>1. /\ MemOK /\ TreeInv /\ CountInv /\ PoolInv /\ WalkOK /\ ReadyPhys /\ ReadyPages /\ ReadyWhole
      /\ ReadyClone /\ ReadyFree /\ LookOK /\ Flat
  BY DEF PtInv
<1>2. PICK r \in roots : r = walk.root /\ walk.top = Top
  BY <1>1 DEF WalkOK
<1>3. r \in Frames /\ place[r] = Place(r, Top, 0) /\ TreeFor(mem, place)
      /\ \A t \in roots : t \in Frames /\ place[t] = Place(t, Top, 0)
  BY <1>1, StateTree
<1>4. PICK c \in Pages : c = walk.cur
  BY <1>1 DEF WalkOK, Walks
<1>5. PICK l \in Levels : l = walk.level
  BY <1>1 DEF WalkOK, Walks
<1>6. PICK ds \in [Levels -> Frames] : ds = walk.dirs
  BY <1>1 DEF WalkOK, Walks
<1>7. PICK m2 : m2 = mem'
  OBVIOUS
<1>8. OneEntry(mem, m2, place, r, c, l, ds)
  BY <1>2, <1>4, <1>5, <1>6, <1>7
<1>9. Chain(mem, r, c, Top, l, ds)
  BY <1>8 DEF OneEntry
<1>10. Chain(m2, r, c, Top, l, ds)
  BY <1>3, <1>8, <1>9, OneChain
<1>11. Chain(mem', walk.root, walk.cur, walk.top, walk.level, walk.dirs)
  BY <1>2, <1>4, <1>5, <1>6, <1>7, <1>10
<1>12. WalkOK' /\ Dying' = Dying /\ (walk' # None => Onward)
  BY <1>1, <1>11, WalkAdvances
<1>13. TreeInv' /\ CountInv'
  BY <1>1, <1>4, <1>5, <1>6, <1>12, EntryKeeps DEF Here, Idx
<1>14. \A t \in roots, p \in Pages : t # r \/ Up(l, p) # Up(l, c) =>
            /\ Leaf(m2, t, p) = Leaf(mem, t, p) /\ LeafEntry(m2, t, p) = LeafEntry(mem, t, p)
            /\ Translate(m2, t, p) = Translate(mem, t, p)
  BY <1>3, <1>8, OneOther
<1>15. \A p \in Pages : p >= After => Up(l, p) # Up(l, c)
  BY <1>1, <1>4, <1>5, WalkFacts, PageNat
<1>16. SameAhead(walk.root) /\ (walk.cb = "clone" => SameAhead(walk.to))
  BY <1>1, <1>2, <1>7, <1>14, <1>15 DEF SameAhead, ReadyClone
<1>17. ReadyPhys' /\ ReadyPages' /\ ReadyWhole' /\ ReadyClone' /\ ReadyFree'
  BY <1>1, <1>12, <1>16, ReadyGoesOn
<1>18. LookOK'
  BY DEF LookOK
<1>19. /\ want' \in [roots -> [Pages -> {None} \cup Entries]]
       /\ \A t \in roots : t # s => want'[t] = want[t]
       /\ \A p \in Pages : Up(l, p) # Up(l, c) => want'[s][p] = want[s][p]
  <2>1. CASE want' = want
    BY <1>1, <2>1 DEF MemOK
  <2>2. CASE want' = [want EXCEPT ![s] = [p \in Pages |->
                        IF p \in walk.cur..walk.hi /\ p < After THEN g[p] ELSE want[s][p]]]
    BY <1>1, <1>4, <1>5, <2>2, ServedIs
  <2> QED
    BY <2>1, <2>2
<1>20. MemOK'
  <2>1. mem' \in MemType
    BY <1>8, <1>7 DEF OneEntry
  <2> QED
    BY <1>1, <1>19, <2>1 DEF MemOK, MemType
<1>21. Flat'
  <2> SUFFICES ASSUME NEW t \in roots, NEW p \in Pages PROVE Translate(mem', t, p) = want'[t][p]
    BY DEF Flat
  <2>1. Translate(mem, t, p) = want[t][p]
    BY <1>1 DEF Flat
  <2>2. CASE t = s /\ Up(l, p) = Up(l, c)
    BY <1>4, <1>5, <2>2
  <2>3. CASE ~(t = s /\ Up(l, p) = Up(l, c))
    <3>1. want'[t][p] = want[t][p]
      BY <1>19, <2>3
    <3>2. Translate(mem', t, p) = Translate(mem, t, p)
      BY <1>2, <1>7, <1>14, <2>3
    <3> QED
      BY <2>1, <3>1, <3>2
  <2> QED
    BY <2>2, <2>3
<1> QED
  BY <1>12, <1>13, <1>17, <1>18, <1>20, <1>21 DEF PtInv

\* The entry that a walk of a live root has come to.
LEMMA AtEntry ==
    ASSUME MemOK, TreeInv, WalkOK, walk # None, walk.cb \notin {"destroy", "put"}
    PROVE  /\ Here \in Frames /\ Idx \in Index /\ Entry \in {None} \cup Entries
           /\ place[Here] # None /\ place[Here].level = walk.level /\ place[Here].root = walk.root
           /\ walk.root \in roots /\ walk.root \in Frames /\ walk.level \in Levels
           /\ walk.cur \in Pages /\ walk.cur \in Nat
           /\ walk.level > 0 /\ Entry # None /\ ~pte_big(Entry) => pte_present(Entry) /\ Entry.frame \in Pool
           /\ walk.level > 0 /\ pte_big(Entry) => walk.level < Top
           /\ walk.level > 0 /\ pte_big(Entry) /\ Entry.frame \in Frames => walk.root = pgroot
           /\ walk.level = 0 /\ pte_big(Entry) => walk.root # pgroot
           /\ walk.level = 0 /\ Entry # None /\ ~pte_big(Entry) /\ Entry.frame \in Frames =>
                place[Entry.frame] = None
<1>1. Here \in Frames /\ Idx \in Index /\ walk.level \in Levels /\ walk.cur \in Nat
  BY WalkFacts
<1>2. PICK r \in Frames : r = walk.root /\ walk.root \in roots /\ place[r] = Place(r, Top, 0)
  BY StateTree DEF WalkOK
<1>3. PICK c \in Pages : c = walk.cur
  BY DEF WalkOK, Walks
<1>4. PICK l \in Levels : l = walk.level
  BY <1>1
<1>5. PICK ds \in [Levels -> Frames] : ds = walk.dirs
  BY DEF WalkOK, Walks
<1>6. Chain(mem, r, c, Top, l, ds) /\ c \in Nat /\ Up(4, c) = 0 /\ TreeFor(mem, place)
  BY <1>2, <1>3, <1>4, <1>5, PageNat, StateTree DEF WalkOK
<1>7. \A k \in l..Top : place[ds[k]] = Place(r, k + (Top - Top), Up(k + 1, c))
  BY <1>2, <1>6, ChainPlaces DEF Top, Levels
<1>8. place[ds[l]] = Place(r, l, Up(l + 1, c))
  BY <1>7 DEF Top, Levels
<1>9. Up(l + 1, c) \in Nat
  BY <1>6, UpLevel
<1>10. place[Here] # None /\ place[Here].level = l /\ place[Here].root = r
  BY <1>4, <1>5, <1>8, <1>9, PlaceType DEF Here
<1>11. Entry \in {None} \cup Entries
  BY <1>1 DEF Entry, MemOK
<1>12. Tree(mem, place)
  BY <1>6 DEF TreeFor
<1>13. l > 0 /\ Entry # None /\ ~pte_big(Entry) => Entry.flags = {"P", "W"} /\ Entry.frame \in Pool
  BY <1>1, <1>10, <1>12 DEF Tree, EntryOK, Entry
<1>14. l > 0 /\ pte_big(Entry) => l < Top
  BY <1>1, <1>10, <1>12 DEF Tree, EntryOK, Entry, pte_big
<1>15. l = 0 /\ Entry # None /\ ~pte_big(Entry) /\ Entry.frame \in Frames => place[Entry.frame] = None
  BY <1>1, <1>10, <1>12 DEF Tree, EntryOK, Entry
<1>16. /\ l = 0 /\ pte_big(Entry) => r # pgroot
       /\ l > 0 /\ pte_big(Entry) /\ Entry.frame \in Frames => r = pgroot
  BY <1>1, <1>10, <1>12 DEF Tree, EntryOK, Entry, pte_big
<1> QED
  BY <1>1, <1>2, <1>3, <1>4, <1>10, <1>11, <1>13, <1>14, <1>15, <1>16 DEF pte_present

\* A write at the place of the walk is one at the end of a path.
LEMMA MakeOne ==
    ASSUME MemOK, TreeInv, WalkOK, walk # None, walk.cb \notin {"destroy", "put"},
           NEW m2 \in MemType, Changed(mem, m2, place, Here, Idx), LeafOK(place, Here, m2[Here][Idx]),
           Entry = None \/ walk.level = 0 \/ pte_big(Entry)
    PROVE  OneEntry(mem, m2, place, walk.root, walk.cur, walk.level, walk.dirs)
<1>1. /\ walk.root \in Frames /\ walk.cur \in Pages /\ walk.level \in Levels
      /\ walk.dirs \in [Levels -> Frames] /\ place[walk.root] = Place(walk.root, Top, 0)
      /\ Chain(mem, walk.root, walk.cur, Top, walk.level, walk.dirs)
  BY AtEntry, StateTree DEF WalkOK, Walks
<1>2. TreeFor(mem, place)
  BY StateTree
<1> QED
  BY <1>1, <1>2 DEF OneEntry, Here, Idx, Entry

\* The pages below an entry that ends their path.
LEMMA BelowEntry ==
    ASSUME MemOK, TreeInv, WalkOK, walk # None, walk.cb \notin {"destroy", "put"},
           Entry = None \/ walk.level = 0 \/ pte_big(Entry),
           NEW p \in Pages, Up(walk.level, p) = Up(walk.level, walk.cur)
    PROVE  LeafEntry(mem, walk.root, p) = Entry /\ Leaf(mem, walk.root, p).level = walk.level
<1>1. Changed(mem, mem, place, Here, Idx) /\ mem \in MemType
  BY DEF Changed, MemOK, MemType
<1>2. LeafOK(place, Here, mem[Here][Idx])
  <2>1. Entry # None => Entry \in Entries
    BY AtEntry
  <2>2. walk.level \in Levels /\ place[Here].level = walk.level
    BY AtEntry
  <2>3. walk.level > 0 => walk.level # 0
    BY <2>2
  <2> QED
    BY <2>1, <2>2, <2>3, AtEntry DEF LeafOK, Entry
<1>3. OneEntry(mem, mem, place, walk.root, walk.cur, walk.level, walk.dirs)
  BY <1>1, <1>2, MakeOne
<1> QED
  BY <1>3, OneHere DEF Entry, Here, Idx

\* At level 0 a walk is at one page.
LEMMA NextPage ==
    ASSUME WalkOK, walk # None, walk.level = 0, NEW p \in Pages
    PROVE  After = walk.cur + 1 /\ Base = walk.cur /\ (Now(p) <=> p = walk.cur)
           /\ (Up(0, p) = Up(0, walk.cur) <=> p = walk.cur)
<1>1. walk.cur \in Nat /\ p \in Nat /\ walk.hi \in Nat /\ walk.cur <= walk.hi
  BY PageNat DEF WalkOK, Walks
<1>2. Up(0, walk.cur) = walk.cur /\ Up(0, p) = p /\ Size(0) = 1
  BY <1>1, UpIs, SizeIs
<1>3. After = walk.cur + 1 /\ Base = walk.cur
  BY <1>1, <1>2 DEF After, Base
<1> QED
  BY <1>1, <1>2, <1>3 DEF Now

\* The big page that a walk is at is below it as a whole.
LEMMA ChunkNow ==
    ASSUME WalkOK, walk # None, ChunkIn(walk.level, walk.cur, walk.cur, walk.hi),
           NEW p \in Pages, Up(walk.level, p) = Up(walk.level, walk.cur)
    PROVE  Now(p) /\ Base = walk.cur
<1>1. p \in walk.cur..walk.hi
  BY DEF ChunkIn
<1>2. /\ walk.cur \in Nat /\ walk.hi \in Nat /\ walk.level \in Levels /\ After \in Nat /\ p \in Nat
      /\ (p >= After => Up(walk.level, p) # Up(walk.level, walk.cur))
  BY WalkFacts, PageNat
<1>3. PICK l \in 0..4 : l = walk.level
  BY <1>2 DEF Levels, Top
<1>4. PICK S \in Nat : S = Size(l)
  BY SizeType
<1>5. PICK u \in Nat : u = Up(l, walk.cur)
  BY <1>2, UpType
<1>6. PICK b \in Nat : b = u * S
  OBVIOUS
<1>7. b = Up(l, walk.cur) * Size(l)
  BY <1>4, <1>5, <1>6
<1>8. b <= walk.cur /\ Up(l, b) = Up(l, walk.cur)
  BY <1>2, <1>7, ChunkEnds
<1>9. b \in Pages
  BY <1>8, PageBelow DEF WalkOK, Walks
<1>10. b \in walk.cur..walk.hi
  BY <1>3, <1>8, <1>9 DEF ChunkIn
<1>11. Base = b
  BY <1>3, <1>7 DEF Base
<1> QED
  BY <1>1, <1>2, <1>8, <1>10, <1>11 DEF Now

\* What Set does.
LEMMA SetIs ==
    ASSUME NEW m \in MemType, NEW d \in Frames, NEW i \in Index, NEW e \in {None} \cup Entries,
           NEW m2, m2 = Set(m, d, i, e)
    PROVE  /\ m2 \in MemType /\ m2[d][i] = e
           /\ \A x \in Frames, j \in Index : ~(x = d /\ j = i) => m2[x][j] = m[x][j]
<1>1. m2 = [m EXCEPT ![d] = [m[d] EXCEPT ![i] = e]]
  BY DEF Set
<1>2. PICK v : v = [m[d] EXCEPT ![i] = e]
  OBVIOUS
<1>3. m[d] \in [Index -> {None} \cup Entries]
  BY DEF MemType
<1>4. v \in [Index -> {None} \cup Entries] /\ v[i] = e /\ \A j \in Index : j # i => v[j] = m[d][j]
  BY <1>2, <1>3
<1>5. m2 \in MemType /\ m2[d] = v /\ \A x \in Frames : x # d => m2[x] = m[x]
  BY <1>1, <1>2, <1>4 DEF MemType
<1> QED
  BY <1>4, <1>5

\* What the invariant says of the counts.
LEMMA OwnIs ==
    ASSUME NEW rf, NEW pn, NEW fr, PoolFor(rf, pn, fr)
    PROVE  /\ Owns(rf, pn) \in [Pool -> Nat] /\ \A x \in Pool : Owns(rf, pn)[x] = rf[x] - pn[x]
           /\ \A x \in fr : x \in Pool /\ Owns(rf, pn)[x] = 0
BY DEF Owns, PoolFor

\* A page from the allocator is in no use.
LEMMA AllocIs ==
    ASSUME MemOK, TreeInv, CountInv, PoolInv, free # {}, NEW n, n = alloc_page
    PROVE  /\ n \in Pool /\ n \in Frames /\ n \in Nat /\ own[n] = 0 /\ place[n] = None /\ n \in free
           /\ \A x \in Frames, j \in Index :
                place[x] # None /\ mem[x][j] # None /\ ~pte_big(mem[x][j]) => mem[x][j].frame # n
           /\ Blank \in MemType /\ \A j \in Index : Blank[n][j] = None
           /\ \A x \in Frames : x # n => Blank[x] = mem[x]
<1>1. n \in free
  BY DEF alloc_page
<1>2. n \in Pool /\ n \in Frames /\ n \in Nat /\ own[n] = 0
  BY <1>1, PoolFrames, OwnIs DEF Pool, PoolInv, own
<1>3. own \in [Pool -> Nat] /\ mem \in MemType
  BY DEF MemOK, MemType
<1>4. PICK exact : exact = (frees = 0)
  OBVIOUS
<1>5. Counted(mem, place, own, exact) /\ Hung(mem, place, own, roots, roots \cup Dying)
  BY <1>4 DEF CountInv, TreeInv
<1>6. /\ place[n] = None
      /\ \A x \in Frames, j \in Index :
            place[x] # None /\ mem[x][j] # None /\ ~pte_big(mem[x][j]) => mem[x][j].frame # n
  BY <1>2, <1>3, <1>5, FreeUnused
<1>7. EmptyDir \in [Index -> {None} \cup Entries] /\ \A j \in Index : EmptyDir[j] = None
  BY DEF EmptyDir
<1>8. Blank \in MemType /\ Blank[n] = EmptyDir /\ \A x \in Frames : x # n => Blank[x] = mem[x]
  BY <1>2, <1>3, <1>7 DEF Blank, MemType
<1> QED
  BY <1>1, <1>2, <1>6, <1>7, <1>8

\* It is counted once.
LEMMA TakeIs ==
    ASSUME PoolInv, free # {}, NEW n, n = alloc_page
    PROVE  /\ PoolFor(Taken, pins, free \ {n}) /\ Owns(Taken, pins) \in [Pool -> Nat]
           /\ n \in Pool /\ own[n] = 0 /\ Owns(Taken, pins)[n] = 1
           /\ \A x \in Pool : x # n => Owns(Taken, pins)[x] = own[x]
<1>1. n \in free /\ PoolFor(ref, pins, free)
  BY DEF alloc_page, PoolInv
<1>2. /\ n \in Pool /\ ref \in [Pool -> Nat] /\ pins \in [Pool -> Nat] /\ ref[n] = pins[n]
      /\ free \subseteq Pool
  BY <1>1 DEF PoolFor
<1>3. Taken \in [Pool -> Nat] /\ Taken[n] = ref[n] + 1 /\ \A x \in Pool : x # n => Taken[x] = ref[x]
  BY <1>2 DEF Taken
<1>4. PICK tk \in [Pool -> Nat] : tk = Taken
  BY <1>3
<1>5. PoolFor(tk, pins, free \ {n})
  <2>1. ASSUME NEW f \in Pool
        PROVE  pins[f] <= tk[f] /\ (IF f \in free \ {n} THEN tk[f] = pins[f] ELSE tk[f] > 0)
    <3>1. pins[f] \in Nat /\ ref[f] \in Nat /\ tk[f] = IF f = n THEN ref[f] + 1 ELSE ref[f]
      BY <1>2, <1>3, <1>4
    <3>2. pins[f] <= ref[f] /\ (IF f \in free THEN ref[f] = pins[f] ELSE ref[f] > 0)
      BY <1>1 DEF PoolFor
    <3> QED
      BY <3>1, <3>2
  <2> QED
    BY <1>2, <2>1 DEF PoolFor
<1>6. /\ Owns(tk, pins) \in [Pool -> Nat] /\ \A x \in Pool : Owns(tk, pins)[x] = tk[x] - pins[x]
      /\ \A x \in Pool : own[x] = ref[x] - pins[x]
  BY <1>1, <1>5, OwnIs DEF own
<1>7. Owns(tk, pins)[n] = 1 /\ own[n] = 0
  BY <1>2, <1>3, <1>4, <1>6
<1>8. \A x \in Pool : x # n => Owns(tk, pins)[x] = own[x]
  BY <1>3, <1>4, <1>6
<1> QED
  BY <1>2, <1>4, <1>5, <1>6, <1>7, <1>8

\* A reference to f that is not that of a copy can be put,
Puttable(f, rf, pn, fr) == f \in Nat /\ PoolFor(rf, pn, fr) /\ (f \in Pool => Owns(rf, pn)[f] > 0)

\* and has been.
PutDone(f, rf, pn, fr, rf2, fr2) ==
    /\ PoolFor(rf2, pn, fr2) /\ Owns(rf2, pn) \in [Pool -> Nat]
    /\ \A x \in Pool : x # f => Owns(rf2, pn)[x] = Owns(rf, pn)[x]
    /\ f \in Pool => Owns(rf2, pn)[f] = Owns(rf, pn)[f] - 1

\* What dune_page_put does to the counts and the list,
LEMMA PutIs ==
    ASSUME NEW f, NEW rf, NEW pn, NEW fr, Puttable(f, rf, pn, fr)
    PROVE  PutDone(f, rf, pn, fr, PutRef(f, rf), PutFree(f, rf, fr))
<1> USE DEF Puttable
<1>0. PICK rf2 : rf2 = PutRef(f, rf)
  OBVIOUS
<1>1. /\ rf \in [Pool -> Nat] /\ pn \in [Pool -> Nat] /\ fr \subseteq Pool
      /\ \A x \in Pool : pn[x] <= rf[x] /\ (IF x \in fr THEN rf[x] = pn[x] ELSE rf[x] > 0)
  BY DEF PoolFor
<1>2. \A x \in Pool : Owns(rf, pn)[x] = rf[x] - pn[x] /\ rf[x] \in Nat /\ pn[x] \in Nat
  BY <1>1, OwnIs
<1>3. CASE f \notin Pool
  <2>1. rf2 = rf /\ PutFree(f, rf, fr) = fr
    BY <1>0, <1>3 DEF PutRef, PutFree
  <2> QED
    BY <1>0, <1>3, <2>1, OwnIs DEF PutDone
<1>4. CASE f \in Pool
  <2>1. rf[f] > 0 /\ rf[f] > pn[f] /\ f \notin fr
    BY <1>1, <1>2, <1>4
  <2>2. rf2 \in [Pool -> Nat] /\ rf2[f] = rf[f] - 1 /\ \A x \in Pool : x # f => rf2[x] = rf[x]
    BY <1>1, <1>4, <1>0, <2>1 DEF PutRef
  <2>3. PICK fr2 : fr2 = PutFree(f, rf, fr)
    OBVIOUS
  <2>4. fr2 = IF rf2[f] = 0 THEN fr \cup {f} ELSE fr
    BY <1>0, <1>4, <2>3 DEF PutFree
  <2>5. ASSUME NEW x \in Pool
        PROVE  pn[x] <= rf2[x] /\ (IF x \in fr2 THEN rf2[x] = pn[x] ELSE rf2[x] > 0)
    <3>1. rf[x] \in Nat /\ pn[x] \in Nat /\ rf2[x] \in Nat
      BY <1>2, <2>2
    <3>2. CASE x = f
      BY <2>1, <2>2, <2>4, <3>1, <3>2
    <3>3. CASE x # f
      <4>1. rf2[x] = rf[x] /\ (x \in fr2 <=> x \in fr)
        BY <2>2, <2>4, <3>3
      <4> QED
        BY <1>1, <4>1
    <3> QED
      BY <3>2, <3>3
  <2>6. PoolFor(rf2, pn, fr2)
    BY <1>1, <1>4, <2>2, <2>4, <2>5 DEF PoolFor
  <2>7. Owns(rf2, pn) \in [Pool -> Nat] /\ \A x \in Pool : Owns(rf2, pn)[x] = rf2[x] - pn[x]
    BY <2>6, OwnIs
  <2>8. Owns(rf2, pn)[f] = Owns(rf, pn)[f] - 1
    BY <1>2, <1>4, <2>2, <2>7
  <2>9. \A x \in Pool : x # f => Owns(rf2, pn)[x] = Owns(rf, pn)[x]
    BY <1>2, <2>2, <2>7
  <2> QED
    BY <1>0, <2>3, <2>6, <2>7, <2>8, <2>9 DEF PutDone
<1> QED
  BY <1>3, <1>4

\* and to the memory.
LEMMA PutMemIs ==
    ASSUME MemOK, NEW f \in Nat, NEW m2, m2 = PutMem(f, mem)
    PROVE  /\ m2 \in MemType /\ \A x \in Frames : x # f => m2[x] = mem[x]
           /\ f \notin Pool => m2 = mem
           /\ \A j \in Index : m2[f][j] = mem[f][j] \/ m2[f][j] = None
<1>1. mem \in MemType
  BY DEF MemOK, MemType
<1>2. EmptyDir \in [Index -> {None} \cup Entries] /\ \A j \in Index : EmptyDir[j] = None
  BY DEF EmptyDir
<1>3. CASE f \in Pool /\ ref[f] <= 1
  <2>1. f \in Frames /\ m2 = [mem EXCEPT ![f] = EmptyDir]
    BY <1>3, PoolFrames DEF PutMem
  <2> QED
    BY <1>1, <1>2, <1>3, <2>1 DEF MemType
<1>4. CASE ~(f \in Pool /\ ref[f] <= 1)
  BY <1>1, <1>4 DEF PutMem
<1> QED
  BY <1>3, <1>4

\* Without a change nothing is counted.
LEMMA SameOwn ==
    ASSUME PoolInv, UNCHANGED <<ref, free, pins>>
    PROVE  own' = own /\ own' \in [Pool -> Nat] /\ PoolInv'
<1>1. PoolFor(ref, pins, free)
  BY DEF PoolInv
<1>2. own' = own /\ own \in [Pool -> Nat]
  BY <1>1, OwnIs DEF own
<1> QED
  BY <1>1, <1>2 DEF PoolInv

\* The parts of an entry.
LEMMA PteIs ==
    ASSUME NEW f \in Nat, NEW fl \in SUBSET Flags
    PROVE  Pte(f, fl) \in Entries /\ Pte(f, fl) # None /\ Pte(f, fl).frame = f /\ Pte(f, fl).flags = fl
           /\ (pte_big(Pte(f, fl)) <=> "PS" \in fl)
<1>1. Pte(f, fl) \in Entries /\ Pte(f, fl).frame = f /\ Pte(f, fl).flags = fl
  BY DEF Pte, Entries
<1> QED
  BY <1>1, NoneIs DEF pte_big

\* WalkSkip keeps the invariant, for the calls that leave the tables standing.
LEMMA SkipStep ==
    ASSUME PtInv, WalkSkip, walk.cb # "destroy"
    PROVE  PtInv'
<1>1. /\ MemOK /\ TreeInv /\ CountInv /\ PoolInv /\ WalkOK /\ ReadyPhys /\ ReadyPages /\ ReadyWhole
      /\ ReadyClone /\ ReadyFree /\ LookOK /\ Flat
  BY DEF PtInv
<1>2. walk # None /\ look = None /\ walk.cb \notin {"destroy", "put"} /\ ~IsLeafHere
  BY DEF WalkSkip, Inner, Walking
<1>3. Entry = None
  <2>1. CASE walk.level = 0
    BY <1>2, <2>1 DEF IsLeafHere
  <2>2. CASE walk.level # 0
    <3>1. ~pte_present(Entry) /\ walk.level \in Levels
      BY <1>1, <1>2, <2>2, AtEntry DEF WalkSkip
    <3>2. walk.level \in {1, 2} => ~pte_big(Entry)
      BY <1>2 DEF IsLeafHere
    <3>3. walk.level > 0 /\ (walk.level < Top => walk.level \in {1, 2})
      BY <2>2, <3>1 DEF Levels, Top
    <3>4. ~pte_big(Entry)
      BY <1>1, <1>2, <3>2, <3>3, AtEntry
    <3> QED
      BY <1>1, <1>2, <3>1, <3>3, <3>4, AtEntry
  <2> QED
    BY <2>1, <2>2
<1>4. /\ mem' = mem /\ own' = own /\ PoolInv' /\ roots' = roots /\ look' = look /\ proc' = proc /\ place' = place
      /\ frees' = frees /\ walk' = Advance
  BY <1>1, SameOwn DEF WalkSkip
<1>5. OneEntry(mem, mem', place, walk.root, walk.cur, walk.level, walk.dirs)
  <2>1. mem \in MemType /\ Changed(mem, mem, place, Here, Idx) /\ LeafOK(place, Here, mem[Here][Idx])
    BY <1>1, <1>3 DEF MemOK, MemType, Changed, LeafOK, Entry
  <2> QED
    BY <1>1, <1>2, <1>3, <1>4, <2>1, MakeOne
<1>6. own' \in [Pool -> Nat] /\ Balanced(mem, mem', own, own', Here, Idx)
  BY <1>1, <1>4 DEF MemOK, Balanced
<1>7. \A p \in Pages : Up(walk.level, p) = Up(walk.level, walk.cur) => LeafEntry(mem, walk.root, p) = None
  BY <1>1, <1>2, <1>3, BelowEntry
<1>8. \A p \in Pages : Up(walk.level, p) = Up(walk.level, walk.cur) => Translate(mem, walk.root, p) = None
  BY <1>7 DEF Translate
<1>9. walk.root \in roots /\ want \in [roots -> [Pages -> {None} \cup Entries]]
  BY <1>1, <1>2 DEF WalkOK, MemOK
<1>10. \A p \in Pages :
            Up(walk.level, p) = Up(walk.level, walk.cur) => want[walk.root][p] = None
  BY <1>1, <1>8, <1>9 DEF Flat
<1>11. PICK none \in [Pages -> {None} \cup Entries] : none = [p \in Pages |-> None]
  OBVIOUS
<1>12. CASE walk.cb = "mprotect"
  <2>1. want' = [want EXCEPT ![walk.root] = [p \in Pages |->
                    IF p \in walk.cur..walk.hi /\ p < After THEN Protected(p) ELSE want[walk.root][p]]]
    BY <1>12 DEF WalkSkip, Served
  <2>2. PICK g : g = [p \in Pages |-> Protected(p)]
    OBVIOUS
  <2>3. g \in [Pages -> {None} \cup Entries]
    <3>1. walk.flags \in SUBSET Flags
      BY <1>1, <1>2 DEF WalkOK, Walks
    <3>2. ASSUME NEW p \in Pages PROVE Protected(p) \in {None} \cup Entries
      <4>1. CASE Same(p) = None
        BY <4>1 DEF Protected
      <4>2. CASE Same(p) # None
        <5>1. Same(p).frame \in Nat
          BY <1>9, <4>2 DEF Same, Entries
        <5> QED
          BY <3>1, <4>2, <5>1, PteIs DEF Protected
      <4> QED
        BY <4>1, <4>2
    <3> QED
      BY <2>2, <3>2
  <2>4. want' = [want EXCEPT ![walk.root] = [p \in Pages |->
                    IF p \in walk.cur..walk.hi /\ p < After THEN g[p] ELSE want[walk.root][p]]]
    BY <2>1, <2>2
  <2>5. \A p \in Pages : want'[walk.root][p] = IF Now(p) THEN g[p] ELSE want[walk.root][p]
    BY <1>1, <1>2, <1>9, <2>3, <2>4, ServedIs
  <2>6. \A p \in Pages :
            Up(walk.level, p) = Up(walk.level, walk.cur) => Translate(mem', walk.root, p) = want'[walk.root][p]
    BY <1>4, <1>8, <1>10, <2>2, <2>5 DEF Protected, Same
  <2> QED
    BY <1>2, <1>4, <1>5, <1>6, <1>9, <2>3, <2>4, <2>6, RootStep
<1>13. CASE walk.cb = "free"
  <2>1. want' = [want EXCEPT ![walk.root] = [p \in Pages |->
                    IF p \in walk.cur..walk.hi /\ p < After THEN Gone(p) ELSE want[walk.root][p]]]
    BY <1>13 DEF WalkSkip, Served
  <2>2. want' = [want EXCEPT ![walk.root] = [p \in Pages |->
                    IF p \in walk.cur..walk.hi /\ p < After THEN none[p] ELSE want[walk.root][p]]]
    BY <1>11, <2>1 DEF Gone
  <2>3. \A p \in Pages : want'[walk.root][p] = IF Now(p) THEN none[p] ELSE want[walk.root][p]
    BY <1>1, <1>2, <1>9, <2>2, ServedIs
  <2>4. \A p \in Pages :
            Up(walk.level, p) = Up(walk.level, walk.cur) => Translate(mem', walk.root, p) = want'[walk.root][p]
    BY <1>4, <1>8, <1>10, <1>11, <2>3
  <2> QED
    BY <1>2, <1>4, <1>5, <1>6, <1>9, <2>2, <2>4, RootStep
<1>14. CASE walk.cb = "clone"
  <2>1. /\ walk.to \in roots /\ walk.to # walk.root
        /\ \A p \in Ahead : Fresh(walk.to, p)
    BY <1>1, <1>2, <1>14 DEF ReadyClone
  <2>2. want' = [want EXCEPT ![walk.to] = [p \in Pages |->
                    IF p \in walk.cur..walk.hi /\ p < After THEN Same(p) ELSE want[walk.to][p]]]
    BY <1>14 DEF WalkSkip, Served
  <2>3. PICK g : g = want[walk.root]
    OBVIOUS
  <2>4. g \in [Pages -> {None} \cup Entries]
    BY <1>9, <2>3
  <2>5. want' = [want EXCEPT ![walk.to] = [p \in Pages |->
                    IF p \in walk.cur..walk.hi /\ p < After THEN g[p] ELSE want[walk.to][p]]]
    BY <2>2, <2>3 DEF Same
  <2>6. \A p \in Pages : want'[walk.to][p] = IF Now(p) THEN g[p] ELSE want[walk.to][p]
    BY <1>1, <1>2, <2>1, <2>4, <2>5, ServedIs
  <2>7. ASSUME NEW p \in Pages, Up(walk.level, p) = Up(walk.level, walk.cur)
        PROVE  Translate(mem', walk.to, p) = want'[walk.to][p]
    <3>1. Translate(mem, walk.to, p) = want[walk.to][p]
      BY <1>1, <2>1, <2>7 DEF Flat
    <3>2. CASE Now(p)
      <4>1. Translate(mem, walk.to, p) = None
        BY <2>1, <3>2 DEF Now, Ahead, Fresh, Translate
      <4>2. g[p] = None
        BY <1>10, <2>1, <2>3, <2>7
      <4> QED
        BY <1>4, <2>6, <3>2, <4>1, <4>2
    <3>3. CASE ~Now(p)
      BY <1>4, <2>6, <3>1, <3>3
    <3> QED
      BY <3>2, <3>3
  <2> QED
    BY <1>2, <1>4, <1>5, <1>6, <2>1, <2>4, <2>5, <2>7, RootStep
<1>15. CASE walk.cb \notin {"mprotect", "free", "clone"}
  <2>1. want' = want
    BY <1>15 DEF WalkSkip
  <2>2. \A p \in Pages :
            Up(walk.level, p) = Up(walk.level, walk.cur) => Translate(mem', walk.root, p) = want'[walk.root][p]
    BY <1>4, <1>8, <1>10, <2>1
  <2> QED
    BY <1>2, <1>4, <1>5, <1>6, <1>9, <1>11, <2>1, <2>2, RootStep
<1> QED
  BY <1>12, <1>13, <1>14, <1>15

\* The chunk of a page at level 0 lies in the range.
LEMMA ChunkZero ==
    ASSUME WalkOK, walk # None, walk.level = 0
    PROVE  ChunkIn(0, walk.cur, walk.cur, walk.hi)
<1> SUFFICES ASSUME NEW q \in Pages, Up(0, q) = Up(0, walk.cur) PROVE q \in walk.cur..walk.hi
  BY DEF ChunkIn
<1>1. q = walk.cur
  BY NextPage
<1> QED
  BY <1>1, PageNat DEF WalkOK, Walks

\* mprotect, free and clone find a small page or the whole of a big one.
LEMMA LeafWhole ==
    ASSUME MemOK, TreeInv, WalkOK, ReadyWhole, walk # None, walk.cb \in {"mprotect", "free", "clone"},
           IsLeafHere
    PROVE  /\ Entry # None /\ Entry \in Entries
           /\ walk.level = 0 \/ (walk.level \in {1, 2} /\ pte_big(Entry))
           /\ ChunkIn(walk.level, walk.cur, walk.cur, walk.hi)
<1>1. walk.create = None /\ walk.cb \notin {"destroy", "put"}
  BY DEF ReadyWhole
<1>2. None # 0 /\ None # 1 /\ None # 2
  BY NoneIs
<1>3. (walk.level = 0 /\ Entry # None) \/ (walk.level \in {1, 2} /\ pte_big(Entry))
  BY <1>1, <1>2 DEF IsLeafHere
<1>4. Entry # None /\ Entry \in Entries
  BY <1>1, <1>3, AtEntry DEF pte_big
<1>5. walk.level \in {1, 2} => walk.level > 0
  OBVIOUS
<1>6. ChunkIn(walk.level, walk.cur, walk.cur, walk.hi)
  <2>1. CASE walk.level = 0
    BY <2>1, ChunkZero
  <2>2. CASE walk.level \in {1, 2} /\ pte_big(Entry)
    <3>1. walk.cur \in Pages /\ walk.cur \in walk.cur..walk.hi
      BY PageNat DEF WalkOK, Walks
    <3>2. Whole(walk.root, walk.cur, walk.cur, walk.hi)
      BY <3>1 DEF ReadyWhole, Ahead
    <3>3. LeafEntry(mem, walk.root, walk.cur) = Entry /\ Leaf(mem, walk.root, walk.cur).level = walk.level
      BY <1>1, <2>2, <3>1, BelowEntry
    <3> QED
      BY <2>2, <3>2, <3>3 DEF Whole, ChunkIn
  <2> QED
    BY <1>3, <2>1, <2>2
<1> QED
  BY <1>1, <1>3, <1>4, <1>5, <1>6, AtEntry

\* The distance of a page from the first one below the entry.
LEMMA Offset ==
    ASSUME NEW l \in Levels, NEW p \in Pages
    PROVE  p - Up(l, p) * Size(l) \in Nat
<1>1. PICK k \in 0..4 : k = l
  BY DEF Levels, Top
<1>2. p \in Nat
  BY PageNat
<1>3. Up(k, p) * Size(k) <= p /\ Up(k, p) \in Nat /\ Size(k) \in Nat
  BY <1>2, ChunkOf, UpType, SizeType
<1>4. PICK u \in Nat : u = Up(k, p)
  BY <1>3
<1>5. PICK S \in Nat : S = Size(k)
  BY <1>3
<1>6. u * S \in Nat /\ u * S <= p
  BY <1>3, <1>4, <1>5
<1>7. p - u * S \in Nat
  BY <1>2, <1>6
<1> QED
  BY <1>1, <1>4, <1>5, <1>7

\* mprotect_helper keeps the invariant.
LEMMA MprotectStep ==
    ASSUME PtInv, mprotect_helper
    PROVE  PtInv'
<1>1. /\ MemOK /\ TreeInv /\ CountInv /\ PoolInv /\ WalkOK /\ ReadyPhys /\ ReadyPages /\ ReadyWhole
      /\ ReadyClone /\ ReadyFree /\ LookOK /\ Flat
  BY DEF PtInv
<1>2. walk # None /\ look = None /\ walk.cb = "mprotect" /\ IsLeafHere
  BY DEF mprotect_helper, AtLeaf, Walking
<1>3. walk.cb \notin {"destroy", "put"}
  BY <1>2
<1>4. /\ Entry # None /\ Entry \in Entries
      /\ walk.level = 0 \/ (walk.level \in {1, 2} /\ pte_big(Entry))
      /\ ChunkIn(walk.level, walk.cur, walk.cur, walk.hi)
  BY <1>1, <1>2, LeafWhole
<1>5. PICK e : e = Pte(Entry.frame, (Entry.flags \cap {"PS"}) \cup walk.flags)
  OBVIOUS
<1>6. Entry.frame \in Nat /\ Entry.flags \in SUBSET Flags /\ walk.flags \in SUBSET Flags /\ "PS" \notin walk.flags
  BY <1>1, <1>2, <1>4 DEF Entries, WalkOK, Walks, ReadyWhole
<1>7. /\ e \in Entries /\ e # None /\ e.frame = Entry.frame /\ e.flags \ {"PS"} = walk.flags
      /\ (pte_big(Entry) <=> pte_big(e))
  <2>1. (Entry.flags \cap {"PS"}) \cup walk.flags \in SUBSET Flags
    BY <1>6
  <2>2. e \in Entries /\ e # None /\ e.frame = Entry.frame /\ e.flags = (Entry.flags \cap {"PS"}) \cup walk.flags
        /\ (pte_big(e) <=> "PS" \in (Entry.flags \cap {"PS"}) \cup walk.flags)
    BY <1>5, <1>6, <2>1, PteIs
  <2> QED
    BY <1>4, <1>6, <2>2 DEF pte_big
<1>8. /\ own' = own /\ PoolInv' /\ roots' = roots /\ look' = look /\ proc' = proc /\ place' = place
      /\ frees' = frees /\ walk' = Advance /\ mem' = Set(mem, Here, Idx, e)
  BY <1>1, <1>5, SameOwn DEF mprotect_helper
<1>9. /\ Here \in Frames /\ Idx \in Index /\ walk.root \in roots /\ walk.level \in Levels
      /\ place[Here].level = walk.level /\ walk.root \in Frames
      /\ (walk.level = 0 /\ ~pte_big(Entry) /\ Entry.frame \in Frames => place[Entry.frame] = None)
      /\ (walk.level = 0 /\ pte_big(Entry) => place[Here].root # pgroot)
      /\ (walk.level > 0 /\ Entry.frame \in Frames => place[Here].root = pgroot)
  BY <1>1, <1>2, <1>3, <1>4, AtEntry
<1>10. mem \in MemType /\ own \in [Pool -> Nat] /\ want \in [roots -> [Pages -> {None} \cup Entries]]
  BY <1>1 DEF MemOK, MemType
<1>11. /\ mem' \in MemType /\ mem'[Here][Idx] = e
       /\ \A x \in Frames, j \in Index : ~(x = Here /\ j = Idx) => mem'[x][j] = mem[x][j]
  BY <1>7, <1>8, <1>9, <1>10, SetIs
<1>12. Changed(mem, mem', place, Here, Idx) /\ LeafOK(place, Here, mem'[Here][Idx])
  BY <1>4, <1>7, <1>9, <1>11 DEF Changed, LeafOK, Top
<1>13. OneEntry(mem, mem', place, walk.root, walk.cur, walk.level, walk.dirs)
  BY <1>1, <1>2, <1>3, <1>4, <1>11, <1>12, MakeOne
<1>14. own' \in [Pool -> Nat] /\ Balanced(mem, mem', own, own', Here, Idx)
  BY <1>4, <1>7, <1>8, <1>10, <1>11 DEF Balanced, RefTo, Entry
<1>15. want' = [want EXCEPT ![walk.root] = [p \in Pages |->
                    IF p \in walk.cur..walk.hi /\ p < After THEN Protected(p) ELSE want[walk.root][p]]]
  BY DEF mprotect_helper, Served
<1>16. PICK g : g = [p \in Pages |-> Protected(p)]
  OBVIOUS
<1>17. g \in [Pages -> {None} \cup Entries]
  <2>1. ASSUME NEW p \in Pages PROVE Protected(p) \in {None} \cup Entries
    <3>1. CASE Same(p) = None
      BY <3>1 DEF Protected
    <3>2. CASE Same(p) # None
      <4>1. Same(p).frame \in Nat
        BY <1>9, <1>10, <3>2 DEF Same, Entries
      <4> QED
        BY <1>6, <3>2, <4>1, PteIs DEF Protected
    <3> QED
      BY <3>1, <3>2
  <2> QED
    BY <1>16, <2>1
<1>18. want' = [want EXCEPT ![walk.root] = [p \in Pages |->
                    IF p \in walk.cur..walk.hi /\ p < After THEN g[p] ELSE want[walk.root][p]]]
  BY <1>15, <1>16
<1>19. \A p \in Pages : want'[walk.root][p] = IF Now(p) THEN g[p] ELSE want[walk.root][p]
  BY <1>1, <1>2, <1>9, <1>17, <1>18, ServedIs
<1>20. ASSUME NEW p \in Pages, Up(walk.level, p) = Up(walk.level, walk.cur)
       PROVE  Translate(mem', walk.root, p) = want'[walk.root][p]
  <2>1. PICK o \in Nat : o = p - Up(walk.level, p) * Size(walk.level)
    BY <1>9, Offset
  <2>2. /\ LeafEntry(mem, walk.root, p) = Entry /\ Leaf(mem, walk.root, p).level = walk.level
        /\ LeafEntry(mem', walk.root, p) = e /\ Leaf(mem', walk.root, p).level = walk.level
    BY <1>11, <1>13, <1>20, OneHere DEF Here, Idx, Entry
  <2>3. Translate(mem, walk.root, p) = Pte(Entry.frame + o, Entry.flags \ {"PS"})
    BY <1>4, <2>1, <2>2 DEF Translate
  <2>4. Translate(mem', walk.root, p) = Pte(Entry.frame + o, walk.flags)
    BY <1>7, <2>1, <2>2 DEF Translate
  <2>5. want[walk.root][p] = Pte(Entry.frame + o, Entry.flags \ {"PS"})
    BY <1>1, <1>9, <1>20, <2>3 DEF Flat
  <2>6. Entry.frame + o \in Nat /\ Entry.flags \ {"PS"} \in SUBSET Flags
    BY <1>6
  <2>7. want[walk.root][p] # None /\ want[walk.root][p].frame = Entry.frame + o
    BY <2>5, <2>6, PteIs
  <2>8. Protected(p) = Pte(Entry.frame + o, walk.flags)
    BY <2>7 DEF Protected, Same
  <2>9. Now(p)
    BY <1>1, <1>2, <1>4, <1>20, ChunkNow
  <2> QED
    BY <1>16, <1>19, <2>4, <2>8, <2>9
<1> QED
  BY <1>2, <1>3, <1>8, <1>9, <1>13, <1>14, <1>17, <1>18, <1>20, RootStep

\* free_helper keeps the invariant.
LEMMA FreeStep ==
    ASSUME PtInv, free_helper
    PROVE  PtInv'
<1>1. /\ MemOK /\ TreeInv /\ CountInv /\ PoolInv /\ WalkOK /\ ReadyPhys /\ ReadyPages /\ ReadyWhole
      /\ ReadyClone /\ ReadyFree /\ LookOK /\ Flat
  BY DEF PtInv
<1>2. walk # None /\ look = None /\ walk.cb = "free" /\ IsLeafHere
  BY DEF free_helper, AtLeaf, Walking
<1>3. walk.cb \notin {"destroy", "put"}
  BY <1>2
<1>4. /\ Entry # None /\ Entry \in Entries
      /\ walk.level = 0 \/ (walk.level \in {1, 2} /\ pte_big(Entry))
      /\ ChunkIn(walk.level, walk.cur, walk.cur, walk.hi)
  BY <1>1, <1>2, LeafWhole
<1>5. Entry.frame \in Nat
  BY <1>4 DEF Entries
<1>6. PICK m : m = PutMem(Entry.frame, mem)
  OBVIOUS
<1>7. /\ m \in MemType /\ (\A x \in Frames : x # Entry.frame => m[x] = mem[x])
      /\ (Entry.frame \notin Pool => m = mem)
  BY <1>1, <1>5, <1>6, PutMemIs
<1>8. /\ ref' = PutRef(Entry.frame, ref) /\ free' = PutFree(Entry.frame, ref, free) /\ pins' = pins
      /\ roots' = roots /\ look' = look /\ proc' = proc /\ place' = place
      /\ frees' = frees /\ walk' = Advance /\ mem' = Set(m, Here, Idx, None)
  BY <1>6 DEF free_helper
<1>9. /\ Here \in Frames /\ Idx \in Index /\ walk.root \in roots /\ walk.level \in Levels
      /\ place[Here].level = walk.level /\ walk.root \in Frames
      /\ (walk.level = 0 /\ ~pte_big(Entry) /\ Entry.frame \in Frames => place[Entry.frame] = None)
  BY <1>1, <1>2, <1>3, <1>4, AtEntry
<1>10. mem \in MemType /\ own \in [Pool -> Nat] /\ want \in [roots -> [Pages -> {None} \cup Entries]]
  BY <1>1 DEF MemOK, MemType
<1>11. /\ mem' \in MemType /\ mem'[Here][Idx] = None
       /\ \A x \in Frames, j \in Index : ~(x = Here /\ j = Idx) => mem'[x][j] = m[x][j]
  BY <1>7, <1>8, <1>9, SetIs
<1>20. Entry.frame \in Pool => walk.level = 0 /\ ~pte_big(Entry)
  <2>1. walk.cur \in Pages /\ walk.cur \in Ahead
    BY <1>1, <1>2, PageNat DEF WalkOK, Walks, Ahead
  <2>2. LeafEntry(mem, walk.root, walk.cur) = Entry
    BY <1>1, <1>2, <1>3, <1>4, <2>1, BelowEntry
  <2>3. ~MapsPool(Entry)
    BY <1>1, <1>2, <2>1, <2>2 DEF ReadyFree
  <2> QED
    BY <1>4, <2>3 DEF MapsPool
<1>12. Changed(mem, mem', place, Here, Idx) /\ LeafOK(place, Here, mem'[Here][Idx])
  <2>1. Entry.frame \in Pool => place[Entry.frame] = None
    BY <1>4, <1>9, <1>20, PoolFrames
  <2>2. \A x \in Frames : place[x] # None => m[x] = mem[x]
    BY <1>7, <2>1
  <2> QED
    BY <1>11, <2>2 DEF Changed, LeafOK
<1>13. OneEntry(mem, mem', place, walk.root, walk.cur, walk.level, walk.dirs)
  BY <1>1, <1>2, <1>3, <1>4, <1>11, <1>12, MakeOne
<1>14. own' \in [Pool -> Nat] /\ PoolInv' /\ Balanced(mem, mem', own, own', Here, Idx)
  <2>1. Entry.frame \in Pool => own[Entry.frame] > 0
    <3> SUFFICES ASSUME Entry.frame \in Pool, own[Entry.frame] = 0 PROVE FALSE
      BY <1>10
    <3>1. PICK f \in Pool : f = Entry.frame
      OBVIOUS
    <3>2. PICK exact : exact = (frees = 0)
      OBVIOUS
    <3>3. Counted(mem, place, own, exact) /\ Hung(mem, place, own, roots, roots \cup Dying) /\ own[f] = 0
      BY <1>1, <3>1, <3>2 DEF CountInv, TreeInv
    <3>4. \A x \in Frames, j \in Index : place[x] # None /\ mem[x][j] # None /\ ~pte_big(mem[x][j]) => mem[x][j].frame # f
      BY <1>10, <3>3, FreeUnused
    <3>5. place[Here] # None
      BY <1>1, <1>2, <1>3, AtEntry
    <3> QED
      BY <1>4, <1>9, <1>20, <3>1, <3>4, <3>5 DEF Entry
  <2>2. /\ own' \in [Pool -> Nat] /\ \A x \in Pool : x # Entry.frame => own'[x] = own[x]
        /\ Entry.frame \in Pool => own'[Entry.frame] = own[Entry.frame] - 1
        /\ PoolInv'
    <3>1. PICK nr : nr = ref'
      OBVIOUS
    <3>2. PICK f \in Nat : f = Entry.frame
      BY <1>5
    <3>3. Puttable(f, ref, pins, free)
      BY <1>1, <2>1, <3>2 DEF PoolInv, own, Puttable
    <3>6. PutDone(f, ref, pins, free, PutRef(f, ref), PutFree(f, ref, free)) /\ nr = PutRef(f, ref)
      BY <1>8, <3>1, <3>2, <3>3, PutIs
    <3>4. /\ PoolFor(nr, pins, PutFree(f, ref, free)) /\ Owns(nr, pins) \in [Pool -> Nat]
          /\ \A x \in Pool : x # f => Owns(nr, pins)[x] = Owns(ref, pins)[x]
          /\ f \in Pool => Owns(nr, pins)[f] = Owns(ref, pins)[f] - 1
      BY <3>6 DEF PutDone
    <3>5. own' = Owns(nr, pins) /\ own = Owns(ref, pins) /\ PoolInv'
      BY <1>8, <3>1, <3>2, <3>4 DEF PoolInv, own
    <3> QED
      BY <3>2, <3>4, <3>5
  <2>3. ASSUME NEW f \in Pool
        PROVE  own'[f] + RefTo(mem[Here][Idx], f) = own[f] + RefTo(mem'[Here][Idx], f)
    <3>1. RefTo(mem'[Here][Idx], f) = 0 /\ RefTo(mem[Here][Idx], f) = IF Entry.frame = f THEN 1 ELSE 0
      BY <1>4, <1>11, <1>20 DEF RefTo, Entry
    <3>2. own[f] \in Nat /\ own'[f] \in Nat
      BY <1>10, <2>2
    <3> QED
      BY <2>2, <3>1, <3>2
  <2> QED
    BY <2>2, <2>3 DEF Balanced
<1>15. want' = [want EXCEPT ![walk.root] = [p \in Pages |->
                    IF p \in walk.cur..walk.hi /\ p < After THEN Gone(p) ELSE want[walk.root][p]]]
  BY DEF free_helper, Served
<1>16. PICK g \in [Pages -> {None} \cup Entries] : g = [p \in Pages |-> None]
  OBVIOUS
<1>17. want' = [want EXCEPT ![walk.root] = [p \in Pages |->
                    IF p \in walk.cur..walk.hi /\ p < After THEN g[p] ELSE want[walk.root][p]]]
  BY <1>15, <1>16 DEF Gone
<1>18. \A p \in Pages : want'[walk.root][p] = IF Now(p) THEN g[p] ELSE want[walk.root][p]
  BY <1>1, <1>2, <1>9, <1>17, ServedIs
<1>19. ASSUME NEW p \in Pages, Up(walk.level, p) = Up(walk.level, walk.cur)
       PROVE  Translate(mem', walk.root, p) = want'[walk.root][p]
  <2>1. LeafEntry(mem', walk.root, p) = None
    BY <1>11, <1>13, <1>19, OneHere DEF Here, Idx
  <2>2. Now(p)
    BY <1>1, <1>2, <1>4, <1>19, ChunkNow
  <2> QED
    BY <1>16, <1>18, <2>1, <2>2 DEF Translate
<1> QED
  BY <1>2, <1>3, <1>8, <1>9, <1>13, <1>14, <1>17, <1>19, RootStep

\* A table at the walk's entry: the path goes on below.
LEMMA TableBelow ==
    ASSUME MemOK, TreeInv, WalkOK, walk # None, walk.cb \notin {"destroy", "put"},
           walk.level > 0, Entry # None, ~pte_big(Entry)
    PROVE  Leaf(mem, walk.root, walk.cur).level < walk.level
<1>1. PICK r \in Frames : r = walk.root
  BY DEF WalkOK, Walks
<1>2. PICK c \in Nat : c = walk.cur
  BY WalkFacts
<1>3. PICK l \in 1..Top : l = walk.level
  BY DEF WalkOK, Walks, Levels
<1>4. PICK ds \in [Levels -> Frames] : ds = walk.dirs
  BY DEF WalkOK, Walks
<1>5. Chain(mem, r, c, Top, l, ds)
  BY <1>1, <1>2, <1>3, <1>4 DEF WalkOK
<1>6. PICK e : e = mem[ds[l]][PDX(l, c)]
  OBVIOUS
<1>7. e = Entry
  BY <1>2, <1>3, <1>4, <1>6 DEF Entry, Here, Idx
<1>8. e # None /\ ~pte_big(e) /\ e.frame \in Frames
  BY <1>7, AtEntry, PoolFrames
<1>9. PICK es : es = [ds EXCEPT ![l - 1] = e.frame]
  OBVIOUS
<1>10. Top \in 1..Top /\ l - 1 \in Levels
  BY DEF Top, Levels
<1>11. es \in [Levels -> Frames] /\ Chain(mem, r, c, Top, l - 1, es)
  BY <1>5, <1>6, <1>8, <1>9, <1>10, ChainDown
<1>12. Leaf(mem, r, c).level \in 0..(l - 1)
  BY <1>10, <1>11, ChainLevel
<1> QED
  BY <1>1, <1>2, <1>3, <1>12 DEF Top

\* What map_phys finds at the entries it makes.
LEMMA LeafPhys ==
    ASSUME MemOK, TreeInv, WalkOK, ReadyPhys, walk # None, walk.cb = "map_phys", IsLeafHere
    PROVE  /\ Entry # None => walk.level = 0 /\ Entry.frame \notin Pool
           /\ ChunkIn(walk.level, walk.cur, walk.cur, walk.hi)
           /\ walk.level \in {0, 1, 2} /\ (walk.level > 0 <=> "PS" \in walk.flags)
<1>1. walk.cb \notin {"destroy", "put"}
  OBVIOUS
<1>2. walk.cur \in Pages /\ walk.cur \in walk.cur..walk.hi /\ walk.level \in Levels
  BY PageNat DEF WalkOK, Walks
<1>3. walk.create # None /\ (("PS" \in walk.flags) <=> walk.create # 0) /\ walk.create \in {None, 0, 1, 2}
  BY DEF ReadyPhys, WalkOK, Walks
<1>4. pte_big(Entry) => LeafEntry(mem, walk.root, walk.cur) = Entry /\ Entry # None
  BY <1>1, <1>2, BelowEntry DEF pte_big
<1>5. CASE walk.create = 0
  <2>1. Replaceable(walk.root, walk.cur)
    BY <1>2, <1>5 DEF ReadyPhys, Ahead
  <2>2. ~pte_big(Entry)
    BY <1>4, <2>1 DEF Replaceable
  <2>3. walk.level = 0
    BY <1>5, <2>2 DEF IsLeafHere
  <2>4. LeafEntry(mem, walk.root, walk.cur) = Entry
    BY <1>1, <1>2, <2>3, BelowEntry
  <2>5. Entry # None => Entry.frame \notin Pool
    BY <2>1, <2>4 DEF Replaceable
  <2> QED
    BY <1>3, <1>5, <2>3, <2>5, ChunkZero
<1>6. CASE walk.create # 0
  <2>1. walk.create \in {1, 2} /\ walk.create <= walk.level
    BY <1>6, NotBelow
  <2>2. NoTable(walk.root, walk.cur, walk.create) /\ ChunkIn(walk.create, walk.cur, walk.cur, walk.hi)
    BY <1>2, <1>6 DEF ReadyPhys, Ahead
  <2>3. ~pte_big(Entry)
    BY <1>4, <2>2 DEF NoTable, Fresh
  <2>4. walk.level = walk.create /\ walk.level > 0
    BY <1>2, <2>1, <2>3 DEF IsLeafHere
  <2>5. Entry = None
    <3> SUFFICES ASSUME Entry # None PROVE FALSE
      OBVIOUS
    <3>1. Leaf(mem, walk.root, walk.cur).level < walk.level
      BY <1>1, <2>3, <2>4, TableBelow
    <3>2. Leaf(mem, walk.root, walk.cur).level >= walk.level
      BY <2>2, <2>4 DEF NoTable
    <3>3. PICK r \in Frames : r = walk.root /\ place[r] = Place(r, Top, 0)
      BY <1>1, StateTree DEF WalkOK
    <3>4. PICK f : f = Leaf(mem, r, walk.cur)
      OBVIOUS
    <3>5. PICK e : e = LeafEntry(mem, r, walk.cur)
      OBVIOUS
    <3>6. TreeFor(mem, place)
      BY StateTree
    <3>7. f.level \in Levels
      BY <1>2, <3>3, <3>4, <3>5, <3>6, LeafFacts
    <3> QED
      BY <1>2, <3>1, <3>2, <3>3, <3>4, <3>7 DEF Levels
  <2> QED
    BY <1>3, <1>6, <2>1, <2>2, <2>4, <2>5
<1> QED
  BY <1>5, <1>6

\* map_phys_helper keeps the invariant.
LEMMA MapPhysStep ==
    ASSUME PtInv, map_phys_helper
    PROVE  PtInv'
<1>1. /\ MemOK /\ TreeInv /\ CountInv /\ PoolInv /\ WalkOK /\ ReadyPhys /\ ReadyPages /\ ReadyWhole
      /\ ReadyClone /\ ReadyFree /\ LookOK /\ Flat
  BY DEF PtInv
<1>2. walk # None /\ look = None /\ walk.cb = "map_phys" /\ IsLeafHere
  BY DEF map_phys_helper, AtLeaf, Walking
<1>3. walk.cb \notin {"destroy", "put"}
  BY <1>2
<1>4. /\ Entry # None => walk.level = 0 /\ Entry.frame \notin Pool
      /\ ChunkIn(walk.level, walk.cur, walk.cur, walk.hi)
      /\ walk.level \in {0, 1, 2} /\ (walk.level > 0 <=> "PS" \in walk.flags)
  BY <1>1, <1>2, LeafPhys
<1>5. /\ walk.cur \in Nat /\ walk.cur \in Pages /\ walk.va \in Nat /\ walk.pa \in Nat /\ walk.va <= walk.cur
      /\ (walk.pa \in Frames => "PS" \in walk.flags /\ walk.root = pgroot) /\ walk.flags \in SUBSET Flags
  BY <1>1, <1>2, PageNat DEF WalkOK, Walks, ReadyPhys
<1>6. Base = walk.cur
  BY <1>1, <1>2, <1>4, <1>5, ChunkNow
<1>7. PICK fr \in Nat : /\ fr = walk.pa + (walk.cur - walk.va)
                        /\ fr \in Frames => "PS" \in walk.flags /\ walk.root = pgroot
  <2>1. PoolSize \in Nat /\ (walk.pa \notin Frames => walk.pa > PoolSize)
    BY <1>5, PageTableAssumption DEF Frames
  <2>2. walk.pa + (walk.cur - walk.va) \in Nat /\ walk.pa + (walk.cur - walk.va) >= walk.pa
    BY <1>5
  <2> QED
    BY <1>5, <2>1, <2>2 DEF Frames
<1>8. PICK e : e = Pte(fr, walk.flags)
  OBVIOUS
<1>9. e \in Entries /\ e # None /\ e.frame = fr /\ e.flags = walk.flags
      /\ (pte_big(e) <=> "PS" \in walk.flags)
  BY <1>5, <1>8, PteIs
<1>10. /\ own' = own /\ PoolInv' /\ roots' = roots /\ look' = look /\ proc' = proc /\ place' = place
       /\ frees' = frees /\ walk' = Advance /\ mem' = Set(mem, Here, Idx, e)
  BY <1>1, <1>6, <1>7, <1>8, SameOwn DEF map_phys_helper, map_phys_frame
<1>11. /\ Here \in Frames /\ Idx \in Index /\ walk.root \in roots /\ walk.level \in Levels
       /\ place[Here].level = walk.level /\ place[Here].root = walk.root /\ walk.root \in Frames
  BY <1>1, <1>2, <1>3, AtEntry
<1>12. mem \in MemType /\ own \in [Pool -> Nat] /\ want \in [roots -> [Pages -> {None} \cup Entries]]
  BY <1>1 DEF MemOK, MemType
<1>13. /\ mem' \in MemType /\ mem'[Here][Idx] = e
       /\ \A x \in Frames, j \in Index : ~(x = Here /\ j = Idx) => mem'[x][j] = mem[x][j]
  BY <1>9, <1>10, <1>11, <1>12, SetIs
<1>14. Changed(mem, mem', place, Here, Idx) /\ LeafOK(place, Here, mem'[Here][Idx])
  BY <1>4, <1>7, <1>9, <1>11, <1>13 DEF Changed, LeafOK, Top
<1>15. OneEntry(mem, mem', place, walk.root, walk.cur, walk.level, walk.dirs)
  BY <1>1, <1>2, <1>3, <1>4, <1>13, <1>14, MakeOne
<1>16. own' \in [Pool -> Nat] /\ Balanced(mem, mem', own, own', Here, Idx)
  <2>1. ASSUME NEW f \in Pool PROVE RefTo(mem[Here][Idx], f) = 0 /\ RefTo(mem'[Here][Idx], f) = 0
    BY <1>4, <1>7, <1>9, <1>13, PoolFrames DEF RefTo, Entry
  <2> QED
    BY <1>10, <1>12, <2>1 DEF Balanced
<1>17. want' = [want EXCEPT ![walk.root] = [p \in Pages |->
                    IF p \in walk.cur..walk.hi /\ p < After THEN Placed(p) ELSE want[walk.root][p]]]
  BY DEF map_phys_helper, Served
<1>18. PICK g : g = [p \in Pages |-> IF p \in walk.cur..walk.hi /\ p < After THEN Placed(p) ELSE None]
  OBVIOUS
<1>19. g \in [Pages -> {None} \cup Entries]
  <2>1. ASSUME NEW p \in Pages, p \in walk.cur..walk.hi PROVE Placed(p) \in {None} \cup Entries
    <3>1. p \in Nat /\ walk.cur <= p
      BY <1>5, <2>1, PageNat
    <3>2. walk.pa + (p - walk.va) \in Nat /\ walk.flags \ {"PS"} \in SUBSET Flags
      BY <1>5, <3>1
    <3> QED
      BY <3>2, PteIs DEF Placed
  <2> QED
    BY <1>18, <2>1
<1>20. want' = [want EXCEPT ![walk.root] = [p \in Pages |->
                    IF p \in walk.cur..walk.hi /\ p < After THEN g[p] ELSE want[walk.root][p]]]
  BY <1>17, <1>18
<1>21. \A p \in Pages : want'[walk.root][p] = IF Now(p) THEN g[p] ELSE want[walk.root][p]
  BY <1>1, <1>2, <1>11, <1>19, <1>20, ServedIs
<1>22. ASSUME NEW p \in Pages, Up(walk.level, p) = Up(walk.level, walk.cur)
       PROVE  Translate(mem', walk.root, p) = want'[walk.root][p]
  <2>1. p \in Nat /\ Up(walk.level, p) * Size(walk.level) = walk.cur
    BY <1>6, <1>22, PageNat DEF Base
  <2>2. /\ LeafEntry(mem', walk.root, p) = e /\ Leaf(mem', walk.root, p).level = walk.level
    BY <1>13, <1>15, <1>22, OneHere DEF Here, Idx
  <2>3. Translate(mem', walk.root, p) = Pte(fr + (p - walk.cur), walk.flags \ {"PS"})
    BY <1>9, <2>1, <2>2 DEF Translate
  <2>4. fr + (p - walk.cur) = walk.pa + (p - walk.va)
    BY <1>5, <1>7, <2>1
  <2>5. Now(p)
    BY <1>1, <1>2, <1>4, <1>22, ChunkNow
  <2>6. g[p] = Placed(p)
    BY <1>18, <2>5 DEF Now
  <2> QED
    BY <1>21, <2>3, <2>4, <2>5, <2>6 DEF Placed
<1> QED
  BY <1>2, <1>3, <1>10, <1>11, <1>15, <1>16, <1>19, <1>20, <1>22, RootStep

\* A call that ends at once.
LEMMA StopStep ==
    ASSUME PtInv, walk # None, walk.cb \notin {"destroy", "put"}, look = None, walk' = None,
           UNCHANGED <<mem, ref, free, pins, roots, look, proc, want, place, frees>>
    PROVE  PtInv'
<1>1. Dying' = Dying
  BY DEF Dying
<1>3. own' = own /\ PoolInv'
  BY SameOwn DEF PtInv
<1>2. TreeInv' /\ CountInv' /\ MemOK' /\ Flat'
  BY <1>1, <1>3 DEF PtInv, TreeInv, CountInv, MemOK, Flat
<1> QED
  BY <1>2, <1>3 DEF PtInv, WalkOK, ReadyPhys, ReadyPages, ReadyWhole, ReadyClone, ReadyFree, LookOK

\* map_pages_helper keeps the invariant.
LEMMA MapPagesStep ==
    ASSUME PtInv, map_pages_helper
    PROVE  PtInv'
<1>1. /\ MemOK /\ TreeInv /\ CountInv /\ PoolInv /\ WalkOK /\ ReadyPhys /\ ReadyPages /\ ReadyWhole
      /\ ReadyClone /\ ReadyFree /\ LookOK /\ Flat
  BY DEF PtInv
<1>2. walk # None /\ look = None /\ walk.cb = "map_pages" /\ IsLeafHere
  BY DEF map_pages_helper, AtLeaf, Walking
<1>3. walk.cb \notin {"destroy", "put"}
  BY <1>2
<1>4. CASE free = {}
  <2>1. walk' = None /\ UNCHANGED <<mem, ref, free, pins, roots, look, proc, want, place, frees>>
    BY <1>4 DEF map_pages_helper
  <2> QED
    BY <1>2, <1>3, <2>1, StopStep
<1>5. CASE free # {}
  <2>1. PICK n : n = alloc_page
    OBVIOUS
  <2>2. /\ n \in Pool /\ n \in Frames /\ n \in Nat /\ own[n] = 0 /\ place[n] = None
        /\ Blank \in MemType /\ \A x \in Frames : x # n => Blank[x] = mem[x]
    BY <1>1, <1>5, <2>1, AllocIs
  <2>3. walk.create = 0 /\ "PS" \notin walk.flags /\ walk.flags \in SUBSET Flags /\ walk.cur \in Pages
        /\ walk.cur \in Nat /\ Fresh(walk.root, walk.cur)
    BY <1>1, <1>2, PageNat DEF ReadyPages, WalkOK, Walks, Ahead
  <2>4. ~pte_big(Entry)
    <3>1. pte_big(Entry) => LeafEntry(mem, walk.root, walk.cur) = Entry /\ Entry # None
      BY <1>1, <1>2, <1>3, <2>3, BelowEntry DEF pte_big
    <3> QED
      BY <2>3, <3>1 DEF Fresh
  <2>5. walk.level = 0
    BY <1>2, <2>3, <2>4 DEF IsLeafHere
  <2>6. Entry = None
    BY <1>1, <1>2, <1>3, <2>3, <2>5, BelowEntry DEF Fresh
  <2>7. PICK e : e = Pte(n, walk.flags)
    OBVIOUS
  <2>8. e \in Entries /\ e # None /\ e.frame = n /\ e.flags = walk.flags /\ ~pte_big(e)
    BY <2>2, <2>3, <2>7, PteIs
  <2>9. /\ ref' = Taken /\ free' = free \ {n} /\ pins' = pins /\ roots' = roots /\ look' = look /\ proc' = proc /\ place' = place
        /\ frees' = frees /\ walk' = Advance /\ mem' = Set(Blank, Here, Idx, e)
    BY <1>5, <2>1, <2>7 DEF map_pages_helper
  <2>10. /\ Here \in Frames /\ Idx \in Index /\ walk.root \in roots /\ walk.level \in Levels
         /\ place[Here].level = walk.level /\ walk.root \in Frames
    BY <1>1, <1>2, <1>3, AtEntry
  <2>11. own \in [Pool -> Nat] /\ want \in [roots -> [Pages -> {None} \cup Entries]]
    BY <1>1 DEF MemOK
  <2>12. /\ mem' \in MemType /\ mem'[Here][Idx] = e
         /\ \A x \in Frames, j \in Index : ~(x = Here /\ j = Idx) => mem'[x][j] = Blank[x][j]
    <3>1. PICK m \in MemType : m = Blank
      BY <2>2
    <3>2. e \in {None} \cup Entries /\ mem' = Set(m, Here, Idx, e)
      BY <2>8, <2>9, <3>1
    <3>3. /\ mem' \in MemType /\ mem'[Here][Idx] = e
          /\ \A x \in Frames, j \in Index : ~(x = Here /\ j = Idx) => mem'[x][j] = m[x][j]
      BY <2>10, <3>2, SetIs
    <3> QED
      BY <3>1, <3>3
  <2>13. Changed(mem, mem', place, Here, Idx)
    BY <2>2, <2>12, ZenonT(30) DEF Changed
  <2>14. LeafOK(place, Here, mem'[Here][Idx])
    BY <2>2, <2>5, <2>8, <2>10, <2>12 DEF LeafOK
  <2>15. OneEntry(mem, mem', place, walk.root, walk.cur, walk.level, walk.dirs)
    BY <1>1, <1>2, <1>3, <2>6, <2>12, <2>13, <2>14, MakeOne
  <2>22. /\ own' \in [Pool -> Nat] /\ PoolInv' /\ own'[n] = 1
         /\ \A x \in Pool : x # n => own'[x] = own[x]
    BY <1>1, <1>5, <2>1, <2>9, TakeIs DEF PoolInv, own
  <2>16. own' \in [Pool -> Nat] /\ PoolInv' /\ Balanced(mem, mem', own, own', Here, Idx)
    <3>1. ASSUME NEW f \in Pool
          PROVE  own'[f] + RefTo(mem[Here][Idx], f) = own[f] + RefTo(mem'[Here][Idx], f)
      <4>1. RefTo(mem[Here][Idx], f) = 0 /\ RefTo(mem'[Here][Idx], f) = IF f = n THEN 1 ELSE 0
        BY <2>6, <2>8, <2>12 DEF RefTo, Entry
      <4>2. own'[f] = IF f = n THEN 1 ELSE own[f]
        BY <2>22
      <4> QED
        BY <2>2, <2>11, <4>1, <4>2
    <3> QED
      BY <2>22, <3>1 DEF Balanced
  <2>17. PICK g : g = [p \in Pages |-> e]
    OBVIOUS
  <2>18. g \in [Pages -> {None} \cup Entries]
    BY <2>8, <2>17
  <2>19. want' = [want EXCEPT ![walk.root] = [p \in Pages |->
                    IF p \in walk.cur..walk.hi /\ p < After THEN g[p] ELSE want[walk.root][p]]]
    <3>1. want' = [want EXCEPT ![walk.root] = [p \in Pages |->
                    IF p \in walk.cur..walk.hi /\ p < After THEN e ELSE want[walk.root][p]]]
      BY <1>5, <2>1, <2>7 DEF map_pages_helper, Served
    <3> QED
      BY <2>17, <3>1
  <2>20. \A p \in Pages : want'[walk.root][p] = IF Now(p) THEN g[p] ELSE want[walk.root][p]
    BY <1>1, <1>2, <2>10, <2>18, <2>19, ServedIs
  <2>21. ASSUME NEW p \in Pages, Up(walk.level, p) = Up(walk.level, walk.cur)
         PROVE  Translate(mem', walk.root, p) = want'[walk.root][p]
    <3>1. LeafEntry(mem', walk.root, p) = e /\ Leaf(mem', walk.root, p).level = 0
      BY <2>5, <2>12, <2>15, <2>21, OneHere DEF Here, Idx
    <3>2. p = walk.cur /\ Now(p)
      BY <1>1, <1>2, <2>5, <2>21, NextPage
    <3>3. n + (p - Up(0, p) * Size(0)) = n
      BY <2>2, <2>3, <3>2, UpIs, SizeIs
    <3>4. Translate(mem', walk.root, p) = Pte(n, walk.flags)
      BY <2>3, <2>8, <3>1, <3>3 DEF Translate
    <3> QED
      BY <2>7, <2>17, <2>20, <3>2, <3>4
  <2> QED
    BY <1>2, <1>3, <2>9, <2>10, <2>15, <2>16, <2>18, <2>19, <2>21, RootStep
<1> QED
  BY <1>4, <1>5

\* The place of the directory that a walk, also one of dune_vm_free, is in.
LEMMA DirAt ==
    ASSUME MemOK, TreeInv, WalkOK, walk # None, walk.cb # "put"
    PROVE  /\ Here \in Frames /\ Idx \in Index /\ Entry \in {None} \cup Entries
           /\ walk.root \in Frames /\ place[walk.root] = Place(walk.root, Top, 0)
           /\ walk.top \in 1..Top /\ walk.level \in 0..walk.top
           /\ place[Here] # None /\ place[Here].root = walk.root /\ place[Here] \in Places
           /\ place[Here].level = walk.level + (Top - walk.top) /\ place[Here].up = Up(walk.level + 1, walk.cur)
<1>1. Here \in Frames /\ Idx \in Index /\ walk.cur \in Nat
  BY WalkFacts
<1>2. PICK r \in Frames : r = walk.root
  BY DEF WalkOK, Walks
<1>3. place[r] = Place(r, Top, 0)
  <2>1. r \in roots \cup Dying
    BY <1>2 DEF WalkOK, Dying
  <2>2. Hung(mem, place, own, roots, roots \cup Dying)
    BY StateTree
  <2> QED
    BY <2>1, <2>2 DEF Hung
<1>4. PICK top \in 1..Top : top = walk.top
  BY DEF WalkOK, Walks
<1>5. PICK l \in 0..top : l = walk.level
  BY <1>4 DEF WalkOK
<1>6. PICK c \in Nat : c = walk.cur
  BY <1>1
<1>7. PICK ds \in [Levels -> Frames] : ds = walk.dirs
  BY DEF WalkOK, Walks
<1>8. Up(top + 1, c) = 0
  <2>1. CASE walk.cb = "destroy"
    BY <1>4, <1>6, <2>1 DEF WalkOK
  <2>2. CASE walk.cb # "destroy"
    <3>1. walk.top = Top /\ walk.cur \in Pages
      BY <2>2 DEF WalkOK, Walks
    <3> QED
      BY <1>4, <1>6, <3>1, PageNat DEF Top
  <2> QED
    BY <2>1, <2>2
<1>9. Chain(mem, r, c, top, l, ds) /\ TreeFor(mem, place)
  BY <1>2, <1>4, <1>5, <1>6, <1>7, StateTree DEF WalkOK
<1>10. \A k \in l..top : place[ds[k]] = Place(r, k + (Top - top), Up(k + 1, c))
  <2>1. PICK m : m = mem
    OBVIOUS
  <2>2. PICK pl : pl = place
    OBVIOUS
  <2>3. TreeFor(m, pl) /\ Chain(m, r, c, top, l, ds) /\ pl[r] = Place(r, Top, 0)
    BY <1>3, <1>9, <2>1, <2>2
  <2>4. \A k \in l..top : pl[ds[k]] = Place(r, k + (Top - top), Up(k + 1, c))
    BY <1>8, <2>3, ChainPlaces
  <2> QED
    BY <2>2, <2>4
<1>11. place[ds[l]] = Place(r, l + (Top - top), Up(l + 1, c))
  BY <1>10
<1>12. l + (Top - top) \in Levels /\ Up(l + 1, c) \in Nat
  <2>1. l + 1 \in 0..4 /\ l + (Top - top) \in Levels
    BY DEF Levels, Top
  <2> QED
    BY <2>1, UpType
<1>13. /\ place[Here] # None /\ place[Here].root = r /\ place[Here] \in Places
       /\ place[Here].level = l + (Top - top) /\ place[Here].up = Up(l + 1, c)
  BY <1>5, <1>7, <1>11, <1>12, PlaceType DEF Here
<1>14. Entry \in {None} \cup Entries
  BY <1>1 DEF Entry, MemOK
<1> QED
  BY <1>1, <1>2, <1>3, <1>4, <1>5, <1>6, <1>13, <1>14

\* WalkDown keeps the invariant.
LEMMA DownStep ==
    ASSUME PtInv, WalkDown
    PROVE  PtInv'
<1>1. /\ MemOK /\ TreeInv /\ CountInv /\ PoolInv /\ WalkOK /\ ReadyPhys /\ ReadyPages /\ ReadyWhole
      /\ ReadyClone /\ ReadyFree /\ LookOK /\ Flat
  BY DEF PtInv
<1>2. /\ walk # None /\ look = None /\ walk.cb # "put" /\ ~IsLeafHere /\ walk.level > 0
      /\ pte_present(Entry)
  BY DEF WalkDown, Inner, Walking
<1>3. UNCHANGED <<mem, ref, free, pins, roots, look, proc, want, place, frees>>
  BY DEF WalkDown
<1>4. walk' = [walk EXCEPT !.level = walk.level - 1, !.dirs = [walk.dirs EXCEPT ![walk.level - 1] = Entry.frame]]
  BY DEF WalkDown
<1>5. /\ Here \in Frames /\ Idx \in Index /\ walk.root \in Frames /\ walk.top \in 1..Top
      /\ walk.level \in 0..walk.top /\ place[Here] # None
      /\ place[Here].level = walk.level + (Top - walk.top)
  BY <1>1, <1>2, DirAt
<1>6. walk.level \in 1..walk.top /\ place[Here].level > 0 /\ Entry # None /\ place[Here].level \in 1..Top
  BY <1>2, <1>5 DEF Top, pte_present
<1>7. ~pte_big(Entry)
  <2>1. walk.level \in {1, 2} => ~pte_big(Entry)
    BY <1>2 DEF IsLeafHere
  <2>2. walk.level \notin {1, 2} => place[Here].level = Top
    BY <1>5, <1>6 DEF Top
  <2>3. Tree(mem, place)
    BY <1>1 DEF TreeInv
  <2>4. pte_big(Entry) => place[Here].level < Top
    BY <1>5, <1>6, <2>3 DEF Tree, EntryOK, Entry
  <2> QED
    BY <1>6, <2>1, <2>2, <2>4 DEF Top
<1>8. Entry.frame \in Frames
  BY <1>1, <1>5, <1>6, <1>7, StateTree, TableChild DEF Entry
<1>9. PICK top \in 1..Top : top = walk.top
  BY <1>5
<1>10. PICK l \in 1..top : l = walk.level
  BY <1>6, <1>9
<1>11. PICK c \in Nat : c = walk.cur
  BY <1>1, <1>2, WalkFacts
<1>12. PICK ds \in [Levels -> Frames] : ds = walk.dirs
  BY <1>1, <1>2 DEF WalkOK, Walks
<1>13. PICK e : e = mem[ds[l]][PDX(l, c)]
  OBVIOUS
<1>14. e = Entry
  BY <1>10, <1>11, <1>12, <1>13 DEF Entry, Here, Idx
<1>15. PICK es : es = [ds EXCEPT ![l - 1] = e.frame]
  OBVIOUS
<1>16. Chain(mem, walk.root, c, top, l, ds)
  BY <1>1, <1>2, <1>9, <1>10, <1>11, <1>12 DEF WalkOK
<1>17. es \in [Levels -> Frames] /\ Chain(mem, walk.root, c, top, l - 1, es)
  BY <1>5, <1>6, <1>7, <1>8, <1>13, <1>14, <1>15, <1>16, ChainDown
<1>18. walk \in Walks
  BY <1>1, <1>2 DEF WalkOK
<1>19. walk' = [walk EXCEPT !.level = l - 1, !.dirs = es]
  BY <1>4, <1>10, <1>12, <1>14, <1>15
<1>20. l - 1 \in Levels /\ l - 1 \in 0..top
  BY DEF Levels, Top
<1>21. /\ walk' \in Walks /\ walk'.level = l - 1 /\ walk'.dirs = es
       /\ walk'.cb = walk.cb /\ walk'.root = walk.root /\ walk'.top = walk.top
       /\ walk'.create = walk.create /\ walk'.hi = walk.hi /\ walk'.flags = walk.flags
       /\ walk'.va = walk.va /\ walk'.pa = walk.pa /\ walk'.to = walk.to /\ walk'.cur = walk.cur
  BY <1>17, <1>18, <1>19, <1>20 DEF Walks
<1>22. walk' # None
  BY <1>21, WalkNotNone
<1>23. WalkOK'
  BY <1>1, <1>2, <1>3, <1>9, <1>11, <1>17, <1>20, <1>21 DEF WalkOK
<1>24. Dying' = Dying
  BY <1>2, <1>21, <1>22 DEF Dying
<1>28. own' = own /\ PoolInv'
  BY <1>1, <1>3, SameOwn
<1>25. TreeInv' /\ CountInv' /\ MemOK' /\ Flat'
  BY <1>1, <1>3, <1>24, <1>28 DEF TreeInv, CountInv, MemOK, Flat
<1>26. ReadyPhys' /\ ReadyPages' /\ ReadyWhole' /\ ReadyClone' /\ ReadyFree'
  BY <1>1, <1>2, <1>3, <1>21 DEF ReadyPhys, ReadyPages, ReadyWhole, ReadyClone, ReadyFree,
     Ahead, Replaceable,
        NoTable, Fresh, Whole
<1>27. LookOK'
  BY <1>2, <1>3 DEF LookOK
<1> QED
  BY <1>23, <1>25, <1>26, <1>27, <1>28 DEF PtInv

-----------------------------------------------------------------------------
(***************************************************************************)
(* The steps that make directories.                                        *)
(***************************************************************************)

\* What Link does.
LEMMA LinkIs ==
    ASSUME MemOK, TreeInv, CountInv, PoolInv, free # {}, NEW n, n = alloc_page,
           NEW d \in Frames, NEW i \in Index, place[d] # None, place[d].level > 0, mem[d][i] = None,
           Link(d, i)
    PROVE  /\ Linked(mem, mem', place, place', d, i, n) /\ mem' \in MemType /\ place' \in PlacesOf
           /\ own' \in [Pool -> Nat] /\ own'[n] = 1 /\ own[n] = 0 /\ n \in Pool /\ PoolInv'
           /\ \A x \in Pool : x # n => own'[x] = own[x]
<1>1. /\ n \in Pool /\ n \in Frames /\ n \in Nat /\ own[n] = 0 /\ place[n] = None
      /\ (\A x \in Frames, j \in Index : place[x] # None /\ mem[x][j] # None /\ ~pte_big(mem[x][j]) => mem[x][j].frame # n)
      /\ Blank \in MemType /\ (\A j \in Index : Blank[n][j] = None)
      /\ \A x \in Frames : x # n => Blank[x] = mem[x]
  BY AllocIs
<1>2. PICK e : e = Pte(n, {"P", "W"})
  OBVIOUS
<1>3. e \in {None} \cup Entries
  <2>1. {"P", "W"} \in SUBSET Flags
    BY DEF Flags
  <2> QED
    BY <1>1, <1>2, <2>1, PteIs
<1>4. PICK m \in MemType : m = Blank
  BY <1>1
<1>5. mem' = Set(m, d, i, e) /\ ref' = Taken /\ free' = free \ {n} /\ pins' = pins
  BY <1>2, <1>4 DEF Link
<1>6. /\ mem' \in MemType /\ mem'[d][i] = e
      /\ \A x \in Frames, j \in Index : ~(x = d /\ j = i) => mem'[x][j] = m[x][j]
  BY <1>3, <1>5, SetIs
<1>7. place' = [place EXCEPT ![n] = Place(place[d].root, place[d].level - 1, place[d].up * W + i)]
  BY DEF Link
<1>8. place \in PlacesOf /\ place[d] \in Places
  BY StateTree DEF PlacesOf
<1>9. Place(place[d].root, place[d].level - 1, place[d].up * W + i) \in Places
  <2>1. place[d].up \in Nat /\ i \in Nat /\ W \in Nat /\ place[d].level \in 0..3 /\ place[d].root \in Frames
    BY <1>8, WNat DEF Places, Levels, Top, Index
  <2>2. PICK u \in Nat : u = place[d].up
    BY <2>1
  <2>3. u * W + i \in Nat
    BY <2>1
  <2>4. place[d].level - 1 \in Levels
    BY <2>1 DEF Levels, Top
  <2> QED
    BY <2>1, <2>2, <2>3, <2>4, PlaceType
<1>10. /\ place' \in PlacesOf
       /\ place'[n] = Place(place[d].root, place[d].level - 1, place[d].up * W + i)
       /\ \A x \in Frames : x # n => place'[x] = place[x]
  BY <1>1, <1>7, <1>8, <1>9 DEF PlacesOf
<1>11. d # n
  BY <1>1
<1>12. Changed(mem, mem', place, d, i) /\ \A j \in Index : mem'[n][j] = None
  BY <1>1, <1>4, <1>6, <1>11 DEF Changed
<1>13. Linked(mem, mem', place, place', d, i, n)
  BY <1>1, <1>2, <1>6, <1>10, <1>12 DEF Linked
<1>14. /\ own' \in [Pool -> Nat] /\ PoolInv' /\ own'[n] = 1
       /\ \A x \in Pool : x # n => own'[x] = own[x]
  BY <1>5, TakeIs DEF PoolInv, own
<1> QED
  BY <1>1, <1>6, <1>10, <1>13, <1>14

\* Link keeps the tree and the counts.
LEMMA LinkKeeps ==
    ASSUME MemOK, TreeInv, CountInv, PoolInv, WalkOK, free # {},
           NEW d \in Frames, NEW i \in Index, place[d] # None, place[d].level > 0, mem[d][i] = None,
           place[d].root \in roots, Link(d, i), roots' = roots, frees' = frees, Dying' = Dying
    PROVE  TreeInv' /\ CountInv'
<1>1. PICK n : n = alloc_page
  OBVIOUS
<1>2. /\ Linked(mem, mem', place, place', d, i, n) /\ mem' \in MemType /\ place' \in PlacesOf
      /\ own' \in [Pool -> Nat] /\ own'[n] = 1 /\ own[n] = 0 /\ n \in Pool
      /\ \A x \in Pool : x # n => own'[x] = own[x]
  BY <1>1, LinkIs
<1>3. PICK m2 \in MemType : m2 = mem'
  BY <1>2
<1>4. PICK pl2 \in PlacesOf : pl2 = place'
  BY <1>2
<1>5. PICK rf2 \in [Pool -> Nat] : rf2 = own'
  BY <1>2
<1>6. /\ Linked(mem, m2, place, pl2, d, i, n) /\ rf2[n] = 1 /\ own[n] = 0 /\ n \in Pool /\ rf2[n] > 0
      /\ \A x \in Pool : x # n => rf2[x] = own[x]
  BY <1>2, <1>3, <1>4, <1>5
<1>7. /\ TreeFor(mem, place) /\ place \in PlacesOf /\ own \in [Pool -> Nat] /\ roots \subseteq roots \cup Dying
      /\ Hung(mem, place, own, roots, roots \cup Dying) /\ roots \cup Dying \subseteq Frames
  <2>1. Dying \subseteq Frames
    BY DEF Dying, WalkOK, Walks
  <2> QED
    BY <2>1, StateTree DEF MemOK
<1>8. TreeFor(m2, pl2)
  BY <1>6, <1>7, LinkTree
<1>9. Hung(m2, pl2, rf2, roots, roots \cup Dying)
  BY <1>6, <1>7, LinkHung
<1>10. PICK exact : exact = (frees = 0)
  OBVIOUS
<1>11. Counted(mem, place, own, exact)
  BY <1>10 DEF CountInv
<1>12. Counted(m2, pl2, rf2, exact)
  BY <1>6, <1>7, <1>11, LinkCount
<1>13. TreeInv'
  BY <1>3, <1>4, <1>5, <1>8, <1>9 DEF TreeInv, TreeFor
<1>14. CountInv'
  BY <1>3, <1>4, <1>5, <1>10, <1>12 DEF CountInv
<1> QED
  BY <1>13, <1>14

\* A new directory below a path: nothing that is mapped changes.
LEMMA LinkStep ==
    ASSUME PtInv, free # {}, NEW r \in roots, NEW c \in Pages, NEW l \in 1..Top,
           NEW ds \in [Levels -> Frames], Chain(mem, r, c, Top, l, ds),
           mem[ds[l]][PDX(l, c)] = None, Link(ds[l], PDX(l, c)),
           UNCHANGED <<roots, walk, look, proc, want, frees>>,
           walk # None => walk.cb \notin {"destroy", "put"},
           walk # None /\ walk.cb = "map_phys" /\ walk.create # 0 => walk.create <= l - 1
    PROVE  PtInv'
<1>1. /\ MemOK /\ TreeInv /\ CountInv /\ PoolInv /\ WalkOK /\ ReadyPhys /\ ReadyPages /\ ReadyWhole
      /\ ReadyClone /\ ReadyFree /\ LookOK /\ Flat
  BY DEF PtInv
<1>2. r \in Frames /\ place[r] = Place(r, Top, 0) /\ TreeFor(mem, place)
      /\ \A t \in roots : t \in Frames /\ place[t] = Place(t, Top, 0)
  BY <1>1, StateTree
<1>3. l \in Levels /\ c \in Nat /\ Up(4, c) = 0
  BY PageNat DEF Levels, Top
<1>4. PICK d \in Frames : d = ds[l]
  BY <1>3
<1>5. PICK i \in Index : i = PDX(l, c)
  BY <1>3, UpNext
<1>6. \A k \in l..Top : place[ds[k]] = Place(r, k + (Top - Top), Up(k + 1, c))
  BY <1>2, <1>3, ChainPlaces DEF Top, Levels
<1>7. place[d] = Place(r, l, Up(l + 1, c)) /\ Up(l + 1, c) \in Nat
  <2>1. place[ds[l]] = Place(r, l, Up(l + 1, c)) /\ l + 1 \in 0..4
    BY <1>6 DEF Top, Levels
  <2> QED
    BY <1>3, <1>4, <2>1, UpType
<1>8. place[d] # None /\ place[d].level = l /\ place[d].root = r /\ place[d].level > 0 /\ place[d].root \in roots
  BY <1>2, <1>3, <1>7, PlaceType
<1>9. mem[d][i] = None /\ Link(d, i)
  BY <1>4, <1>5
<1>10. Dying' = Dying
  BY DEF Dying
<1>11. TreeInv' /\ CountInv'
  BY <1>1, <1>8, <1>9, <1>10, LinkKeeps
<1>12. PICK n : n = alloc_page
  OBVIOUS
<1>13. /\ Linked(mem, mem', place, place', d, i, n) /\ mem' \in MemType /\ place' \in PlacesOf
       /\ own' \in [Pool -> Nat] /\ n \in Pool /\ PoolInv'
  BY <1>1, <1>8, <1>9, <1>12, LinkIs
<1>14. PICK m2 : m2 = mem'
  OBVIOUS
<1>15. OneLink(mem, m2, place, place', r, c, l, ds, n)
  BY <1>2, <1>4, <1>5, <1>13, <1>14 DEF OneLink
<1>16. ASSUME NEW t \in roots, NEW p \in Pages
       PROVE  /\ LeafEntry(mem', t, p) = LeafEntry(mem, t, p) /\ Translate(mem', t, p) = Translate(mem, t, p)
              /\ LeafEntry(mem, t, p) # None => Leaf(mem', t, p) = Leaf(mem, t, p)
              /\ Leaf(mem', t, p) = Leaf(mem, t, p) \/ Leaf(mem', t, p).level = l - 1
  BY <1>2, <1>14, <1>15, LinkPaths
<1>17. MemOK'
  BY <1>1, <1>13 DEF MemOK, MemType, PlacesOf
<1>18. Flat'
  BY <1>1, <1>16 DEF Flat
<1>19. WalkOK'
  <2> SUFFICES ASSUME walk # None PROVE Chain(mem', walk.root, walk.cur, walk.top, walk.level, walk.dirs)
    BY <1>1 DEF WalkOK
  <2>1. /\ walk.root \in roots /\ walk.top = Top /\ walk.cur \in Pages /\ walk.level \in Levels
        /\ walk.dirs \in [Levels -> Frames] /\ Chain(mem, walk.root, walk.cur, Top, walk.level, walk.dirs)
    BY <1>1 DEF WalkOK, Walks
  <2>2. Chain(m2, walk.root, walk.cur, Top, walk.level, walk.dirs)
    BY <1>2, <1>15, <2>1, LinkChain
  <2> QED
    BY <1>14, <2>1, <2>2
<1>20. ASSUME walk # None
       PROVE  /\ walk.root \in roots /\ walk.cur \in Nat /\ walk.hi \in Pages
              /\ \A p \in Ahead : p \in Pages
  <2>1. walk.root \in roots /\ walk.cur \in Nat /\ walk.hi \in Pages
    BY <1>1, <1>20, PageNat DEF WalkOK, Walks
  <2> QED
    BY <2>1, PageBelow DEF Ahead
<1>21. ReadyPhys'
  <2> SUFFICES ASSUME walk # None, walk.cb = "map_phys", NEW p \in Ahead
               PROVE  IF walk.create = 0 THEN Replaceable(walk.root, p)'
                      ELSE NoTable(walk.root, p, walk.create)'
    BY <1>1 DEF ReadyPhys, Ahead
  <2>1. CASE walk.create = 0
    <3>1. Replaceable(walk.root, p)
      BY <1>1, <2>1 DEF ReadyPhys
    <3> QED
      BY <1>16, <1>20, <2>1, <3>1 DEF Replaceable
  <2>2. CASE walk.create # 0
    <3>1. NoTable(walk.root, p, walk.create)
      BY <1>1, <2>2 DEF ReadyPhys
    <3>2. walk.create \in {1, 2} /\ walk.create <= l - 1
      BY <1>1, <2>2, NotBelow
    <3> QED
      BY <1>16, <1>20, <2>2, <3>1, <3>2 DEF NoTable, Fresh
  <2> QED
    BY <2>1, <2>2
<1>22. ReadyPages'
  BY <1>1, <1>16, <1>20 DEF ReadyPages, Fresh, Ahead
<1>23. ReadyWhole'
  <2> SUFFICES ASSUME walk # None, walk.cb \in {"mprotect", "free", "clone"}, NEW p \in Ahead
               PROVE  Whole(walk.root, p, walk.cur, walk.hi)'
    BY <1>1 DEF ReadyWhole, Ahead
  <2>1. Whole(walk.root, p, walk.cur, walk.hi)
    BY <1>1 DEF ReadyWhole
  <2> QED
    BY <1>16, <1>20, <2>1 DEF Whole, pte_big
<1>24. ReadyClone'
  BY <1>1, <1>16, <1>20 DEF ReadyClone, Fresh, Ahead
<1>26. ReadyFree'
  BY <1>1, <1>16, <1>20 DEF ReadyFree, Ahead
<1>25. LookOK'
  <2> SUFFICES ASSUME look # None
               PROVE  /\ Chain(mem', look.root, look.page, Top, look.level, look.dirs)
                      /\ Fresh(look.root, look.page)'
                      /\ walk # None => IsLeafHere'
    BY <1>1 DEF LookOK, Base
  <2>1. /\ look.root \in roots /\ look.page \in Pages /\ look.level \in Levels
        /\ look.dirs \in [Levels -> Frames] /\ Chain(mem, look.root, look.page, Top, look.level, look.dirs)
        /\ Fresh(look.root, look.page)
    BY <1>1 DEF LookOK, Looks
  <2>2. Chain(m2, look.root, look.page, Top, look.level, look.dirs)
    BY <1>2, <1>15, <2>1, LinkChain
  <2>3. Fresh(look.root, look.page)'
    BY <1>16, <2>1 DEF Fresh
  <2>4. ASSUME walk # None PROVE IsLeafHere'
    <3>1. IsLeafHere /\ walk.cb = "clone" /\ walk.cb \notin {"destroy", "put"}
      BY <1>1, <2>4 DEF LookOK
    <3>2. Entry # None
      BY <1>1, <2>4, <3>1, LeafWhole
    <3>3. Here \in Frames /\ Idx \in Index /\ place[Here] # None
      BY <1>1, <2>4, <3>1, AtEntry
    <3>4. ~(Here = d /\ Idx = i)
      BY <1>9, <3>2 DEF Entry
    <3>5. mem'[Here][Idx] = mem[Here][Idx]
      BY <1>13, <3>3, <3>4 DEF Linked, Changed
    <3>6. Entry' = Entry
      BY <3>5 DEF Entry, Here, Idx
    <3> QED
      BY <3>1, <3>6 DEF IsLeafHere
  <2> QED
    BY <1>14, <2>2, <2>3, <2>4
<1> QED
  BY <1>11, <1>13, <1>17, <1>18, <1>19, <1>21, <1>22, <1>23, <1>24, <1>25, <1>26 DEF PtInv

\* WalkLink keeps the invariant.
LEMMA WalkLinkStep ==
    ASSUME PtInv, WalkLink
    PROVE  PtInv'
<1>1. MemOK /\ TreeInv /\ WalkOK /\ ReadyPhys
  BY DEF PtInv
<1>2. /\ walk # None /\ look = None /\ walk.cb # "put" /\ ~IsLeafHere /\ walk.level > 0
      /\ ~pte_present(Entry) /\ walk.create # None
  BY DEF WalkLink, Inner, Walking
<1>3. walk.cb \notin {"destroy", "put"}
  BY <1>1, <1>2 DEF WalkOK
<1>4. CASE free = {}
  <2>1. walk' = None /\ UNCHANGED <<mem, ref, free, pins, roots, look, proc, want, place, frees>>
    BY <1>4 DEF WalkLink
  <2> QED
    BY <1>2, <1>3, <2>1, StopStep
<1>5. CASE free # {}
  <2>1. Link(Here, Idx) /\ UNCHANGED <<roots, walk, look, proc, want, frees>>
    BY <1>5 DEF WalkLink
  <2>2. PICK l \in 1..Top : l = walk.level
    BY <1>1, <1>2 DEF WalkOK, Walks, Levels
  <2>3. PICK c \in Pages : c = walk.cur
    BY <1>1, <1>2 DEF WalkOK, Walks
  <2>4. PICK ds \in [Levels -> Frames] : ds = walk.dirs
    BY <1>1, <1>2 DEF WalkOK, Walks
  <2>5. PICK r \in roots : r = walk.root /\ walk.top = Top
    BY <1>1, <1>2, <1>3 DEF WalkOK
  <2>6. Chain(mem, r, c, Top, l, ds)
    BY <1>1, <1>2, <2>2, <2>3, <2>4, <2>5 DEF WalkOK
  <2>7. walk.level \in {1, 2} \/ walk.level = Top
    BY <2>2 DEF Top
  <2>8. ~pte_big(Entry)
    <3>1. walk.level \in {1, 2} => ~pte_big(Entry)
      BY <1>2 DEF IsLeafHere
    <3>2. pte_big(Entry) => walk.level < Top
      BY <1>1, <1>2, <1>3, AtEntry
    <3> QED
      BY <2>7, <3>1, <3>2 DEF Top
  <2>9. Entry = None
    BY <1>1, <1>2, <1>3, <2>8, AtEntry
  <2>10. mem[ds[l]][PDX(l, c)] = None /\ Link(ds[l], PDX(l, c))
    BY <2>1, <2>2, <2>3, <2>4, <2>9 DEF Entry, Here, Idx
  <2>11. walk.cb = "map_phys" /\ walk.create # 0 => walk.create <= l - 1
    <3> SUFFICES ASSUME walk.cb = "map_phys", walk.create # 0 PROVE walk.create <= l - 1
      OBVIOUS
    <3>1. walk.create \in {1, 2} /\ walk.create <= walk.level
      BY <1>1, <1>2, NotBelow
    <3>2. walk.level \in {1, 2} => walk.create # walk.level
      BY <1>2 DEF IsLeafHere
    <3> QED
      BY <2>2, <2>7, <3>1, <3>2 DEF Top
  <2> QED
    BY <1>3, <1>5, <2>1, <2>6, <2>10, <2>11, LinkStep
<1> QED
  BY <1>4, <1>5

-----------------------------------------------------------------------------
(***************************************************************************)
(* Lookups: dune_vm_clone and the fault handlers.                          *)
(***************************************************************************)

\* Where a lookup is.
LEMMA LookFacts ==
    ASSUME PtInv, look # None
    PROVE  /\ look \in Looks /\ look.root \in roots /\ look.page \in Pages /\ look.level \in Levels
           /\ look.dirs \in [Levels -> Frames] /\ Chain(mem, look.root, look.page, Top, look.level, look.dirs)
           /\ LookDir \in Frames /\ LookIdx \in Index /\ place[LookDir] # None
           /\ place[LookDir].level = look.level /\ place[LookDir].root = look.root
           /\ look.level > 0 /\ LookEntry # None /\ ~pte_big(LookEntry) => pte_present(LookEntry) /\ LookEntry.frame \in Frames
           /\ look.level > 0 => ~pte_big(LookEntry)
           /\ walk # None => walk.cb \notin {"destroy", "put"} /\ walk.cb # "map_phys"
           /\ Fresh(look.root, look.page)
<1>1. MemOK /\ TreeInv /\ LookOK
  BY DEF PtInv
<1>2. /\ look \in Looks /\ look.root \in roots /\ look.page \in Pages /\ look.level \in Levels
      /\ look.dirs \in [Levels -> Frames] /\ Chain(mem, look.root, look.page, Top, look.level, look.dirs)
      /\ Fresh(look.root, look.page)
  BY <1>1 DEF LookOK, Looks
<1>3. PICK r \in Frames : r = look.root /\ place[r] = Place(r, Top, 0)
  BY <1>1, <1>2, StateTree
<1>4. PICK c \in Pages : c = look.page
  BY <1>2
<1>5. PICK l \in Levels : l = look.level
  BY <1>2
<1>6. PICK ds \in [Levels -> Frames] : ds = look.dirs
  BY <1>2
<1>7. Chain(mem, r, c, Top, l, ds) /\ c \in Nat /\ Up(4, c) = 0 /\ TreeFor(mem, place)
  BY <1>1, <1>2, <1>3, <1>4, <1>5, <1>6, PageNat, StateTree
<1>8. \A k \in l..Top : place[ds[k]] = Place(r, k + (Top - Top), Up(k + 1, c))
  BY <1>3, <1>7, ChainPlaces DEF Top, Levels
<1>9. place[ds[l]] = Place(r, l, Up(l + 1, c)) /\ l + 1 \in 0..4
  BY <1>8 DEF Top, Levels
<1>10. Up(l + 1, c) \in Nat
  BY <1>7, <1>9, UpType
<1>11. place[LookDir] # None /\ place[LookDir].level = l /\ LookDir \in Frames /\ place[LookDir].root = look.root
  BY <1>3, <1>5, <1>6, <1>9, <1>10, PlaceType DEF LookDir
<1>12. LookIdx \in Index
  BY <1>4, <1>5, <1>7, UpNext DEF LookIdx
<1>13. l > 0 /\ LookEntry # None /\ ~pte_big(LookEntry) =>
            LookEntry.flags = {"P", "W"} /\ LookEntry.frame \in Frames
  BY <1>7, <1>11, <1>12, TableChild DEF LookEntry
<1>14. l > 0 => ~pte_big(LookEntry)
  <2> SUFFICES ASSUME l > 0, pte_big(LookEntry) PROVE FALSE
    OBVIOUS
  <2>1. LookEntry = mem[ds[l]][PDX(l, c)]
    BY <1>4, <1>5, <1>6 DEF LookEntry, LookDir, LookIdx
  <2>2. IsTable(l, LookEntry) <=> LookEntry # None /\ ~pte_big(LookEntry)
    BY <1>7, <1>11, <1>12, TableMeans DEF LookEntry
  <2>3. Ends(mem, c, l, ds)
    BY <2>1, <2>2 DEF Ends
  <2>4. LeafEntry(mem, r, c) = LookEntry
    BY <1>7, <2>1, <2>3, ChainLeaf
  <2> QED
    BY <1>2, <1>3, <1>4, <2>4 DEF Fresh, pte_big
<1>15. walk # None => walk.cb \notin {"destroy", "put"} /\ walk.cb # "map_phys"
  BY <1>1 DEF LookOK
<1> QED
  BY <1>2, <1>5, <1>11, <1>12, <1>13, <1>14, <1>15 DEF pte_present

\* LookLink keeps the invariant.
LEMMA LookLinkStep ==
    ASSUME PtInv, LookLink
    PROVE  PtInv'
<1>1. look # None /\ ~Found /\ ~pte_present(LookEntry) /\ proc = "run"
  BY DEF LookLink, Looking
<1>2. CASE free = {}
  <2>1. proc' = "null" /\ UNCHANGED <<mem, ref, free, pins, roots, walk, look, want, place, frees>>
    BY <1>2 DEF LookLink
  <2>5. own' = own /\ PoolInv'
    BY <2>1, SameOwn DEF PtInv
  <2>2. MemOK' /\ TreeInv' /\ CountInv' /\ Flat' /\ WalkOK'
    BY <2>1, <2>5 DEF PtInv, MemOK, TreeInv, CountInv, Flat, WalkOK, Dying
  <2>3. ReadyPhys' /\ ReadyPages' /\ ReadyWhole' /\ ReadyClone' /\ ReadyFree'
    BY <2>1 DEF PtInv, ReadyPhys, ReadyPages, ReadyWhole, ReadyClone, ReadyFree, Ahead,
       Replaceable,
        NoTable, Fresh, Whole
  <2>4. LookOK'
    BY <2>1 DEF PtInv, LookOK, Fresh, IsLeafHere, Entry, Here, Idx, Base
  <2> QED
    BY <2>2, <2>3, <2>4, <2>5 DEF PtInv
<1>3. CASE free # {}
  <2>1. Link(LookDir, LookIdx) /\ UNCHANGED <<roots, walk, look, proc, want, frees>>
    BY <1>3 DEF LookLink
  <2>2. look.level \in 1..Top
    BY <1>1, LookFacts DEF Found, Looking, Levels, Top
  <2>3. LookEntry = None
    BY <1>1, <2>2, LookFacts
  <2>4. PICK l \in 1..Top : l = look.level
    BY <2>2
  <2>5. PICK c \in Pages : c = look.page
    BY <1>1, LookFacts
  <2>6. PICK ds \in [Levels -> Frames] : ds = look.dirs
    BY <1>1, LookFacts
  <2>7. PICK r \in roots : r = look.root
    BY <1>1, LookFacts
  <2>8. Chain(mem, r, c, Top, l, ds)
    BY <1>1, <2>4, <2>5, <2>6, <2>7, LookFacts
  <2>9. mem[ds[l]][PDX(l, c)] = None /\ Link(ds[l], PDX(l, c))
    BY <2>1, <2>3, <2>4, <2>5, <2>6 DEF LookEntry, LookDir, LookIdx
  <2>10. walk # None => walk.cb \notin {"destroy", "put"} /\ walk.cb # "map_phys"
    BY <1>1, LookFacts
  <2> QED
    BY <1>3, <2>1, <2>8, <2>9, <2>10, LinkStep
<1> QED
  BY <1>2, <1>3

\* LookDown keeps the invariant.
LEMMA LookDownStep ==
    ASSUME PtInv, LookDown
    PROVE  PtInv'
<1>1. look # None /\ ~Found /\ pte_present(LookEntry) /\ proc = "run"
  BY DEF LookDown, Looking
<1>2. UNCHANGED <<mem, ref, free, pins, roots, walk, proc, want, place, frees>>
  BY DEF LookDown
<1>3. look' = [look EXCEPT !.level = look.level - 1, !.dirs = [look.dirs EXCEPT ![look.level - 1] = LookEntry.frame]]
  BY DEF LookDown
<1>4. look.level \in 1..Top
  BY <1>1, LookFacts DEF Found, Looking, Levels, Top
<1>5. PICK l \in 1..Top : l = look.level
  BY <1>4
<1>6. PICK c \in Nat : c = look.page
  BY <1>1, LookFacts, PageNat
<1>7. PICK ds \in [Levels -> Frames] : ds = look.dirs
  BY <1>1, LookFacts
<1>8. PICK e : e = mem[ds[l]][PDX(l, c)]
  OBVIOUS
<1>9. e = LookEntry
  BY <1>5, <1>6, <1>7, <1>8 DEF LookEntry, LookDir, LookIdx
<1>10. e # None /\ ~pte_big(e) /\ e.frame \in Frames
  <2>1. LookEntry # None /\ look.level > 0
    BY <1>1, <1>4 DEF pte_present
  <2> QED
    BY <1>1, <1>9, <2>1, LookFacts
<1>11. PICK es : es = [ds EXCEPT ![l - 1] = e.frame]
  OBVIOUS
<1>12. PICK r \in Frames : r = look.root
  BY <1>1, LookFacts, StateTree DEF PtInv
<1>13. Chain(mem, r, c, Top, l, ds)
  BY <1>1, <1>5, <1>6, <1>7, <1>12, LookFacts
<1>14. Top \in 1..Top /\ l - 1 \in Levels
  BY DEF Top, Levels
<1>15. es \in [Levels -> Frames] /\ Chain(mem, r, c, Top, l - 1, es)
  BY <1>8, <1>10, <1>11, <1>13, <1>14, ChainDown
<1>16. look' = [look EXCEPT !.level = l - 1, !.dirs = es]
  BY <1>3, <1>5, <1>7, <1>9, <1>11
<1>17. /\ look' \in Looks /\ look'.level = l - 1 /\ look'.dirs = es /\ look'.root = look.root
       /\ look'.page = look.page
  BY <1>1, <1>14, <1>15, <1>16, LookFacts DEF Looks
<1>18. LookOK'
  BY <1>1, <1>2, <1>6, <1>12, <1>15, <1>17 DEF PtInv, LookOK, Fresh, IsLeafHere,
     Entry, Here, Idx, Base
<1>30. own' = own /\ PoolInv'
  BY <1>2, SameOwn DEF PtInv
<1>19. MemOK' /\ TreeInv' /\ CountInv' /\ Flat' /\ WalkOK'
  BY <1>2, <1>30 DEF PtInv, MemOK, TreeInv, CountInv, Flat, WalkOK, Dying
<1>20. ReadyPhys' /\ ReadyPages' /\ ReadyWhole' /\ ReadyClone' /\ ReadyFree'
  BY <1>2 DEF PtInv, ReadyPhys, ReadyPages, ReadyWhole, ReadyClone, ReadyFree, Ahead,
        Replaceable, NoTable, Fresh, Whole
<1> QED
  BY <1>18, <1>19, <1>20, <1>30 DEF PtInv

\* A lookup that begins.
LEMMA LookupIs ==
    ASSUME NEW r \in Frames, NEW p \in Pages, NEW k, k = Lookup(r, p)
    PROVE  /\ k \in Looks /\ k.root = r /\ k.page = p /\ k.level = Top
           /\ \A m : Chain(m, r, p, Top, k.level, k.dirs)
<1>1. Top \in Levels /\ Top \in 1..Top
  BY DEF Levels, Top
<1>2. k \in Looks /\ k.root = r /\ k.page = p /\ k.level = Top /\ k.dirs = [l \in Levels |-> r]
  BY <1>1 DEF Lookup, Looks
<1>3. ASSUME NEW m PROVE Chain(m, r, p, Top, Top, k.dirs)
  BY <1>1, <1>2, StartChain
<1> QED
  BY <1>2, <1>3

\* CloneLooks keeps the invariant.
LEMMA CloneLooksStep ==
    ASSUME PtInv, CloneLooks
    PROVE  PtInv'
<1>1. MemOK /\ TreeInv /\ WalkOK /\ ReadyWhole /\ ReadyClone
  BY DEF PtInv
<1>2. walk # None /\ look = None /\ walk.cb = "clone" /\ IsLeafHere
  BY DEF CloneLooks, AtLeaf, Walking
<1>3. UNCHANGED <<mem, ref, free, pins, roots, walk, proc, want, place, frees>> /\ look' = Lookup(walk.to, Base)
  BY DEF CloneLooks
<1>4. walk.cur \in Pages /\ walk.cur \in Ahead
  BY <1>1, <1>2, PageNat DEF WalkOK, Walks, Ahead
<1>5. ChunkIn(walk.level, walk.cur, walk.cur, walk.hi)
  BY <1>1, <1>2, LeafWhole
<1>6. Base = walk.cur
  BY <1>1, <1>2, <1>4, <1>5, ChunkNow
<1>7. walk.to \in roots /\ walk.to \in Frames /\ Fresh(walk.to, walk.cur)
  BY <1>1, <1>2, <1>4, StateTree DEF ReadyClone
<1>8. PICK k : k = look'
  OBVIOUS
<1>9. k = Lookup(walk.to, walk.cur)
  BY <1>3, <1>6, <1>8
<1>10. /\ k \in Looks /\ k.root = walk.to /\ k.page = walk.cur /\ k.level = Top
       /\ \A m : Chain(m, walk.to, walk.cur, Top, k.level, k.dirs)
  <2>1. PICK r \in Frames : r = walk.to
    BY <1>7
  <2>2. PICK c \in Pages : c = walk.cur
    BY <1>4
  <2>3. k = Lookup(r, c)
    BY <1>9, <2>1, <2>2
  <2>4. /\ k \in Looks /\ k.root = r /\ k.page = c /\ k.level = Top
        /\ \A m : Chain(m, r, c, Top, k.level, k.dirs)
    BY <2>3, LookupIs
  <2> QED
    BY <2>1, <2>2, <2>4
<1>11. LookOK'
  <2>1. Chain(mem, walk.to, walk.cur, Top, k.level, k.dirs)
    BY <1>10
  <2>2. IsLeafHere' /\ Base' = Base
    BY <1>2, <1>3 DEF IsLeafHere, Entry, Here, Idx, Base
  <2>3. Fresh(look.root, look.page)'
    BY <1>3, <1>7, <1>8, <1>10 DEF Fresh
  <2> QED
    BY <1>2, <1>3, <1>6, <1>7, <1>8, <1>10, <2>1, <2>2, <2>3 DEF LookOK
<1>30. own' = own /\ PoolInv'
  BY <1>3, SameOwn DEF PtInv
<1>12. MemOK' /\ TreeInv' /\ CountInv' /\ Flat' /\ WalkOK'
  BY <1>3, <1>30 DEF PtInv, MemOK, TreeInv, CountInv, Flat, WalkOK, Dying
<1>13. ReadyPhys' /\ ReadyPages' /\ ReadyWhole' /\ ReadyClone' /\ ReadyFree'
  BY <1>3 DEF PtInv, ReadyPhys, ReadyPages, ReadyWhole, ReadyClone, ReadyFree, Ahead,
        Replaceable, NoTable, Fresh, Whole
<1> QED
  BY <1>11, <1>12, <1>13, <1>30 DEF PtInv

\* The ranges of the calls are ranges of pages.
LEMMA RangePages ==
    ASSUME NEW range \in Ranges \cup BigRanges \cup GiantRanges \cup {PoolRange}
    PROVE  range[1] \in Pages /\ range[2] \in Pages /\ range[1] <= range[2] /\ range = <<range[1], range[2]>>
<1>1. range \in {r \in Pages \X Pages : r[1] <= r[2]}
  BY PageTableAssumption
<1> QED
  BY <1>1

\* FillLooks keeps the invariant.
LEMMA FillLooksStep ==
    ASSUME PtInv, NEW p \in Pages, FillLooks(p)
    PROVE  PtInv'
<1>1. walk = None /\ look = None /\ Fresh(pgroot, p)
  BY DEF FillLooks, Begin
<1>2. UNCHANGED <<mem, ref, free, pins, roots, walk, proc, want, place, frees>> /\ look' = Lookup(pgroot, p)
  BY DEF FillLooks
<1>3. pgroot \in roots /\ pgroot \in Frames
  BY PoolFrames DEF PtInv, MemOK
<1>4. PICK k : k = look'
  OBVIOUS
<1>5. k = Lookup(pgroot, p)
  BY <1>2, <1>4
<1>6. /\ k \in Looks /\ k.root = pgroot /\ k.page = p /\ k.level = Top
      /\ \A m : Chain(m, pgroot, p, Top, k.level, k.dirs)
  BY <1>3, <1>5, LookupIs
<1>7. LookOK'
  <2>1. Chain(mem, pgroot, p, Top, k.level, k.dirs)
    BY <1>6
  <2>2. Fresh(look.root, look.page)'
    BY <1>1, <1>2, <1>4, <1>6 DEF Fresh
  <2> QED
    BY <1>1, <1>2, <1>3, <1>4, <1>6, <2>1, <2>2 DEF LookOK
<1>10. own' = own /\ PoolInv'
  BY <1>2, SameOwn DEF PtInv
<1>8. MemOK' /\ TreeInv' /\ CountInv' /\ Flat' /\ WalkOK'
  BY <1>2, <1>10 DEF PtInv, MemOK, TreeInv, CountInv, Flat, WalkOK, Dying
<1>9. ReadyPhys' /\ ReadyPages' /\ ReadyWhole' /\ ReadyClone' /\ ReadyFree'
  BY <1>1, <1>2 DEF ReadyPhys, ReadyPages, ReadyWhole, ReadyClone, ReadyFree
<1> QED
  BY <1>7, <1>8, <1>9, <1>10 DEF PtInv

\* A fault handler changes the entry of one page of pgroot.
LEMMA PageStep ==
    ASSUME PtInv, walk = None, walk' = None, look' = None, NEW c \in Pages, NEW ds,
           OneEntry(mem, mem', place, pgroot, c, 0, ds), own' \in [Pool -> Nat], PoolInv',
           NEW e \in Entries, mem'[ds[0]][PDX(0, c)] = e,
           Balanced(mem, mem', own, own', ds[0], PDX(0, c)),
           roots' = roots, place' = place, frees' = frees,
           proc' \in {"run", "die", "null"},
           want' = [want EXCEPT ![pgroot] = [@ EXCEPT ![c] = Pte(e.frame, e.flags \ {"PS"})]]
    PROVE  PtInv'
<1>1. MemOK /\ TreeInv /\ CountInv /\ Flat
  BY DEF PtInv
<1>2. Dying' = Dying
  BY DEF Dying
<1>3. TreeInv' /\ CountInv'
  BY <1>1, <1>2, EntryKeeps
<1>4. want \in [roots -> [Pages -> {None} \cup Entries]] /\ pgroot \in roots /\ pgroot \in Frames
  BY <1>1, PoolFrames DEF MemOK
<1>5. PICK f : f = Pte(e.frame, e.flags \ {"PS"})
  OBVIOUS
<1>6. e.frame \in Nat /\ e.flags \ {"PS"} \in SUBSET Flags
  BY DEF Entries
<1>7. f \in Entries
  BY <1>5, <1>6, PteIs
<1>8. PICK h : h = [want[pgroot] EXCEPT ![c] = f]
  OBVIOUS
<1>9. h \in [Pages -> {None} \cup Entries] /\ h[c] = f /\ \A p \in Pages : p # c => h[p] = want[pgroot][p]
  BY <1>4, <1>7, <1>8
<1>10. want' = [want EXCEPT ![pgroot] = h]
  BY <1>5, <1>8
<1>11. want' \in [roots -> [Pages -> {None} \cup Entries]] /\ want'[pgroot] = h
       /\ \A t \in roots : t # pgroot => want'[t] = want[t]
  BY <1>4, <1>9, <1>10
<1>12. mem' \in MemType
  BY DEF OneEntry
<1>13. MemOK'
  BY <1>1, <1>11, <1>12 DEF MemOK, MemType
<1>14. PICK m2 : m2 = mem'
  OBVIOUS
<1>15. OneEntry(mem, m2, place, pgroot, c, 0, ds)
  BY <1>14
<1>16. Flat'
  <2> SUFFICES ASSUME NEW t \in roots, NEW p \in Pages PROVE Translate(mem', t, p) = want'[t][p]
    BY DEF Flat
  <2>1. p \in Nat /\ c \in Nat
    BY PageNat
  <2>2. Up(0, p) = p /\ Up(0, c) = c /\ Size(0) = 1
    BY <2>1, UpIs, SizeIs
  <2>3. t \in Frames /\ place[t] = Place(t, Top, 0)
    BY <1>1, StateTree
  <2>4. CASE t = pgroot /\ p = c
    <3>1. LeafEntry(mem', pgroot, c) = e /\ Leaf(mem', pgroot, c).level = 0
      BY <1>14, <1>15, OneHere
    <3>2. e # None
      BY NoneIs
    <3>3. e.frame + (c - Up(0, c) * Size(0)) = e.frame
      BY <1>6, <2>1, <2>2
    <3>4. Translate(mem', pgroot, c) = f
      BY <1>5, <3>1, <3>2, <3>3 DEF Translate
    <3> QED
      BY <1>9, <1>11, <2>4, <3>4
  <2>5. CASE ~(t = pgroot /\ p = c)
    <3>1. Translate(m2, t, p) = Translate(mem, t, p)
      BY <1>15, <2>2, <2>3, <2>5, OneOther
    <3>2. want'[t][p] = want[t][p]
      BY <1>9, <1>11, <2>5
    <3> QED
      BY <1>1, <1>14, <3>1, <3>2 DEF Flat
  <2> QED
    BY <2>4, <2>5
<1> QED
  BY <1>3, <1>13, <1>16 DEF PtInv, WalkOK, ReadyPhys, ReadyPages, ReadyWhole,
     ReadyClone, ReadyFree, LookOK

\* A frame that a table refers to is not free.
LEMMA InUse ==
    ASSUME MemOK, TreeInv, CountInv, NEW d \in Frames, NEW i \in Index, place[d] # None,
           mem[d][i] # None, ~pte_big(mem[d][i]), NEW f \in Pool, mem[d][i].frame = f
    PROVE  own[f] \in Nat /\ own[f] > 0
<1>1. own \in [Pool -> Nat]
  BY DEF MemOK
<1> SUFFICES ASSUME own[f] = 0 PROVE FALSE
  BY <1>1
<1>2. PICK exact : exact = (frees = 0)
  OBVIOUS
<1>3. Counted(mem, place, own, exact) /\ Hung(mem, place, own, roots, roots \cup Dying)
  BY <1>2 DEF CountInv, TreeInv
<1>4. \A x \in Frames, j \in Index : place[x] # None /\ mem[x][j] # None /\ ~pte_big(mem[x][j]) => mem[x][j].frame # f
  BY <1>1, <1>3, FreeUnused
<1> QED
  BY <1>4

\* The counts of copies with a copy of e.
PinOf(e) == IF MapsPool(e) THEN [pins EXCEPT ![e.frame] = @ + 1] ELSE pins

\* A reference taken balances the entry that is made, unless it is big.
LEMMA GetIs ==
    ASSUME PoolInv, NEW e \in Entries, e # None, e.frame \in Pool /\ ~pte_big(e) => own[e.frame] > 0,
           NEW rf2, rf2 = GetRef(e.frame), NEW pn2, pn2 = PinOf(e)
    PROVE  /\ PoolFor(rf2, pn2, free) /\ Owns(rf2, pn2) \in [Pool -> Nat]
           /\ \A x \in Pool : Owns(rf2, pn2)[x] = own[x] + RefTo(e, x)
<1>1. /\ ref \in [Pool -> Nat] /\ pins \in [Pool -> Nat] /\ free \subseteq Pool
      /\ \A x \in Pool : pins[x] <= ref[x] /\ (IF x \in free THEN ref[x] = pins[x] ELSE ref[x] > 0)
  BY DEF PoolInv, PoolFor
<1>2. \A x \in Pool : own[x] = ref[x] - pins[x]
  BY OwnIs DEF PoolInv, own
<1>3. rf2 \in [Pool -> Nat] /\ \A x \in Pool : rf2[x] = ref[x] + (IF x = e.frame THEN 1 ELSE 0)
  BY <1>1 DEF GetRef
<1>4. /\ pn2 \in [Pool -> Nat]
      /\ \A x \in Pool : pn2[x] = pins[x] + (IF pte_big(e) /\ x = e.frame THEN 1 ELSE 0)
  BY <1>1 DEF PinOf, MapsPool
<1>5. ASSUME NEW x \in Pool
      PROVE  pn2[x] <= rf2[x] /\ (IF x \in free THEN rf2[x] = pn2[x] ELSE rf2[x] > 0)
  <2>1. ref[x] \in Nat /\ pins[x] \in Nat
    BY <1>1
  <2>2. x \in free /\ x = e.frame => pte_big(e)
    BY <1>1, <1>2, <2>1
  <2> QED
    BY <1>1, <1>3, <1>4, <2>1, <2>2
<1>6. PoolFor(rf2, pn2, free)
  BY <1>1, <1>3, <1>4, <1>5 DEF PoolFor
<1>7. Owns(rf2, pn2) \in [Pool -> Nat] /\ \A x \in Pool : Owns(rf2, pn2)[x] = rf2[x] - pn2[x]
  BY <1>3, <1>4, <1>5 DEF Owns
<1>8. ASSUME NEW x \in Pool PROVE Owns(rf2, pn2)[x] = own[x] + RefTo(e, x)
  <2>1. ref[x] \in Nat /\ pins[x] \in Nat
    BY <1>1
  <2> QED
    BY <1>2, <1>3, <1>4, <1>7, <2>1 DEF RefTo
<1> QED
  BY <1>6, <1>7, <1>8

\* clone_helper keeps the invariant: the new root means what the old one means, but
\* of a big page it has the first small page only.
LEMMA CloneStep ==
    ASSUME PtInv, clone_helper
    PROVE  PtInv'
<1>1. /\ MemOK /\ TreeInv /\ CountInv /\ PoolInv /\ WalkOK /\ ReadyPhys /\ ReadyPages /\ ReadyWhole
      /\ ReadyClone /\ ReadyFree /\ LookOK /\ Flat
  BY DEF PtInv
<1>2. walk # None /\ look # None
  BY DEF clone_helper, Found, Looking
<1>3. /\ walk.cb = "clone" /\ look.root = walk.to /\ IsLeafHere /\ look.page = walk.cur
      /\ walk.cb \notin {"destroy", "put"}
  BY <1>1, <1>2 DEF LookOK
<1>4. /\ look.root \in roots /\ look.page \in Pages /\ look.dirs \in [Levels -> Frames]
      /\ Chain(mem, look.root, look.page, Top, look.level, look.dirs)
      /\ LookDir \in Frames /\ LookIdx \in Index /\ place[LookDir] # None
      /\ place[LookDir].level = look.level /\ (look.level > 0 => ~pte_big(LookEntry))
      /\ Fresh(look.root, look.page) /\ look.level \in Levels
  BY <1>2, LookFacts
<1>5. look.level = 0
  <2>1. look.level = 0 \/ pte_big(LookEntry)
    BY DEF clone_helper, Found
  <2> QED
    BY <1>4, <2>1 DEF Levels
<1>6. PICK to \in roots : to = walk.to
  BY <1>3, <1>4
<1>7. PICK c \in Pages : c = walk.cur
  BY <1>3, <1>4
<1>8. PICK ds \in [Levels -> Frames] : ds = look.dirs
  BY <1>4
<1>9. /\ Chain(mem, to, c, Top, 0, ds) /\ LookDir = ds[0] /\ LookIdx = PDX(0, c) /\ Fresh(to, c)
  BY <1>3, <1>4, <1>5, <1>6, <1>7, <1>8 DEF LookDir, LookIdx
<1>10. PICK e \in Entries : e = Entry
  BY <1>1, <1>2, <1>3, LeafWhole
<1>11. /\ walk.level = 0 \/ (walk.level \in {1, 2} /\ pte_big(e))
       /\ ChunkIn(walk.level, walk.cur, walk.cur, walk.hi)
  BY <1>1, <1>2, <1>3, <1>10, LeafWhole
<1>12. e # None /\ e.frame \in Nat /\ e.flags \in SUBSET Flags
  BY <1>10, NoneIs DEF Entries
<1>13. /\ ref' = GetRef(e.frame) /\ mem' = Set(mem, ds[0], PDX(0, c), e) /\ look' = None
       /\ walk' = Advance /\ roots' = roots /\ proc' = proc /\ place' = place /\ frees' = frees
       /\ free' = free
       /\ pins' = IF pte_big(e) /\ e.frame \in Pool THEN [pins EXCEPT ![e.frame] = @ + 1] ELSE pins
  BY <1>6, <1>9, <1>10 DEF clone_helper, MapsPool
<1>14. /\ mem \in MemType /\ own \in [Pool -> Nat] /\ want \in [roots -> [Pages -> {None} \cup Entries]]
       /\ pgroot \in roots
  BY <1>1 DEF MemOK, MemType
<1>15. /\ TreeFor(mem, place) /\ to \in Frames /\ place[to] = Place(to, Top, 0)
       /\ \A r \in roots : r \in Frames /\ place[r] = Place(r, Top, 0)
  BY <1>1, StateTree
<1>16. ds[0] \in Frames /\ PDX(0, c) \in Index /\ place[ds[0]] # None /\ place[ds[0]].level = 0
  BY <1>4, <1>5, <1>9
<1>40. place[ds[0]].root = to /\ to # pgroot
  <2>1. place[LookDir].root = look.root
    BY <1>2, LookFacts
  <2> QED
    BY <1>1, <1>2, <1>3, <1>6, <1>9, <2>1 DEF ReadyClone
<1>17. PICK m2 : m2 = mem'
  OBVIOUS
<1>18. /\ m2 \in MemType /\ m2[ds[0]][PDX(0, c)] = e
       /\ \A x \in Frames, j \in Index : ~(x = ds[0] /\ j = PDX(0, c)) => m2[x][j] = mem[x][j]
  BY <1>13, <1>14, <1>16, <1>17, SetIs
<1>19. c \in Nat /\ walk.hi \in Nat /\ walk.level \in Levels /\ walk.root \in roots /\ walk.root \in Frames
       /\ c < After /\ After \in Nat
  BY <1>1, <1>2, <1>3, <1>7, WalkFacts, AtEntry
<1>20. mem[ds[0]][PDX(0, c)] = None
  <2>1. Ends(mem, c, 0, ds)
    BY DEF Ends
  <2>2. 0 \in Levels
    BY DEF Levels, Top
  <2>3. LeafEntry(mem, to, c) = mem[ds[0]][PDX(0, c)]
    BY <1>9, <1>15, <1>19, <2>1, <2>2, ChainLeaf
  <2> QED
    BY <1>9, <2>3 DEF Fresh
<1>21. LeafOK(place, ds[0], e)
  <2>1. ~pte_big(e) /\ e.frame \in Frames => place[e.frame] = None
    BY <1>1, <1>2, <1>3, <1>10, <1>11, <1>12, AtEntry
  <2> QED
    BY <1>16, <1>40, <2>1 DEF LeafOK
<1>22. OneEntry(mem, m2, place, to, c, 0, ds)
  <2>1. Changed(mem, m2, place, ds[0], PDX(0, c))
    BY <1>18 DEF Changed
  <2>2. 0 \in Levels
    BY DEF Levels, Top
  <2> QED
    BY <1>9, <1>15, <1>18, <1>20, <1>21, <2>1, <2>2 DEF OneEntry
<1>23. own' \in [Pool -> Nat] /\ PoolInv' /\ Balanced(mem, mem', own, own', ds[0], PDX(0, c))
  <2>2. e.frame \in Pool /\ ~pte_big(e) => own[e.frame] > 0
    <3> SUFFICES ASSUME e.frame \in Pool, ~pte_big(e) PROVE own[e.frame] > 0
      OBVIOUS
    <3>1. PICK x \in Pool : x = e.frame
      OBVIOUS
    <3>2. Here \in Frames /\ Idx \in Index /\ place[Here] # None
      BY <1>1, <1>2, <1>3, AtEntry
    <3>3. mem[Here][Idx] # None /\ ~pte_big(mem[Here][Idx]) /\ mem[Here][Idx].frame = x
      BY <1>10, <1>12, <3>1 DEF Entry
    <3>4. own[x] > 0
      BY <1>1, <3>2, <3>3, InUse
    <3> QED
      BY <3>1, <3>4
  <2>4. ref' = GetRef(e.frame) /\ pins' = PinOf(e)
    BY <1>13 DEF PinOf, MapsPool
  <2>5. PICK rf2 : rf2 = ref'
    OBVIOUS
  <2>6. PICK pn2 : pn2 = pins'
    OBVIOUS
  <2>7. /\ PoolFor(rf2, pn2, free) /\ Owns(rf2, pn2) \in [Pool -> Nat]
        /\ \A x \in Pool : Owns(rf2, pn2)[x] = own[x] + RefTo(e, x)
    <3>1. PoolInv /\ e \in Entries /\ e # None /\ rf2 = GetRef(e.frame) /\ pn2 = PinOf(e)
      BY <1>1, <1>12, <2>4, <2>5, <2>6
    <3> QED
      BY <2>2, <3>1, GetIs, Zenon
  <2>8. /\ PoolInv' /\ own' \in [Pool -> Nat]
        /\ \A x \in Pool : own'[x] = own[x] + RefTo(e, x)
    BY <1>13, <2>5, <2>6, <2>7 DEF PoolInv, own
  <2>9. ASSUME NEW x \in Pool
        PROVE  own'[x] + RefTo(mem[ds[0]][PDX(0, c)], x) = own[x] + RefTo(mem'[ds[0]][PDX(0, c)], x)
    <3>1. /\ RefTo(mem[ds[0]][PDX(0, c)], x) = 0
          /\ mem'[ds[0]][PDX(0, c)] = e
      BY <1>12, <1>17, <1>18, <1>20 DEF RefTo
    <3>2. own[x] \in Nat /\ own'[x] \in Nat /\ RefTo(e, x) \in Nat
      BY <1>14, <2>8 DEF RefTo
    <3> QED
      BY <2>8, <3>1, <3>2
  <2> QED
    BY <2>8, <2>9 DEF Balanced
<1>24. walk.top = Top /\ walk.dirs \in [Levels -> Frames]
       /\ Chain(mem, walk.root, c, Top, walk.level, walk.dirs)
  BY <1>1, <1>2, <1>3, <1>7 DEF WalkOK, Walks
<1>25. Chain(m2, walk.root, c, Top, walk.level, walk.dirs)
  BY <1>15, <1>19, <1>22, <1>24, OneChain
<1>26. WalkOK' /\ Dying' = Dying /\ (walk' # None => Onward)
  <2>1. Chain(mem', walk.root, walk.cur, walk.top, walk.level, walk.dirs)
    BY <1>7, <1>17, <1>24, <1>25
  <2>2. walk.cb # "put" /\ walk.cb # "destroy"
    BY <1>3
  <2> QED
    BY <1>1, <1>2, <1>13, <2>1, <2>2, WalkAdvances
<1>27. TreeInv' /\ CountInv'
  BY <1>1, <1>13, <1>17, <1>22, <1>23, <1>26, EntryKeeps
<1>28. /\ \A p \in Nat : Up(0, p) = p
       /\ to # walk.root /\ to # pgroot
  BY <1>1, <1>2, <1>3, <1>6, UpIs DEF ReadyClone
<1>29. SameAhead(walk.root) /\ SameAhead(walk.to)
  <2>1. ASSUME NEW s \in {walk.root, to}, NEW p \in Pages, p >= After
        PROVE  Leaf(m2, s, p) = Leaf(mem, s, p) /\ LeafEntry(m2, s, p) = LeafEntry(mem, s, p)
    <3>1. p \in Nat
      BY PageNat
    <3>2. Up(0, p) # Up(0, c)
      BY <1>19, <1>28, <2>1, <3>1
    <3>3. s \in Frames /\ place[s] = Place(s, Top, 0)
      BY <1>15, <1>19
    <3> QED
      BY <1>22, <3>2, <3>3, OneOther
  <2> QED
    BY <1>6, <1>17, <2>1 DEF SameAhead
<1>30. ReadyPhys' /\ ReadyPages' /\ ReadyWhole' /\ ReadyClone' /\ ReadyFree'
  BY <1>1, <1>2, <1>3, <1>6, <1>13, <1>26, <1>29, ReadyGoesOn
<1>41. \A p \in Pages : Up(walk.level, p) = Up(walk.level, c) => Now(p)
  BY <1>1, <1>2, <1>7, <1>11, ChunkNow
<1>42. Base = c /\ Now(c)
  BY <1>1, <1>2, <1>7, <1>11, ChunkNow
<1>31. PICK g : g = [p \in Pages |-> IF p = c THEN want[walk.root][p] ELSE None]
  OBVIOUS
<1>43. g \in [Pages -> {None} \cup Entries]
  BY <1>14, <1>19, <1>31
<1>32. want' = [want EXCEPT ![to] = [p \in Pages |->
                    IF p \in walk.cur..walk.hi /\ p < After THEN g[p] ELSE want[to][p]]]
  <2>1. want' = [want EXCEPT ![to] = [p \in Pages |->
                    IF p \in walk.cur..walk.hi /\ p < After THEN FirstOnly(p) ELSE want[to][p]]]
    BY <1>6 DEF clone_helper, Served
  <2>2. \A p \in Pages : FirstOnly(p) = g[p]
    BY <1>31, <1>42 DEF FirstOnly, Same
  <2> QED
    BY <2>1, <2>2
<1>33. /\ want' \in [roots -> [Pages -> {None} \cup Entries]]
       /\ \A r \in roots : r # to => want'[r] = want[r]
       /\ \A p \in Pages : want'[to][p] = IF Now(p) THEN g[p] ELSE want[to][p]
  BY <1>1, <1>2, <1>32, <1>43, ServedIs
<1>34. MemOK'
  BY <1>1, <1>13, <1>14, <1>17, <1>18, <1>23, <1>28, <1>33 DEF MemOK, MemType
<1>35. Flat'
  <2> SUFFICES ASSUME NEW t \in roots, NEW p \in Pages PROVE Translate(mem', t, p) = want'[t][p]
    BY <1>13 DEF Flat
  <2>1. p \in Nat /\ t \in roots
    BY <1>13, PageNat
  <2>2. CASE t # to
    <3>1. Translate(m2, t, p) = Translate(mem, t, p)
      BY <1>15, <1>22, <2>2, OneOther
    <3> QED
      BY <1>1, <1>17, <1>33, <2>1, <2>2, <3>1 DEF Flat
  <2>3. CASE t = to /\ p = c
    <3>1. LeafEntry(mem, walk.root, c) = e /\ Leaf(mem, walk.root, c).level = walk.level
      <4>1. Up(walk.level, c) = Up(walk.level, walk.cur)
        BY <1>7
      <4> QED
        BY <1>1, <1>2, <1>3, <1>10, <1>11, <4>1, BelowEntry
    <3>2. LeafEntry(m2, to, c) = e /\ Leaf(m2, to, c).level = 0
      BY <1>18, <1>22, OneHere
    <3>3. c = Up(walk.level, c) * Size(walk.level) /\ c = Up(0, c) * Size(0)
      BY <1>7, <1>19, <1>42, UpIs, SizeIs DEF Base
    <3>4. Translate(m2, to, c) = Translate(mem, walk.root, c)
      <4>1. Translate(m2, to, c) = Pte(e.frame + (c - Up(0, c) * Size(0)), e.flags \ {"PS"})
        BY <1>12, <3>2 DEF Translate
      <4>2. Translate(mem, walk.root, c)
                = Pte(e.frame + (c - Up(walk.level, c) * Size(walk.level)), e.flags \ {"PS"})
        BY <1>12, <3>1 DEF Translate
      <4> QED
        BY <3>3, <4>1, <4>2
    <3>5. Translate(mem, walk.root, c) = g[c]
      BY <1>1, <1>19, <1>31 DEF Flat
    <3> QED
      BY <1>17, <1>33, <1>42, <2>3, <3>4, <3>5
  <2>4. CASE t = to /\ p # c
    <3>1. Up(0, p) # Up(0, c)
      BY <1>19, <1>28, <2>1, <2>4
    <3>2. Translate(m2, to, p) = Translate(mem, to, p)
      BY <1>15, <1>22, <3>1, OneOther
    <3>3. CASE Now(p)
      <4>1. Fresh(to, p)
        BY <1>1, <1>2, <1>3, <1>6, <3>3 DEF ReadyClone, Now, Ahead
      <4>2. Translate(mem, to, p) = None
        BY <4>1 DEF Translate, Fresh
      <4>3. g[p] = None
        BY <1>31, <2>4
      <4> QED
        BY <1>17, <1>33, <2>4, <3>2, <3>3, <4>2, <4>3
    <3>4. CASE ~Now(p)
      BY <1>1, <1>17, <1>33, <2>1, <2>4, <3>2, <3>4 DEF Flat
    <3> QED
      BY <3>3, <3>4
  <2> QED
    BY <2>2, <2>3, <2>4
<1> QED
  BY <1>13, <1>23, <1>26, <1>27, <1>30, <1>34, <1>35 DEF PtInv, LookOK

\* The identity frames lie above the pool.
LEMMA IdentityIs ==
    ASSUME NEW p \in Nat, NEW f, f = Identity(p)
    PROVE  f \in Nat /\ f \notin Frames /\ f \notin Pool
  BY PageTableAssumption DEF Identity, Frames, Pool

\* FillEntry keeps the invariant.
LEMMA FillStep ==
    ASSUME PtInv, FillEntry
    PROVE  PtInv'
<1>1. MemOK /\ TreeInv /\ LookOK
  BY DEF PtInv
<1>2. walk = None /\ look # None
  BY DEF FillEntry, Found, Looking
<1>3. look.root = pgroot
  BY <1>1, <1>2 DEF LookOK
<1>4. /\ look.page \in Pages /\ look.dirs \in [Levels -> Frames]
      /\ Chain(mem, look.root, look.page, Top, look.level, look.dirs)
      /\ LookDir \in Frames /\ LookIdx \in Index /\ place[LookDir] # None
      /\ place[LookDir].level = look.level /\ (look.level > 0 => ~pte_big(LookEntry))
      /\ Fresh(look.root, look.page) /\ look.level \in Levels
  BY <1>2, LookFacts
<1>5. look.level = 0
  <2>1. look.level = 0 \/ pte_big(LookEntry)
    BY DEF FillEntry, Found
  <2> QED
    BY <1>4, <2>1 DEF Levels
<1>6. PICK c \in Pages : c = look.page
  BY <1>4
<1>7. PICK ds \in [Levels -> Frames] : ds = look.dirs
  BY <1>4
<1>8. /\ Chain(mem, pgroot, c, Top, 0, ds) /\ LookDir = ds[0] /\ LookIdx = PDX(0, c) /\ Fresh(pgroot, c)
  BY <1>3, <1>4, <1>5, <1>6, <1>7 DEF LookDir, LookIdx
<1>9. PICK f \in Nat : f = Identity(c)
  BY PageNat, IdentityIs
<1>10. f \notin Frames /\ f \notin Pool
  BY <1>9, PageNat, IdentityIs
<1>11. PICK e : e = Pte(f, {"P", "W"})
  OBVIOUS
<1>12. e \in Entries /\ e # None /\ e.frame = f /\ e.flags = {"P", "W"}
  BY <1>11, PteIs DEF Flags
<1>13. /\ mem' = Set(mem, ds[0], PDX(0, c), e) /\ look' = None /\ walk' = None /\ own' = own
       /\ roots' = roots /\ proc' = proc /\ place' = place /\ frees' = frees /\ PoolInv'
       /\ want' = [want EXCEPT ![pgroot] = [@ EXCEPT ![c] = e]]
  <2>1. own' = own /\ PoolInv'
    BY SameOwn DEF PtInv, FillEntry
  <2> QED
    BY <1>2, <1>6, <1>8, <1>9, <1>11, <2>1 DEF FillEntry
<1>14. mem \in MemType /\ own \in [Pool -> Nat] /\ proc \in {"run", "die", "null"} /\ pgroot \in roots
  BY <1>1 DEF MemOK, MemType
<1>15. TreeFor(mem, place) /\ pgroot \in Frames /\ place[pgroot] = Place(pgroot, Top, 0)
  BY <1>1, <1>14, StateTree
<1>16. ds[0] \in Frames /\ PDX(0, c) \in Index /\ place[ds[0]] # None /\ place[ds[0]].level = 0
  BY <1>4, <1>5, <1>8
<1>17. /\ mem' \in MemType /\ mem'[ds[0]][PDX(0, c)] = e
       /\ \A x \in Frames, j \in Index : ~(x = ds[0] /\ j = PDX(0, c)) => mem'[x][j] = mem[x][j]
  BY <1>12, <1>13, <1>14, <1>16, SetIs
<1>18. c \in Nat /\ 0 \in Levels
  BY PageNat DEF Levels, Top
<1>19. mem[ds[0]][PDX(0, c)] = None
  <2>1. Ends(mem, c, 0, ds)
    BY DEF Ends
  <2>2. LeafEntry(mem, pgroot, c) = mem[ds[0]][PDX(0, c)]
    BY <1>8, <1>15, <1>18, <2>1, ChainLeaf
  <2> QED
    BY <1>8, <2>2 DEF Fresh
<1>20. OneEntry(mem, mem', place, pgroot, c, 0, ds)
  <2>1. Changed(mem, mem', place, ds[0], PDX(0, c))
    BY <1>17 DEF Changed
  <2>2. LeafOK(place, ds[0], mem'[ds[0]][PDX(0, c)])
    BY <1>10, <1>12, <1>16, <1>17 DEF LeafOK, pte_big
  <2> QED
    BY <1>8, <1>15, <1>17, <1>18, <1>19, <2>1, <2>2 DEF OneEntry
<1>21. Balanced(mem, mem', own, own', ds[0], PDX(0, c))
  <2>1. ASSUME NEW x \in Pool
        PROVE  RefTo(mem[ds[0]][PDX(0, c)], x) = 0 /\ RefTo(mem'[ds[0]][PDX(0, c)], x) = 0
    BY <1>10, <1>12, <1>17, <1>19 DEF RefTo
  <2> QED
    BY <1>13, <2>1 DEF Balanced
<1>22. e = Pte(e.frame, e.flags \ {"PS"})
  <2>1. {"P", "W"} \ {"PS"} = {"P", "W"}
    OBVIOUS
  <2> QED
    BY <1>11, <1>12, <2>1
<1>23. want' = [want EXCEPT ![pgroot] = [@ EXCEPT ![c] = Pte(e.frame, e.flags \ {"PS"})]]
  BY <1>13, <1>22
<1> QED
  BY <1>2, <1>12, <1>13, <1>14, <1>17, <1>20, <1>21, <1>23, PageStep

\* A step that changes none of the tables.
LEMMA IdleStep ==
    ASSUME PtInv, UNCHANGED <<mem, ref, free, pins, roots, walk, look, want, place, frees>>,
           proc' \in {"run", "die", "null"}
    PROVE  PtInv'
<1>3. own' = own /\ PoolInv'
  BY SameOwn DEF PtInv
<1>1. MemOK' /\ TreeInv' /\ CountInv' /\ Flat' /\ WalkOK' /\ LookOK'
  BY <1>3 DEF PtInv, MemOK, TreeInv, CountInv, Flat, WalkOK, LookOK, Dying, Fresh,
     IsLeafHere, Entry,
        Here, Idx, Base
<1>2. ReadyPhys' /\ ReadyPages' /\ ReadyWhole' /\ ReadyClone' /\ ReadyFree'
  BY DEF PtInv, ReadyPhys, ReadyPages, ReadyWhole, ReadyClone, ReadyFree, Ahead, Replaceable,
        NoTable, Fresh, Whole
<1> QED
  BY <1>1, <1>2, <1>3 DEF PtInv

\* dune_vm_default_pgflt_handler keeps the invariant.
LEMMA FaultStep ==
    ASSUME PtInv, NEW p \in Pages, dune_vm_default_pgflt_handler(p)
    PROVE  PtInv'
<1>1. MemOK /\ TreeInv /\ CountInv /\ PoolInv
  BY DEF PtInv
<1>2. walk = None /\ look = None
  BY DEF dune_vm_default_pgflt_handler, Begin
<1>3. UNCHANGED <<pins, roots, walk, look, place, frees>>
  BY DEF dune_vm_default_pgflt_handler
<1>4. mem \in MemType /\ own \in [Pool -> Nat] /\ proc \in {"run", "die", "null"} /\ pgroot \in roots
  BY <1>1 DEF MemOK, MemType
<1>5. TreeFor(mem, place) /\ pgroot \in Frames /\ place[pgroot] = Place(pgroot, Top, 0)
  BY <1>1, <1>4, StateTree
<1>6. p \in Nat /\ 0 \in Levels
  BY PageNat DEF Levels, Top
<1>7. PICK l \in Levels, ds \in [Levels -> Frames] : Chain(mem, pgroot, p, Top, l, ds) /\ Ends(mem, p, l, ds)
  BY <1>5, LeafChain
<1>8. PICK at : at = Leaf(mem, pgroot, p)
  OBVIOUS
<1>9. PICK e : e = LeafEntry(mem, pgroot, p)
  OBVIOUS
<1>10. at = [dir |-> ds[l], level |-> l]
  BY <1>5, <1>6, <1>7, <1>8, LeafIs
<1>11. at.dir = ds[l] /\ at.level = l
  BY <1>10
<1>12. /\ ds[l] \in Frames /\ PDX(l, p) \in Index /\ e = mem[ds[l]][PDX(l, p)] /\ e \in {None} \cup Entries
       /\ place[ds[l]] = Place(pgroot, l, Up(l + 1, p))
  BY <1>5, <1>8, <1>9, <1>11, LeafFacts
<1>13. e # None /\ e \in Entries
  BY <1>9, <1>12 DEF dune_vm_default_pgflt_handler, WriteFaults
<1>14. e.frame \in Nat /\ e.flags \in SUBSET Flags
  BY <1>13 DEF Entries
<1>15. CASE UNCHANGED <<mem, ref, free, want>>
  <2>1. proc' \in {"run", "die", "null"}
    BY <1>4 DEF dune_vm_default_pgflt_handler
  <2> QED
    BY <1>3, <1>15, <2>1, IdleStep
<1>16. CASE ~UNCHANGED <<mem, ref, free, want>>
  <2> DEFINE perm == (e.flags \ {"COW"}) \cup {"W"}
  <2>1. perm \in SUBSET Flags
    BY <1>14 DEF Flags
  <2>2. ~(l > 0)
    BY <1>8, <1>9, <1>11, <1>16 DEF dune_vm_default_pgflt_handler
  <2>3. l = 0
    BY <2>2 DEF Levels
  <2>4. /\ ds[0] \in Frames /\ PDX(0, p) \in Index /\ e = mem[ds[0]][PDX(0, p)]
        /\ Chain(mem, pgroot, p, Top, 0, ds)
    BY <1>7, <1>12, <2>3
  <2>5. /\ place[ds[0]] # None /\ place[ds[0]].level = 0 /\ place[ds[0]].root = pgroot
    <3>1. 1 \in 0..4 /\ 0 + 1 = 1
      OBVIOUS
    <3>2. Up(0 + 1, p) \in Nat
      BY <1>6, <3>1, UpType
    <3> QED
      BY <1>5, <1>6, <1>12, <2>3, <3>2, PlaceType
  <2>6. ~pte_big(e) /\ (e.frame \in Frames => place[e.frame] = None)
    BY <1>13, <1>5, <2>4, <2>5 DEF TreeFor, Tree, EntryOK
  <2>10. "PS" \notin perm
    BY <1>13, <2>6 DEF pte_big
  <2>7. ASSUME NEW m \in MemType, NEW f \in Nat, NEW rf \in [Pool -> Nat],
               mem' = Set(m, ds[0], PDX(0, p), Pte(f, perm)), own' = rf, PoolInv',
               want' = [want EXCEPT ![pgroot] = [@ EXCEPT ![p] = Pte(f, perm \ {"PS"})]],
               \A x \in Frames : place[x] # None => m[x] = mem[x],
               f \in Frames => place[f] = None, proc' = proc,
               \A x \in Pool : rf[x] + (IF e.frame = x THEN 1 ELSE 0) = own[x] + (IF f = x THEN 1 ELSE 0)
        PROVE  PtInv'
    <3>1. PICK n : n = Pte(f, perm)
      OBVIOUS
    <3>2. n \in Entries /\ n # None /\ n.frame = f /\ n.flags = perm /\ ~pte_big(n)
      BY <2>1, <2>10, <3>1, PteIs DEF pte_big
    <3>3. /\ mem' \in MemType /\ mem'[ds[0]][PDX(0, p)] = n
          /\ \A x \in Frames, j \in Index : ~(x = ds[0] /\ j = PDX(0, p)) => mem'[x][j] = m[x][j]
      <4>1. mem' = Set(m, ds[0], PDX(0, p), n)
        BY <2>7, <3>1
      <4> QED
        BY <2>4, <3>2, <4>1, SetIs
    <3>4. OneEntry(mem, mem', place, pgroot, p, 0, ds)
      <4>1. Changed(mem, mem', place, ds[0], PDX(0, p))
        BY <2>7, <3>3, ZenonT(30) DEF Changed
      <4>2. LeafOK(place, ds[0], mem'[ds[0]][PDX(0, p)])
        BY <2>5, <2>7, <3>2, <3>3 DEF LeafOK
      <4> QED
        BY <1>5, <1>6, <2>4, <3>3, <4>1, <4>2 DEF OneEntry
    <3>5. Balanced(mem, mem', own, own', ds[0], PDX(0, p))
      <4>1. ASSUME NEW x \in Pool
            PROVE  /\ RefTo(mem[ds[0]][PDX(0, p)], x) = IF e.frame = x THEN 1 ELSE 0
                   /\ RefTo(mem'[ds[0]][PDX(0, p)], x) = IF f = x THEN 1 ELSE 0
        BY <1>13, <2>4, <2>6, <3>2, <3>3 DEF RefTo
      <4> QED
        BY <2>7, <4>1 DEF Balanced
    <3>6. want' = [want EXCEPT ![pgroot] = [@ EXCEPT ![p] = Pte(n.frame, n.flags \ {"PS"})]]
      BY <2>7, <3>2
    <3>7. own' \in [Pool -> Nat] /\ proc' \in {"run", "die", "null"} /\ walk' = None /\ look' = None
      BY <1>2, <1>3, <1>4, <2>7
    <3> QED
      BY <1>2, <1>3, <2>7, <3>2, <3>3, <3>4, <3>5, <3>6, <3>7, PageStep
  <2>8. CASE e.frame \in Pool /\ ref[e.frame] = 1
    <3>1. /\ mem' = Set(mem, ds[0], PDX(0, p), Pte(e.frame, perm)) /\ ref' = ref /\ free' = free
          /\ want' = [want EXCEPT ![pgroot] = [@ EXCEPT ![p] = Pte(e.frame, perm \ {"PS"})]]
          /\ proc' = proc
      BY <1>8, <1>9, <1>11, <1>16, <2>3, <2>8 DEF dune_vm_default_pgflt_handler
    <3>2. own' = own /\ PoolInv'
      BY <1>1, <1>3, <3>1, SameOwn
    <3> QED
      BY <1>4, <1>14, <2>6, <2>7, <3>1, <3>2
  <2>9. CASE ~(e.frame \in Pool /\ ref[e.frame] = 1)
    <3>1. /\ mem' = Set(Blank, ds[0], PDX(0, p), Pte(alloc_page, perm)) /\ ref' = PutRef(e.frame, Taken)
          /\ want' = [want EXCEPT ![pgroot] = [@ EXCEPT ![p] = Pte(alloc_page, perm \ {"PS"})]]
          /\ free # {} /\ proc' = proc /\ free' = PutFree(e.frame, Taken, free \ {alloc_page})
      BY <1>8, <1>9, <1>11, <1>16, <2>3, <2>9 DEF dune_vm_default_pgflt_handler
    <3>2. PICK n : n = alloc_page
      OBVIOUS
    <3>3. /\ n \in Pool /\ n \in Frames /\ n \in Nat /\ own[n] = 0 /\ place[n] = None
          /\ (\A x \in Frames, j \in Index : place[x] # None /\ mem[x][j] # None /\ ~pte_big(mem[x][j]) => mem[x][j].frame # n)
          /\ Blank \in MemType /\ (\A x \in Frames : x # n => Blank[x] = mem[x])
      BY <1>1, <3>1, <3>2, AllocIs
    <3>4. e.frame # n
      BY <1>13, <2>4, <2>5, <2>6, <3>3
    <3>5. e.frame \in Pool => own[e.frame] \in Nat /\ own[e.frame] > 0
      <4> SUFFICES ASSUME e.frame \in Pool PROVE own[e.frame] \in Nat /\ own[e.frame] > 0
        OBVIOUS
      <4>1. PICK x \in Pool : x = e.frame
        OBVIOUS
      <4>2. mem[ds[0]][PDX(0, p)] # None /\ ~pte_big(mem[ds[0]][PDX(0, p)]) /\ mem[ds[0]][PDX(0, p)].frame = x
        BY <1>13, <2>4, <2>6, <4>1
      <4>3. own[x] \in Nat /\ own[x] > 0
        BY <1>1, <2>4, <2>5, <4>2, InUse
      <4> QED
        BY <4>1, <4>3
    <3>6. /\ own' \in [Pool -> Nat] /\ PoolInv' /\ own'[n] = 1
          /\ (\A x \in Pool : x # e.frame /\ x # n => own'[x] = own[x])
          /\ (e.frame \in Pool => own'[e.frame] = own[e.frame] - 1)
      <4>1. PICK fr2 : fr2 = free \ {n}
        OBVIOUS
      <4>2. PICK tk : tk = Taken
        OBVIOUS
      <4>3. /\ PoolFor(tk, pins, fr2) /\ n \in Pool /\ Owns(tk, pins)[n] = 1
            /\ \A x \in Pool : x # n => Owns(tk, pins)[x] = own[x]
        BY <1>1, <3>1, <3>2, <4>1, <4>2, TakeIs
      <4>4. PICK f \in Nat : f = e.frame
        BY <1>14
      <4>5. f \in Pool => Owns(tk, pins)[f] > 0
        BY <3>4, <3>5, <4>3, <4>4
      <4>6. PICK rf2 : rf2 = ref'
        OBVIOUS
      <4>7. rf2 = PutRef(f, tk) /\ free' = PutFree(f, tk, fr2)
        BY <3>1, <3>2, <4>1, <4>2, <4>4, <4>6
      <4>8. /\ PoolFor(rf2, pins, PutFree(f, tk, fr2)) /\ Owns(rf2, pins) \in [Pool -> Nat]
            /\ \A x \in Pool : x # f => Owns(rf2, pins)[x] = Owns(tk, pins)[x]
            /\ f \in Pool => Owns(rf2, pins)[f] = Owns(tk, pins)[f] - 1
        <5>1. Puttable(f, tk, pins, fr2)
          BY <4>3, <4>5 DEF Puttable
        <5>2. PutDone(f, tk, pins, fr2, PutRef(f, tk), PutFree(f, tk, fr2))
          BY <5>1, PutIs
        <5> QED
          BY <4>7, <5>2 DEF PutDone
      <4>9. own' = Owns(rf2, pins) /\ PoolInv'
        BY <1>3, <4>6, <4>7, <4>8 DEF PoolInv, own
      <4> QED
        BY <3>4, <4>3, <4>4, <4>8, <4>9
    <3>7. ASSUME NEW x \in Pool
          PROVE  own'[x] + (IF e.frame = x THEN 1 ELSE 0) = own[x] + (IF n = x THEN 1 ELSE 0)
      <4>1. own[x] \in Nat /\ own'[x] \in Nat
        BY <1>4, <3>6
      <4> QED
        BY <3>3, <3>4, <3>6, <4>1
    <3>8. \A x \in Frames : place[x] # None => Blank[x] = mem[x]
      BY <3>3
    <3> QED
      BY <2>7, <3>1, <3>2, <3>3, <3>6, <3>7, <3>8, ZenonT(30)
  <2> QED
    BY <2>8, <2>9
<1> QED
  BY <1>15, <1>16

-----------------------------------------------------------------------------
(***************************************************************************)
(* The calls.                                                              *)
(***************************************************************************)

\* What the walk of a call begins with.
Started(cb, r, top, rg, create, fl, pa, to) ==
    [cb |-> cb, root |-> r, top |-> top, create |-> create, cur |-> rg[1], hi |-> rg[2],
     level |-> top, dirs |-> [l \in Levels |-> r], flags |-> fl, va |-> rg[1], pa |-> pa, to |-> to]

\* A call that walks the tables of a root begins.
LEMMA BeginStep ==
    ASSUME PtInv, walk = None, look = None,
           UNCHANGED <<mem, ref, free, pins, roots, look, proc, want, place, frees>>,
           NEW cb \in {"map_phys", "map_pages", "mprotect", "free"}, NEW r \in roots,
           NEW create \in {None, 0, 1, 2}, NEW rg, rg[1] \in Pages, rg[2] \in Pages, rg[1] <= rg[2],
           NEW fl \in SUBSET Flags, NEW pa \in Nat,
           walk' = Started(cb, r, Top, rg, create, fl, pa, r),
           ReadyPhys', ReadyPages', ReadyWhole', ReadyFree'
    PROVE  PtInv'
<1>1. PICK w : w = walk'
  OBVIOUS
<1>2. w = Started(cb, r, Top, rg, create, fl, pa, r)
  BY <1>1
<1>4. r \in Frames /\ Top \in 1..Top /\ Top \in 0..Top
  BY DEF PtInv, MemOK, Top
<1>3. /\ w \in Walks /\ w.cb = cb /\ w.root = r /\ w.top = Top /\ w.cur = rg[1] /\ w.hi = rg[2] /\ w.level = Top
      /\ w.dirs = [l \in Levels |-> r]
  <2>1. cb \in {"map_phys", "map_pages", "mprotect", "free", "clone", "destroy", "put"}
    OBVIOUS
  <2>2. Top \in Levels /\ rg[1] \in Nat /\ [l \in Levels |-> r] \in [Levels -> Frames]
    BY <1>4, PageNat DEF Levels
  <2> QED
    BY <1>2, <1>4, <2>1, <2>2 DEF Walks, Started
<1>6. Chain(mem, r, rg[1], Top, Top, w.dirs)
  BY <1>3, <1>4, StartChain
<1>7. Dying' = Dying
  BY <1>1, <1>3 DEF Dying
<1>8. WalkOK'
  BY <1>1, <1>3, <1>4, <1>6 DEF WalkOK
<1>9. LookOK' /\ ReadyClone'
  BY <1>1, <1>3 DEF LookOK, ReadyClone
<1>11. own' = own /\ PoolInv'
  BY SameOwn DEF PtInv
<1>10. MemOK' /\ TreeInv' /\ CountInv' /\ Flat'
  BY <1>7, <1>11 DEF PtInv, MemOK, TreeInv, CountInv, Flat
<1> QED
  BY <1>8, <1>9, <1>10, <1>11 DEF PtInv

\* The flags that get_pte_perm gives.
LEMMA PermIs ==
    ASSUME NEW perm
    PROVE  /\ get_pte_perm(perm) \in SUBSET Flags
           /\ "PS" \in get_pte_perm(perm) <=> perm \cap {"BIG", "BIG_1GB"} # {}
  BY DEF get_pte_perm, Flags

\* dune_vm_map_pages keeps the invariant.
LEMMA MapPagesBegins ==
    ASSUME PtInv, NEW r \in roots, NEW rg \in Ranges, NEW perm \in Perms, dune_vm_map_pages(r, rg, perm)
    PROVE  PtInv'
<1>1. /\ walk = None /\ look = None /\ UNCHANGED <<mem, ref, free, pins, roots, look, proc, want, place, frees>>
      /\ \A p \in rg[1]..rg[2] : Fresh(r, p)
  BY DEF dune_vm_map_pages, Begin
<1>2. rg[1] \in Pages /\ rg[2] \in Pages /\ rg[1] <= rg[2]
  BY RangePages
<1>3. PICK fl : fl = get_pte_perm(perm)
  OBVIOUS
<1>4. perm \subseteq {"R", "W", "COW"}
  BY PageTableAssumption
<1>5. fl \in SUBSET Flags /\ "PS" \notin fl
  BY <1>3, <1>4, PermIs
<1>6. walk' = Started("map_pages", r, Top, rg, 0, fl, 0, r)
  BY <1>3 DEF dune_vm_map_pages, Walk, Started
<1>7. PICK w : w = walk'
  OBVIOUS
<1>8. w.cb = "map_pages" /\ w.root = r /\ w.create = 0 /\ w.cur = rg[1] /\ w.hi = rg[2] /\ w.flags = fl
  BY <1>6, <1>7 DEF Started
<1>9. ReadyPhys' /\ ReadyWhole' /\ ReadyFree'
  BY <1>7, <1>8 DEF ReadyPhys, ReadyWhole, ReadyFree
<1>10. ReadyPages'
  BY <1>1, <1>5, <1>7, <1>8 DEF ReadyPages, Ahead, Fresh
<1> QED
  BY <1>1, <1>2, <1>5, <1>6, <1>9, <1>10, BeginStep

\* The calls that change big pages as a whole begin.
LEMMA WholeBegins ==
    ASSUME PtInv, NEW r \in roots, NEW rg \in Ranges, NEW cb \in {"mprotect", "free"}, NEW fl \in SUBSET Flags,
           "PS" \notin fl, walk = None, look = None,
           UNCHANGED <<mem, ref, free, pins, roots, look, proc, want, place, frees>>,
           \A p \in rg[1]..rg[2] : Whole(r, p, rg[1], rg[2]),
           cb = "free" => \A p \in rg[1]..rg[2] : ~MapsPool(LeafEntry(mem, r, p)),
           walk' = Started(cb, r, Top, rg, None, fl, 0, r)
    PROVE  PtInv'
<1>2. rg[1] \in Pages /\ rg[2] \in Pages /\ rg[1] <= rg[2]
  BY RangePages
<1>7. PICK w : w = walk'
  OBVIOUS
<1>8. w.cb = cb /\ w.root = r /\ w.create = None /\ w.cur = rg[1] /\ w.hi = rg[2] /\ w.flags = fl
  BY <1>7 DEF Started
<1>9. ReadyPhys' /\ ReadyPages'
  BY <1>7, <1>8 DEF ReadyPhys, ReadyPages
<1>10. ReadyWhole'
  <2>1. ASSUME NEW p \in rg[1]..rg[2] PROVE Whole(r, p, rg[1], rg[2])'
    BY <2>1 DEF Whole
  <2>2. ASSUME NEW p \in Ahead' PROVE Whole(walk.root, p, walk.cur, walk.hi)'
    <3>1. p \in rg[1]..rg[2]
      BY <1>7, <1>8 DEF Ahead
    <3> QED
      BY <1>7, <1>8, <3>1 DEF Whole
  <2> QED
    BY <1>7, <1>8, <2>2 DEF ReadyWhole
<1>11. ReadyFree'
  BY <1>7, <1>8 DEF ReadyFree, Ahead
<1> QED
  <2>1. cb \in {"map_phys", "map_pages", "mprotect", "free"}
    OBVIOUS
  <2> QED
    BY <1>2, <1>9, <1>10, <1>11, <2>1, BeginStep

\* dune_vm_mprotect keeps the invariant.
LEMMA MprotectBegins ==
    ASSUME PtInv, NEW r \in roots, NEW rg \in Ranges, NEW perm \in Perms, dune_vm_mprotect(r, rg, perm)
    PROVE  PtInv'
<1>1. /\ walk = None /\ look = None /\ UNCHANGED <<mem, ref, free, pins, roots, look, proc, want, place, frees>>
      /\ \A p \in rg[1]..rg[2] : Whole(r, p, rg[1], rg[2])
  BY DEF dune_vm_mprotect, Begin
<1>2. PICK pm : pm = IF "R" \in perm THEN perm ELSE {}
  OBVIOUS
<1>3. PICK fl : fl = get_pte_perm(pm)
  OBVIOUS
<1>4. pm \subseteq {"R", "W", "COW"}
  BY <1>2, PageTableAssumption
<1>5. fl \in SUBSET Flags /\ "PS" \notin fl
  BY <1>3, <1>4, PermIs
<1>6. walk' = Started("mprotect", r, Top, rg, None, fl, 0, r)
  BY <1>2, <1>3 DEF dune_vm_mprotect, Walk, Started
<1> QED
  BY <1>1, <1>5, <1>6, WholeBegins

\* dune_vm_unmap keeps the invariant.
LEMMA UnmapBegins ==
    ASSUME PtInv, NEW r \in roots, NEW rg \in Ranges, dune_vm_unmap(r, rg)
    PROVE  PtInv'
<1>1. /\ walk = None /\ look = None /\ UNCHANGED <<mem, ref, free, pins, roots, look, proc, want, place, frees>>
      /\ \A p \in rg[1]..rg[2] : Whole(r, p, rg[1], rg[2]) /\ ~MapsPool(LeafEntry(mem, r, p))
  BY DEF dune_vm_unmap, Begin
<1>2. walk' = Started("free", r, Top, rg, None, {}, 0, r)
  BY DEF dune_vm_unmap, Walk, Started
<1> QED
  BY <1>1, <1>2, WholeBegins

\* A page number without digits below level l is the first of its chunk.
LEMMA Aligned ==
    ASSUME NEW l \in {1, 2}, NEW a \in Nat, a % Size(l) = 0, NEW q \in Nat
    PROVE  q < a <=> Up(l, q) < Up(l, a)
<1>1. l \in 0..4
  OBVIOUS
<1>2. PICK S \in Nat : S = Size(l) /\ S > 0
  BY <1>1, SizeType
<1>3. a \div S \in Nat /\ a % S = 0 /\ a % S = a - S * (a \div S)
  BY <1>2
<1>4. PICK k \in Nat : k = a \div S
  BY <1>3
<1>5. a = k * S
  <2>1. S * k = k * S /\ S * k \in Nat
    BY <1>2, <1>4
  <2>2. a - S * k = 0
    BY <1>3, <1>4
  <2> QED
    BY <2>1, <2>2
<1>6. k * Size(l) <= a /\ a < k * Size(l) + Size(l)
  <2>1. PICK b \in Nat : b = k * S
    BY <1>2, <1>4
  <2> QED
    BY <1>2, <1>5, <2>1
<1>7. Up(l, a) = k
  BY <1>1, <1>6, ChunkUnique
<1>8. Up(l, q) \in Nat /\ Up(l, a) \in Nat
  BY <1>1, UpType
<1>9. Up(l, q) < Up(l, a) => q < a
  BY <1>1, UpOrder
<1>10. Up(l, a) < Up(l, q) => a < q
  BY <1>1, UpOrder
<1>11. Up(l, q) = Up(l, a) => a <= q
  <2>1. Up(l, q) * Size(l) <= q
    BY <1>1, ChunkOf
  <2> QED
    BY <1>2, <1>5, <1>7, <2>1
<1> QED
  BY <1>8, <1>9, <1>10, <1>11

\* An aligned range has whole chunks.
LEMMA RangeChunks ==
    ASSUME NEW l \in {1, 2}, NEW lo \in Pages, NEW hi \in Pages, lo % Size(l) = 0, (hi + 1) % Size(l) = 0,
           NEW p \in lo..hi
    PROVE  ChunkIn(l, p, lo, hi)
<1>1. lo \in Nat /\ hi \in Nat /\ hi + 1 \in Nat /\ p \in Nat /\ lo <= p /\ p < hi + 1
  BY PageNat
<1> SUFFICES ASSUME NEW q \in Pages, Up(l, q) = Up(l, p) PROVE q \in lo..hi
  BY DEF ChunkIn
<1>2. q \in Nat /\ l \in 0..4
  BY PageNat
<1>3. Up(l, q) \in Nat /\ Up(l, p) \in Nat /\ Up(l, lo) \in Nat /\ Up(l, hi + 1) \in Nat
  BY <1>1, <1>2, UpType
<1>4. (q < lo <=> Up(l, q) < Up(l, lo)) /\ (p < lo <=> Up(l, p) < Up(l, lo))
  BY <1>1, <1>2, Aligned
<1>5. PICK h \in Nat : h = hi + 1
  BY <1>1
<1>6. (q < h <=> Up(l, q) < Up(l, h)) /\ (p < h <=> Up(l, p) < Up(l, h))
  BY <1>1, <1>2, <1>5, Aligned
<1> QED
  BY <1>1, <1>2, <1>4, <1>5, <1>6

\* A call that maps frames begins.
LEMMA PhysBegins ==
    ASSUME PtInv, NEW r \in roots, NEW rg, rg[1] \in Pages, rg[2] \in Pages, rg[1] <= rg[2],
           NEW create \in {0, 1, 2}, NEW fl \in SUBSET Flags, ("PS" \in fl) <=> create # 0,
           NEW pa \in Nat, pa \in Frames => create # 0 /\ r = pgroot, walk = None, look = None,
           UNCHANGED <<mem, ref, free, pins, roots, look, proc, want, place, frees>>,
           create # 0 => \A p \in rg[1]..rg[2] : NoTable(r, p, create) /\ ChunkIn(create, p, rg[1], rg[2]),
           create = 0 => \A p \in rg[1]..rg[2] : Replaceable(r, p),
           walk' = Started("map_phys", r, Top, rg, create, fl, pa, r)
    PROVE  PtInv'
<1>1. PICK w : w = walk'
  OBVIOUS
<1>2. /\ w.cb = "map_phys" /\ w.root = r /\ w.create = create /\ w.cur = rg[1] /\ w.hi = rg[2] /\ w.flags = fl
      /\ w.va = rg[1] /\ w.pa = pa
  BY <1>1 DEF Started
<1>3. ReadyPages' /\ ReadyWhole' /\ ReadyFree'
  BY <1>1, <1>2 DEF ReadyPages, ReadyWhole, ReadyFree
<1>4. create # None /\ rg[1] <= rg[1]
  BY NoneIs, PageNat
<1>5. ReadyPhys'
  <2>1. ASSUME NEW p \in rg[1]..rg[2]
        PROVE  IF create = 0 THEN Replaceable(r, p)'
               ELSE NoTable(r, p, create)' /\ ChunkIn(create, p, rg[1], rg[2])
    BY DEF Replaceable, NoTable, Fresh
  <2>2. ASSUME NEW p \in Ahead'
        PROVE  (IF walk.create = 0 THEN Replaceable(walk.root, p)
                ELSE NoTable(walk.root, p, walk.create) /\ ChunkIn(walk.create, p, walk.cur, walk.hi))'
    <3>1. p \in rg[1]..rg[2]
      BY <1>1, <1>2 DEF Ahead
    <3> QED
      BY <1>1, <1>2, <2>1, <3>1 DEF Replaceable, NoTable, Fresh
  <2>3. /\ walk'.create # None /\ walk'.va <= walk'.cur
        /\ walk'.pa \in Frames => walk'.create # 0 /\ walk'.root = pgroot
        /\ ("PS" \in walk'.flags) <=> walk'.create # 0
    BY <1>1, <1>2, <1>4
  <2> QED
    BY <2>2, <2>3 DEF ReadyPhys
<1>6. create \in {None, 0, 1, 2} /\ "map_phys" \in {"map_phys", "map_pages", "mprotect", "free"}
  OBVIOUS
<1>7. PICK cb \in {"map_phys", "map_pages", "mprotect", "free"} : cb = "map_phys"
  BY <1>6
<1>8. walk' = Started(cb, r, Top, rg, create, fl, pa, r)
  BY <1>7
<1> QED
  BY <1>3, <1>5, <1>6, <1>8, BeginStep

\* dune_vm_map_phys keeps the invariant, for pages of every size.
LEMMA MapPhysBegins ==
    ASSUME PtInv, NEW r \in roots, NEW rg, NEW perm, NEW pa \in Nat,
           \/ rg \in Ranges /\ perm \in Perms /\ pa \notin Frames
           \/ rg \in BigRanges /\ perm = {"R", "W", "BIG"} /\ pa \notin Frames
           \/ rg \in GiantRanges /\ perm = {"R", "W", "BIG_1GB"} /\ pa \notin Frames
           \/ rg = PoolRange /\ perm = {"R", "W", "BIG"} /\ r = pgroot,
           dune_vm_map_phys(r, rg, pa, perm)
    PROVE  PtInv'
<1>1. rg[1] \in Pages /\ rg[2] \in Pages /\ rg[1] <= rg[2] /\ rg[1] \in Nat
  BY RangePages, PageNat
<1>2. PICK create : create = IF "BIG" \in perm THEN 1 ELSE IF "BIG_1GB" \in perm THEN 2 ELSE 0
  OBVIOUS
<1>3. PICK fl : fl = get_pte_perm(perm)
  OBVIOUS
<1>5. pa \in Frames => create # 0 /\ r = pgroot
  BY <1>2
<1>6. fl \in SUBSET Flags /\ ("PS" \in fl <=> perm \cap {"BIG", "BIG_1GB"} # {})
  BY <1>3, PermIs
<1>7. create \in {0, 1, 2} /\ (("PS" \in fl) <=> create # 0)
  BY <1>2, <1>6
<1>8. /\ walk = None /\ look = None /\ UNCHANGED <<mem, ref, free, pins, roots, look, proc, want, place, frees>>
      /\ \A p \in rg[1]..rg[2] : IF create = 0 THEN Replaceable(r, p) ELSE NoTable(r, p, create)
  BY <1>2 DEF dune_vm_map_phys, Begin
<1>9. walk' = Started("map_phys", r, Top, rg, create, fl, pa, r)
  BY <1>2, <1>3 DEF dune_vm_map_phys, Walk, Started
<1>10. create # 0 => \A p \in rg[1]..rg[2] : ChunkIn(create, p, rg[1], rg[2])
  <2>1. perm \in Perms => create = 0
    <3>1. perm \in Perms => perm \subseteq {"R", "W", "COW"}
      BY PageTableAssumption
    <3> QED
      BY <1>2, <3>1
  <2>2. ASSUME create # 0
        PROVE  create \in {1, 2} /\ rg[1] % Size(create) = 0 /\ (rg[2] + 1) % Size(create) = 0
    <3>1. CASE rg \in BigRanges \cup {PoolRange} /\ perm = {"R", "W", "BIG"}
      <4>1. create = 1
        BY <1>2, <3>1
      <4>2. rg[1] % W = 0 /\ (rg[2] + 1) % W = 0
        BY <3>1, PageTableAssumption
      <4> QED
        BY <4>1, <4>2, SizeIs
    <3>2. CASE rg \in GiantRanges /\ perm = {"R", "W", "BIG_1GB"}
      <4>1. create = 2
        BY <1>2, <3>2
      <4>2. rg[1] % (W * W) = 0 /\ (rg[2] + 1) % (W * W) = 0
        BY <3>2, PageTableAssumption
      <4> QED
        BY <4>1, <4>2, SizeIs
    <3> QED
      BY <2>1, <2>2, <3>1, <3>2
  <2> SUFFICES ASSUME create # 0, NEW p \in rg[1]..rg[2] PROVE ChunkIn(create, p, rg[1], rg[2])
    OBVIOUS
  <2>3. PICK lo \in Pages : lo = rg[1]
    BY <1>1
  <2>4. PICK hi \in Pages : hi = rg[2]
    BY <1>1
  <2>5. create \in {1, 2} /\ lo % Size(create) = 0 /\ (hi + 1) % Size(create) = 0 /\ p \in lo..hi
    BY <2>2, <2>3, <2>4
  <2>6. ChunkIn(create, p, lo, hi)
    BY <2>5, RangeChunks
  <2> QED
    BY <2>3, <2>4, <2>6
<1> QED
  BY <1>1, <1>5, <1>6, <1>7, <1>8, <1>9, <1>10, PhysBegins

\* The new root of a clone.
LEMMA NewRoot ==
    ASSUME MemOK, TreeInv, CountInv, PoolInv, free # {}, NEW n, n = alloc_page,
           mem' = Blank, ref' = Taken, free' = free \ {n}, pins' = pins, place' = [place EXCEPT ![n] = Place(n, Top, 0)]
    PROVE  /\ Rooted(mem, mem', place, place', n) /\ mem' \in MemType /\ place' \in PlacesOf
           /\ own' \in [Pool -> Nat] /\ own'[n] = 1 /\ own[n] = 0 /\ n \in Pool /\ place[n] = None
           /\ PoolInv' /\ \A x \in Pool : x # n => own'[x] = own[x]
<1>1. /\ n \in Pool /\ n \in Frames /\ own[n] = 0 /\ place[n] = None
      /\ (\A x \in Frames, j \in Index : place[x] # None /\ mem[x][j] # None /\ ~pte_big(mem[x][j]) => mem[x][j].frame # n)
      /\ Blank \in MemType /\ (\A j \in Index : Blank[n][j] = None)
      /\ (\A x \in Frames : x # n => Blank[x] = mem[x])
  BY AllocIs
<1>2. Top \in Levels /\ 0 \in Nat
  BY DEF Levels, Top
<1>3. Place(n, Top, 0) \in Places
  BY <1>1, <1>2, PlaceType
<1>4. place \in PlacesOf
  BY DEF MemOK, PlacesOf
<1>5. /\ place' \in PlacesOf /\ place'[n] = Place(n, Top, 0)
      /\ \A x \in Frames : x # n => place'[x] = place[x]
  BY <1>1, <1>3, <1>4 DEF PlacesOf
<1>6. Rooted(mem, mem', place, place', n)
  BY <1>1, <1>5 DEF Rooted
<1>7. /\ own' \in [Pool -> Nat] /\ PoolInv' /\ own'[n] = 1
      /\ \A x \in Pool : x # n => own'[x] = own[x]
  BY TakeIs DEF PoolInv, own
<1> QED
  BY <1>1, <1>5, <1>6, <1>7

\* dune_vm_clone keeps the invariant.
LEMMA CloneBegins ==
    ASSUME PtInv, NEW r \in roots, dune_vm_clone(r)
    PROVE  PtInv'
<1>1. MemOK /\ TreeInv /\ CountInv /\ PoolInv /\ Flat
  BY DEF PtInv
<1>2. walk = None /\ look = None /\ look' = look /\ frees' = frees
  BY DEF dune_vm_clone, Begin
<1>3. CASE free = {}
  <2>1. proc' = "null" /\ UNCHANGED <<mem, ref, free, pins, roots, walk, want, place>>
    BY <1>3 DEF dune_vm_clone
  <2> QED
    BY <1>2, <2>1, IdleStep
<1>4. CASE free # {}
  <2>1. PICK n : n = alloc_page
    OBVIOUS
  <2>2. /\ mem' = Blank /\ ref' = Taken /\ roots' = roots \cup {n} /\ proc' = proc
        /\ walk' = Started("clone", r, Top, All, None, {}, 0, n)
        /\ want' = [t \in roots \cup {n} |-> IF t = n THEN Unmapped ELSE want[t]]
        /\ place' = [place EXCEPT ![n] = Place(n, Top, 0)]
        /\ free' = free \ {n} /\ pins' = pins
    BY <1>4, <2>1 DEF dune_vm_clone, Walk, Started
  <2>3. /\ Rooted(mem, mem', place, place', n) /\ mem' \in MemType /\ place' \in PlacesOf
        /\ own' \in [Pool -> Nat] /\ own'[n] = 1 /\ own[n] = 0 /\ n \in Pool /\ place[n] = None
        /\ PoolInv' /\ (\A x \in Pool : x # n => own'[x] = own[x])
    BY <1>1, <1>4, <2>1, <2>2, NewRoot
  <2>4. PICK m2 : m2 = mem'
    OBVIOUS
  <2>5. PICK pl2 : pl2 = place'
    OBVIOUS
  <2>6. PICK rf2 : rf2 = own'
    OBVIOUS
  <2>7. /\ Rooted(mem, m2, place, pl2, n) /\ m2 \in MemType /\ pl2 \in PlacesOf
        /\ rf2 \in [Pool -> Nat] /\ rf2[n] = 1 /\ rf2[n] > 0 /\ (\A x \in Pool : x # n => rf2[x] = own[x])
    BY <2>3, <2>4, <2>5, <2>6
  <2>8. /\ TreeFor(mem, place) /\ place \in PlacesOf /\ roots \subseteq Frames
        /\ \A t \in roots : t \in Frames /\ place[t] = Place(t, Top, 0)
        /\ Hung(mem, place, own, roots, roots \cup Dying)
    BY <1>1, StateTree
  <2>9. Dying = {}
    BY <1>2 DEF Dying
  <2>10. n \notin roots /\ n # pgroot /\ n \in Frames
    <3>1. \A t \in roots : place[t] # None
      BY <2>8, NoneIs, PlaceType DEF Levels, Top
    <3> QED
      BY <2>3, <3>1, PoolFrames
  <2>11. PICK w : w = walk'
    OBVIOUS
  <2>12. /\ w.cb = "clone" /\ w.root = r /\ w.top = Top /\ w.create = None /\ w.cur = 0
         /\ w.hi = Size(Top + 1) - 1 /\ w.level = Top /\ w.dirs = [l \in Levels |-> r] /\ w.flags = {}
         /\ w.to = n
    BY <2>2, <2>11 DEF Started, All
  <2>13. 0 \in Pages /\ Size(Top + 1) - 1 \in Pages /\ Pages = 0..(Size(Top + 1) - 1)
    BY AllRange DEF Pages
  <2>14. r \in Frames /\ Top \in 1..Top /\ Top \in 0..Top /\ Top \in Levels
    BY <2>8 DEF Top, Levels
  <2>15. w \in Walks
    <3>1. [l \in Levels |-> r] \in [Levels -> Frames] /\ 0 \in Nat /\ {} \in SUBSET Flags
      BY <2>14
    <3>2. w = [cb |-> "clone", root |-> r, top |-> Top, create |-> None, cur |-> 0,
               hi |-> Size(Top + 1) - 1, level |-> Top, dirs |-> [l \in Levels |-> r], flags |-> {},
               va |-> 0, pa |-> 0, to |-> n]
      BY <2>2, <2>11 DEF Started, All
    <3> QED
      BY <2>10, <2>13, <2>14, <3>1, <3>2 DEF Walks
  <2>16. Chain(m2, r, 0, Top, Top, w.dirs)
    BY <2>12, <2>14, StartChain
  <2>17. WalkOK'
    <3>1. 0 <= Size(Top + 1) - 1
      BY <2>13, PageNat
    <3> QED
      BY <2>2, <2>4, <2>11, <2>12, <2>14, <2>15, <2>16, <3>1 DEF WalkOK
  <2>18. Dying' = {}
    BY <2>11, <2>12 DEF Dying
  <2>19. TreeInv'
    <3>1. TreeFor(m2, pl2)
      BY <2>3, <2>7, <2>8, RootTree
    <3>2. PICK all : all = roots \cup Dying
      OBVIOUS
    <3>3. all = roots /\ Hung(mem, place, own, roots, all) /\ all \subseteq Frames
      BY <2>8, <2>9, <3>2
    <3>4. Hung(m2, pl2, rf2, roots \cup {n}, all \cup {n})
      BY <2>3, <2>7, <2>8, <3>3, RootHung
    <3>5. roots' \cup Dying' = all \cup {n}
      BY <2>2, <2>18, <3>3
    <3> QED
      BY <2>2, <2>4, <2>5, <2>6, <3>1, <3>4, <3>5 DEF TreeInv, TreeFor
  <2>20. CountInv'
    <3>1. PICK exact : exact = (frees = 0)
      OBVIOUS
    <3>2. Counted(mem, place, own, exact) /\ own \in [Pool -> Nat]
      BY <1>1, <3>1 DEF CountInv, MemOK
    <3>3. Counted(m2, pl2, rf2, exact)
      BY <2>3, <2>7, <2>8, <3>2, RootCount
    <3> QED
      BY <1>2, <2>4, <2>5, <2>6, <3>1, <3>3 DEF CountInv
  <2>21. ASSUME NEW p \in Pages
         PROVE  /\ \A s \in roots : /\ Leaf(m2, s, p) = Leaf(mem, s, p)
                                    /\ LeafEntry(m2, s, p) = LeafEntry(mem, s, p)
                                    /\ Translate(m2, s, p) = Translate(mem, s, p)
                /\ LeafEntry(m2, n, p) = None /\ Translate(m2, n, p) = None
    BY <2>3, <2>7, <2>8, RootPaths
  <2>22. /\ want \in [roots -> [Pages -> {None} \cup Entries]]
         /\ pgroot \in roots /\ frees \in Nat /\ proc \in {"run", "die", "null"}
    BY <1>1 DEF MemOK
  <2>23. /\ want' \in [roots' -> [Pages -> {None} \cup Entries]] /\ want'[n] = Unmapped
         /\ \A t \in roots : want'[t] = want[t]
    <3>1. Unmapped \in [Pages -> {None} \cup Entries]
      BY DEF Unmapped
    <3> QED
      BY <2>2, <2>10, <2>22, <3>1
  <2>24. MemOK'
    <3>1. roots' \subseteq Frames /\ pgroot \in roots'
      BY <2>2, <2>8, <2>10, <2>22
    <3> QED
      BY <1>2, <2>2, <2>3, <2>22, <2>23, <3>1 DEF MemOK, MemType, PlacesOf
  <2>25. ReadyPhys' /\ ReadyPages' /\ ReadyFree' /\ LookOK'
    BY <1>2, <2>11, <2>12 DEF ReadyPhys, ReadyPages, ReadyFree, LookOK
  <2>26. ReadyWhole'
    <3>1. ASSUME NEW p PROVE Whole(walk.root, p, walk.cur, walk.hi)'
      BY <2>11, <2>12, <2>13 DEF Whole
    <3> QED
      BY <2>11, <2>12, <3>1 DEF ReadyWhole
  <2>27. ReadyClone'
    <3>1. ASSUME NEW p \in Ahead' PROVE Fresh(walk.to, p)'
      <4>1. p \in Pages
        BY <2>11, <2>12, <2>13 DEF Ahead
      <4> QED
        BY <2>4, <2>11, <2>12, <2>21, <4>1 DEF Fresh
    <3>2. n \in roots' \ {r, pgroot}
      BY <2>2, <2>10
    <3> QED
      BY <2>11, <2>12, <3>1, <3>2 DEF ReadyClone
  <2>28. Flat'
    <3> SUFFICES ASSUME NEW t \in roots', NEW p \in Pages PROVE Translate(mem', t, p) = want'[t][p]
      BY DEF Flat
    <3>1. CASE t = n
      BY <2>4, <2>21, <2>23, <3>1 DEF Unmapped
    <3>2. CASE t # n
      <4>1. t \in roots
        BY <2>2, <3>2
      <4> QED
        BY <1>1, <2>4, <2>21, <2>23, <4>1 DEF Flat
    <3> QED
      BY <3>1, <3>2
  <2> QED
    BY <2>3, <2>17, <2>19, <2>20, <2>24, <2>25, <2>26, <2>27, <2>28 DEF PtInv
<1> QED
  BY <1>3, <1>4

-----------------------------------------------------------------------------
(***************************************************************************)
(* dune_vm_free.                                                           *)
(***************************************************************************)

\* Page 0 has no digits but 0.
LEMMA ZeroUp ==
    ASSUME NEW l \in 0..4
    PROVE  Up(l, 0) = 0
<1>1. 0 * Size(l) <= 0 /\ 0 < 0 * Size(l) + Size(l)
  <2>1. PICK S \in Nat : S = Size(l) /\ S > 0
    BY SizeType
  <2> QED
    BY <2>1
<1> QED
  BY <1>1, ChunkUnique

\* The walk that dune_vm_free begins at top.
LEMMA DestroyWalk ==
    ASSUME NEW r \in Frames, NEW top \in {1, 2}, NEW w, w = Walk("destroy", r, top, All, None)
    PROVE  /\ w \in Walks /\ w # None /\ w.cb = "destroy" /\ w.root = r /\ w.top = top /\ w.create = None
           /\ w.cur = 0 /\ w.cur <= w.hi /\ w.level = top /\ top \in 0..top /\ top < Top
           /\ Up(top + 1, 0) = 0 /\ \A m : Chain(m, r, 0, top, top, w.dirs)
<1>1. 0 \in Pages /\ Size(Top + 1) - 1 \in Pages /\ Pages = 0..(Size(Top + 1) - 1)
  BY AllRange DEF Pages
<1>2. top \in 1..Top /\ top \in Levels /\ top \in 0..top /\ top < Top /\ top + 1 \in 0..4
  BY DEF Top, Levels
<1>3. w = [cb |-> "destroy", root |-> r, top |-> top, create |-> None, cur |-> 0,
           hi |-> Size(Top + 1) - 1, level |-> top, dirs |-> [l \in Levels |-> r], flags |-> {},
           va |-> 0, pa |-> 0, to |-> r]
  BY DEF Walk, All
<1>4. [l \in Levels |-> r] \in [Levels -> Frames] /\ 0 \in Nat /\ {} \in SUBSET Flags
  OBVIOUS
<1>5. w \in Walks
  <2>1. PICK h \in Pages : h = Size(Top + 1) - 1
    BY <1>1
  <2>2. PICK ds \in [Levels -> Frames] : ds = [l \in Levels |-> r]
    BY <1>4
  <2>3. w = [cb |-> "destroy", root |-> r, top |-> top, create |-> None, cur |-> 0, hi |-> h,
             level |-> top, dirs |-> ds, flags |-> {}, va |-> 0, pa |-> 0, to |-> r]
    BY <1>3, <2>1, <2>2
  <2>4. 0 \in Pages /\ top \in 1..Top /\ top \in Levels
    BY <1>1, <1>2
  <2> QED
    BY <1>4, <2>3, <2>4 DEF Walks
<1>6. w # None
  BY <1>5, WalkNotNone
<1>7. /\ w.cb = "destroy" /\ w.root = r /\ w.top = top /\ w.create = None /\ w.cur = 0
      /\ w.hi = Size(Top + 1) - 1 /\ w.level = top /\ w.dirs = [l \in Levels |-> r]
  BY <1>3
<1>8. 0 <= Size(Top + 1) - 1
  BY <1>1, PageNat
<1>9. Up(top + 1, 0) = 0
  BY <1>2, ZeroUp
<1>10. ASSUME NEW m PROVE Chain(m, r, 0, top, top, w.dirs)
  BY <1>2, <1>7, StartChain
<1> QED
  BY <1>2, <1>5, <1>6, <1>7, <1>8, <1>9, <1>10

\* dune_vm_free keeps the invariant.
LEMMA FreeBegins ==
    ASSUME PtInv, NEW r \in roots, dune_vm_free(r)
    PROVE  PtInv'
<1>1. MemOK /\ TreeInv /\ CountInv /\ PoolInv /\ Flat
  BY DEF PtInv
<1>2. /\ walk = None /\ look = None /\ UNCHANGED <<mem, ref, free, pins, look, proc, place>> /\ r # pgroot
      /\ walk' = Walk("destroy", r, 2, All, None) /\ roots' = roots \ {r}
      /\ want' = [t \in roots \ {r} |-> want[t]] /\ frees' = frees + 1
  BY DEF dune_vm_free, Begin
<1>17. own' = own /\ PoolInv'
  BY <1>1, <1>2, SameOwn
<1>3. /\ mem \in [Frames -> [Index -> {None} \cup Entries]] /\ own \in [Pool -> Nat]
      /\ place \in [Frames -> {None} \cup Places]
      /\ roots \subseteq Frames /\ pgroot \in roots
      /\ want \in [roots -> [Pages -> {None} \cup Entries]]
      /\ frees \in Nat /\ proc \in {"run", "die", "null"}
  BY <1>1 DEF MemOK
<1>4. r \in Frames /\ r \in Pool
  BY <1>2, <1>3, PageTableAssumption DEF Frames, Pool, pgroot
<1>5. PICK w : w = walk'
  OBVIOUS
<1>6. PICK top \in {1, 2} : top = 2
  OBVIOUS
<1>7. w = Walk("destroy", r, top, All, None)
  BY <1>2, <1>5, <1>6
<1>8. /\ w \in Walks /\ w # None /\ w.cb = "destroy" /\ w.root = r /\ w.top = top /\ w.create = None
      /\ w.cur = 0 /\ w.cur <= w.hi /\ w.level = top /\ top \in 0..top /\ top < Top
      /\ Up(top + 1, 0) = 0 /\ Chain(mem, r, 0, top, top, w.dirs)
  BY <1>4, <1>7, DestroyWalk
<1>9. frees' \in Nat /\ frees' > 0
  BY <1>2, <1>3
<1>10. WalkOK'
  BY <1>2, <1>4, <1>5, <1>8, <1>9 DEF WalkOK
<1>11. ReadyPhys' /\ ReadyPages' /\ ReadyWhole' /\ ReadyClone' /\ ReadyFree' /\ LookOK'
  BY <1>2, <1>5, <1>8 DEF ReadyPhys, ReadyPages, ReadyWhole, ReadyClone, ReadyFree, LookOK
<1>12. Dying = {} /\ Dying' = {r}
  BY <1>2, <1>5, <1>8 DEF Dying
<1>13. TreeInv'
  <2>1. PICK all : all = roots \cup Dying
    OBVIOUS
  <2>2. Hung(mem, place, own, roots, all) /\ Tree(mem, place)
    BY <1>1, <2>1 DEF TreeInv
  <2>3. PICK live : live = roots \ {r}
    OBVIOUS
  <2>4. Hung(mem, place, own, live, all)
    BY <2>2, <2>3 DEF Hung
  <2>5. roots' \cup Dying' = all /\ roots' = live
    BY <1>2, <1>12, <2>1, <2>3
  <2> QED
    BY <1>2, <1>17, <2>2, <2>4, <2>5, SMTT(20) DEF TreeInv
<1>14. CountInv'
  <2>1. PICK exact : exact = (frees = 0)
    OBVIOUS
  <2>2. Counted(mem, place, own, exact)
    BY <1>1, <2>1 DEF CountInv
  <2>3. ~(frees' = 0)
    BY <1>9
  <2> QED
    BY <1>2, <1>17, <2>2, <2>3 DEF CountInv, Counted
<1>15. MemOK'
  <2>1. want' \in [roots' -> [Pages -> {None} \cup Entries]]
    BY <1>2, <1>3
  <2>2. roots' \subseteq Frames /\ pgroot \in roots'
    BY <1>2, <1>3
  <2> QED
    BY <1>2, <1>3, <1>9, <1>17, <2>1, <2>2 DEF MemOK
<1>16. Flat'
  BY <1>1, <1>2, <1>3 DEF Flat
<1> QED
  BY <1>10, <1>11, <1>13, <1>14, <1>15, <1>16, <1>17 DEF PtInv

\* A walk of dune_vm_free passes an entry without one.
LEMMA DestroySkip ==
    ASSUME PtInv, WalkSkip, walk.cb = "destroy"
    PROVE  PtInv'
<1>1. MemOK /\ TreeInv /\ CountInv /\ Flat /\ WalkOK
  BY DEF PtInv
<1>2. /\ walk # None /\ look = None /\ walk' = Advance /\ want' = want
      /\ UNCHANGED <<mem, ref, free, pins, roots, look, proc, place, frees>>
  BY DEF WalkSkip, Inner, Walking
<1>3. Chain(mem', walk.root, walk.cur, walk.top, walk.level, walk.dirs) /\ walk.cb # "put"
  BY <1>1, <1>2 DEF WalkOK
<1>4. WalkOK' /\ Dying' = Dying
  BY <1>1, <1>2, <1>3, WalkAdvances
<1>5. walk' # None => walk'.cb \in {"destroy", "put"}
  <2> SUFFICES ASSUME walk' # None PROVE walk'.cb \in {"destroy", "put"}
    OBVIOUS
  <2>1. \/ Onward
        \/ walk' = Walk("destroy", walk.root, 1, All, None)
        \/ walk' = [walk EXCEPT !.cb = "put"]
    BY <1>1, <1>2, AdvanceIs
  <2>2. walk \in Walks
    BY <1>1, <1>2 DEF WalkOK
  <2> QED
    BY <2>1, <2>2 DEF Onward, Walk, Walks
<1>6. ReadyPhys' /\ ReadyPages' /\ ReadyWhole' /\ ReadyClone' /\ ReadyFree' /\ LookOK'
  BY <1>2, <1>5 DEF ReadyPhys, ReadyPages, ReadyWhole, ReadyClone, ReadyFree, LookOK
<1>8. own' = own /\ PoolInv'
  BY <1>2, SameOwn DEF PtInv
<1>7. MemOK' /\ TreeInv' /\ CountInv' /\ Flat'
  BY <1>1, <1>2, <1>4, <1>8 DEF MemOK, TreeInv, CountInv, Flat
<1> QED
  BY <1>4, <1>6, <1>7, <1>8 DEF PtInv

\* dune_vm_free's walks are followed by its walks.
LEMMA DestroyOn ==
    ASSUME WalkOK, walk # None, walk.cb = "destroy", walk' = Advance, look = None, look' = look
    PROVE  ReadyPhys' /\ ReadyPages' /\ ReadyWhole' /\ ReadyClone' /\ ReadyFree' /\ LookOK'
<1>1. walk' # None => walk'.cb \in {"destroy", "put"}
  <2> SUFFICES ASSUME walk' # None PROVE walk'.cb \in {"destroy", "put"}
    OBVIOUS
  <2>1. \/ Onward
        \/ walk' = Walk("destroy", walk.root, 1, All, None)
        \/ walk' = [walk EXCEPT !.cb = "put"]
    BY AdvanceIs
  <2>2. walk \in Walks
    BY DEF WalkOK
  <2> QED
    BY <2>1, <2>2 DEF Onward, Walk, Walks
<1> QED
  BY <1>1 DEF ReadyPhys, ReadyPages, ReadyWhole, ReadyClone, ReadyFree, LookOK

\* Entry i of d is cleared, and the directory c that it led to has no place any more.
Cut(m, m2, pl, pl2, rf, rf2, d, i, c) ==
    /\ m2 \in MemType /\ pl2 \in PlacesOf /\ rf2 \in [Pool -> Nat]
    /\ m2[d][i] = None
    /\ \A x \in Frames, j \in Index : x # c /\ ~(x = d /\ j = i) => m2[x][j] = m[x][j]
    /\ \A x \in Frames : pl2[x] = IF x = c THEN None ELSE pl[x]
    /\ \A x \in Pool : rf2[x] = IF x = c THEN rf[x] - 1 ELSE rf[x]
    /\ d \in Frames /\ i \in Index /\ pl[d] # None /\ pl[d].level > 0 /\ m[d][i] # None /\ m[d][i].frame = c
    /\ c \in Frames => ~pte_big(m[d][i])

\* The directory cut off, by its place.
LEMMA CutChild ==
    ASSUME NEW m, NEW m2, NEW pl, NEW pl2, NEW rf, NEW rf2, NEW d, NEW i, NEW c,
           Cut(m, m2, pl, pl2, rf, rf2, d, i, c), TreeFor(m, pl), c \in Frames
    PROVE  /\ c \in Pool /\ pl[d] \in Places /\ pl[c] = Place(pl[d].root, pl[d].level - 1, pl[d].up * W + i)
           /\ pl[c] # None /\ pl[c].root = pl[d].root /\ pl[c].level = pl[d].level - 1
           /\ pl[c].up = pl[d].up * W + i /\ pl[c].level < Top /\ c # d
<1>1. /\ d \in Frames /\ i \in Index /\ pl[d] # None /\ pl[d].level > 0 /\ m[d][i] # None
      /\ m[d][i].frame = c /\ ~pte_big(m[d][i])
  BY DEF Cut
<1>2. c \in Pool /\ pl[c] = Place(pl[d].root, pl[d].level - 1, pl[d].up * W + i)
  BY <1>1, TableChild
<1>3. pl[d] \in Places
  BY <1>1 DEF TreeFor
<1>4. pl[d].root \in Frames /\ pl[d].level \in Levels /\ pl[d].up \in Nat
  BY <1>3 DEF Places
<1>5. PICK l \in Levels : l = pl[d].level - 1
  BY <1>1, <1>4 DEF Levels, Top
<1>6. PICK u \in Nat : u = pl[d].up * W + i
  BY <1>1, <1>4, WNat DEF Index
<1>7. pl[c] = Place(pl[d].root, l, u)
  BY <1>2, <1>5, <1>6
<1>8. pl[c] # None /\ pl[c].root = pl[d].root /\ pl[c].level = l /\ pl[c].up = u
  BY <1>4, <1>7, PlaceType
<1>9. l < Top /\ l # pl[d].level
  BY <1>4, <1>5 DEF Levels, Top
<1> QED
  BY <1>2, <1>3, <1>5, <1>6, <1>8, <1>9

\* No other entry led to it.
LEMMA CutPruned ==
    ASSUME NEW m, NEW m2, NEW pl, NEW pl2, NEW rf, NEW rf2, NEW d, NEW i, NEW c,
           Cut(m, m2, pl, pl2, rf, rf2, d, i, c), TreeFor(m, pl),
           \A x, y \in Frames : pl[x] # None /\ pl[y] = pl[x] => y = x
    PROVE  Pruned(m, m2, pl, pl2)
<1>1. /\ d \in Frames /\ i \in Index /\ m2[d][i] = None /\ pl[d] # None
      /\ \A x \in Frames, j \in Index : x # c /\ ~(x = d /\ j = i) => m2[x][j] = m[x][j]
      /\ \A x \in Frames : pl2[x] = IF x = c THEN None ELSE pl[x]
  BY DEF Cut
<1>2. \A x \in Frames : pl2[x] = pl[x] \/ pl2[x] = None
  BY <1>1
<1>3. \A x \in Frames, j \in Index : pl2[x] # None => m2[x][j] = m[x][j] \/ m2[x][j] = None
  BY <1>1
<1>4. ASSUME NEW x \in Frames, NEW j \in Index,
             pl2[x] # None, pl2[x].level > 0, m2[x][j] # None, ~pte_big(m2[x][j])
      PROVE  pl2[m2[x][j].frame] = pl[m2[x][j].frame]
  <2>1. x # c /\ pl2[x] = pl[x] /\ ~(x = d /\ j = i) /\ m2[x][j] = m[x][j]
    BY <1>1, <1>4
  <2>2. pl[x] # None /\ pl[x].level > 0 /\ m[x][j] # None /\ ~pte_big(m[x][j])
    BY <1>4, <2>1
  <2>3. /\ m[x][j].frame \in Frames
        /\ pl[m[x][j].frame] = Place(pl[x].root, pl[x].level - 1, pl[x].up * W + j)
    BY <2>2, TableChild
  <2>4. m[x][j].frame # c
    <3> SUFFICES ASSUME m[x][j].frame = c PROVE FALSE
      OBVIOUS
    <3>1. c \in Frames
      BY <2>3
    <3>2. /\ pl[d] \in Places /\ pl[c].root = pl[d].root /\ pl[c].level = pl[d].level - 1
          /\ pl[c].up = pl[d].up * W + i
      BY <3>1, CutChild
    <3>3. pl[x] \in Places
      BY <2>2 DEF TreeFor
    <3>4. pl[c] = Place(pl[x].root, pl[x].level - 1, pl[x].up * W + j)
      BY <2>3
    <3>5. pl[c].root = pl[x].root /\ pl[c].level = pl[x].level - 1 /\ pl[c].up = pl[x].up * W + j
      BY <3>4 DEF Place
    <3>6. PICK u \in Nat : u = pl[d].up
      BY <3>2 DEF Places
    <3>7. PICK v \in Nat : v = pl[x].up
      BY <3>3 DEF Places
    <3>8. u * W + i = v * W + j
      BY <3>2, <3>5, <3>6, <3>7
    <3>9. u = v /\ i = j
      BY <1>1, <3>8, DigitsUnique
    <3>10. pl[d].level \in Nat /\ pl[x].level \in Nat
      BY <3>2, <3>3 DEF Places, Levels
    <3>11. pl[x].root = pl[d].root /\ pl[x].level = pl[d].level /\ pl[x].up = pl[d].up
      BY <3>2, <3>5, <3>6, <3>7, <3>9, <3>10
    <3>12. pl[x] = pl[d]
      BY <3>2, <3>3, <3>11 DEF Places
    <3> QED
      BY <1>1, <2>1, <3>9, <3>12
  <2> QED
    BY <1>1, <2>1, <2>3, <2>4
<1> QED
  BY <1>2, <1>3, <1>4 DEF Pruned

\* Nothing of a live root was cut.
LEMMA CutHung ==
    ASSUME NEW m, NEW m2, NEW pl \in PlacesOf, NEW pl2, NEW rf, NEW rf2, NEW d, NEW i, NEW c,
           Cut(m, m2, pl, pl2, rf, rf2, d, i, c), TreeFor(m, pl), Pruned(m, m2, pl, pl2),
           NEW live, NEW all, Hung(m, pl, rf, live, all), pl[d].root \notin live, all \subseteq Frames
    PROVE  Hung(m2, pl2, rf2, live, all)
<1>1. /\ d \in Frames /\ i \in Index /\ pl[d] # None /\ pl2 \in PlacesOf
      /\ \A x \in Frames, j \in Index : x # c /\ ~(x = d /\ j = i) => m2[x][j] = m[x][j]
      /\ \A x \in Frames : pl2[x] = IF x = c THEN None ELSE pl[x]
      /\ \A x \in Pool : rf2[x] = IF x = c THEN rf[x] - 1 ELSE rf[x]
  BY DEF Cut
<1>2. c \in Frames => pl[c].root \notin live /\ pl[c].level < Top
  BY CutChild
<1>3. \A x \in Frames : pl[x] # None /\ pl[x].root \in live => pl2[x] = pl[x]
  BY <1>1, <1>2
<1>4. \A x \in Frames, j \in Index : pl[x] # None /\ pl[x].root \in live => m2[x][j] = m[x][j]
  BY <1>1, <1>2
<1>5. /\ \A r \in all : pl[r] = Place(r, Top, 0)
      /\ \A x \in Frames : pl[x] # None => pl[x].root \in all /\ (x \in Pool => rf[x] > 0)
  BY DEF Hung
<1>6. \A x \in Frames : pl2[x] # None => pl2[x].root \in all
  BY <1>1, <1>5
<1>7. \A r \in all : pl2[r] = pl[r]
  <2> SUFFICES ASSUME NEW r \in all PROVE r # c
    BY <1>1
  <2>0. pl[r] = Place(r, Top, 0)
    BY <1>5
  <2>1. pl[r].level = Top
    BY <2>0 DEF Place
  <2> QED
    BY <1>2, <2>1 DEF Top
<1>8. \A x \in Pool : pl2[x] # None => rf2[x] > 0
  BY <1>1, <1>5, PoolFrames
<1>9. Survives(m, m2, pl, pl2, rf2, live, all, all)
  BY <1>3, <1>4, <1>6, <1>7, <1>8 DEF Survives
<1> QED
  BY <1>1, <1>9, PruneHung

\* The count of the directory falls with the reference.
LEMMA CutCount ==
    ASSUME NEW m, NEW m2, NEW pl, NEW pl2, NEW rf \in [Pool -> Nat], NEW rf2, NEW d, NEW i, NEW c,
           Cut(m, m2, pl, pl2, rf, rf2, d, i, c), Pruned(m, m2, pl, pl2),
           NEW exact, Counted(m, pl, rf, exact)
    PROVE  Counted(m2, pl2, rf2, FALSE)
<1>1. /\ d \in Frames /\ i \in Index /\ pl[d] # None /\ m2[d][i] = None /\ m[d][i] # None
      /\ m[d][i].frame = c /\ rf2 \in [Pool -> Nat] /\ (c \in Frames => ~pte_big(m[d][i]))
      /\ \A x \in Pool : rf2[x] = IF x = c THEN rf[x] - 1 ELSE rf[x]
  BY DEF Cut
<1>2. Dropped(m, m2, pl, pl2, rf, rf2)
  <2> SUFFICES ASSUME NEW f \in Pool
               PROVE  \/ rf2[f] = rf[f]
                      \/ /\ rf2[f] = rf[f] - 1
                         /\ \/ IsRoot(pl, f) = 1 /\ IsRoot(pl2, f) = 0
                            \/ \E x \in Refs(m, pl, f) : x \notin Refs(m2, pl2, f)
    BY DEF Dropped
  <2>1. CASE f # c
    BY <1>1, <2>1
  <2>2. CASE f = c
    <3>1. <<d, i>> \in Refs(m, pl, f) /\ <<d, i>> \notin Refs(m2, pl2, f)
      BY <1>1, <2>2, PoolFrames DEF Refs
    <3> QED
      BY <1>1, <2>2, <3>1
  <2> QED
    BY <2>1, <2>2
<1> QED
  BY <1>1, <1>2, PruneCount

\* The directories above the one that a walk of dune_vm_free is in.
LEMMA DirsAbove ==
    ASSUME MemOK, TreeInv, WalkOK, walk # None, walk.cb = "destroy", NEW k \in (walk.level + 1)..walk.top
    PROVE  /\ walk.dirs[k] \in Frames /\ place[walk.dirs[k]] # None
           /\ place[walk.dirs[k]].level > walk.level + (Top - walk.top)
<1>1. /\ walk.root \in Frames /\ place[walk.root] = Place(walk.root, Top, 0)
      /\ walk.top \in 1..Top /\ walk.level \in 0..walk.top
  BY DirAt
<1>2. /\ walk \in Walks /\ Up(walk.top + 1, walk.cur) = 0
      /\ Chain(mem, walk.root, walk.cur, walk.top, walk.level, walk.dirs)
  BY DEF WalkOK
<1>3. walk.cur \in Nat /\ walk.dirs \in [Levels -> Frames]
  BY <1>2, PageNat DEF Walks
<1>4. TreeFor(mem, place)
  BY StateTree
<1>5. PICK r \in Frames : r = walk.root
  BY <1>1
<1>6. PICK c \in Nat : c = walk.cur
  BY <1>3
<1>7. PICK top \in 1..Top : top = walk.top
  BY <1>1
<1>8. PICK l \in 0..top : l = walk.level
  BY <1>1, <1>7
<1>9. PICK ds \in [Levels -> Frames] : ds = walk.dirs
  BY <1>3
<1>10. Chain(mem, r, c, top, l, ds) /\ place[r] = Place(r, Top, 0) /\ Up(top + 1, c) = 0
  BY <1>1, <1>2, <1>5, <1>6, <1>7, <1>8, <1>9
<1>11. \A j \in l..top : place[ds[j]] = Place(r, j + (Top - top), Up(j + 1, c))
  BY <1>4, <1>10, ChainPlaces
<1>12. k \in l..top /\ k > l /\ k \in Levels /\ k + (Top - top) \in Levels /\ k + 1 \in 0..4
  BY <1>7, <1>8 DEF Levels, Top
<1>13. PICK n \in Levels : n = k + (Top - top)
  BY <1>12
<1>14. PICK u \in Nat : u = Up(k + 1, c)
  BY <1>12, UpType
<1>15. place[ds[k]] = Place(r, n, u)
  BY <1>11, <1>12, <1>13, <1>14
<1>16. place[ds[k]] # None /\ place[ds[k]].level = n
  BY <1>15, PlaceType
<1>17. n > l + (Top - top) /\ ds[k] \in Frames
  BY <1>12, <1>13 DEF Top
<1> QED
  BY <1>7, <1>8, <1>9, <1>16, <1>17

\* free_directory keeps the invariant.
LEMMA FreeDirectoryStep ==
    ASSUME PtInv, free_directory
    PROVE  PtInv'
<1>1. MemOK /\ TreeInv /\ CountInv /\ PoolInv /\ Flat /\ WalkOK
  BY DEF PtInv
<1>2. walk # None /\ look = None /\ walk.cb = "destroy" /\ IsLeafHere
  BY DEF free_directory, AtLeaf, Walking
<1>3. /\ Here \in Frames /\ Idx \in Index /\ Entry \in {None} \cup Entries
      /\ walk.top \in 1..Top /\ walk.level \in 0..walk.top
      /\ place[Here] # None /\ place[Here].root = walk.root /\ place[Here] \in Places
      /\ place[Here].level = walk.level + (Top - walk.top)
  BY <1>1, <1>2, DirAt
<1>4. /\ walk.create = None /\ walk.top < Top /\ walk.root \notin roots /\ frees > 0
      /\ Chain(mem, walk.root, walk.cur, walk.top, walk.level, walk.dirs)
      /\ walk.dirs \in [Levels -> Frames]
  BY <1>1, <1>2 DEF WalkOK, Walks
<1>5. walk.level \in 0..3 /\ place[Here].level > 0 /\ place[Here].level \in Nat
  BY <1>3, <1>4 DEF Top
<1>6. Entry # None /\ Entry \in Entries /\ (walk.level = 0 \/ pte_big(Entry))
  <2>1. 0 # None /\ 1 # None /\ 2 # None
    BY NoneIs
  <2> QED
    BY <1>2, <1>3, <1>4, <2>1 DEF IsLeafHere, pte_big
<1>7. PICK c \in Nat : c = Entry.frame
  BY <1>6 DEF Entries
<1>8. /\ ref' = PutRef(c, ref) /\ free' = PutFree(c, ref, free) /\ pins' = pins
      /\ mem' = Set(PutMem(c, mem), Here, Idx, None)
      /\ place' = IF c \in Frames THEN [place EXCEPT ![c] = None] ELSE place
      /\ walk' = Advance /\ UNCHANGED <<roots, look, proc, want, frees>>
  BY <1>7 DEF free_directory
<1>9. /\ mem \in MemType /\ own \in [Pool -> Nat] /\ place \in PlacesOf /\ frees \in Nat
  BY <1>1 DEF MemOK, MemType, PlacesOf
<1>10. /\ TreeFor(mem, place) /\ roots \subseteq Frames
       /\ (\A r \in roots : r \in Frames /\ place[r] = Place(r, Top, 0))
       /\ Hung(mem, place, own, roots, roots \cup Dying)
  BY <1>1, StateTree
<1>11. c \in Frames => ~pte_big(Entry) /\ c \in Pool
  <2>3. walk.root # pgroot
    BY <1>1, <1>4 DEF MemOK
  <2>1. pte_big(Entry) => Entry.frame \notin Frames
    BY <1>3, <1>5, <1>6, <1>10, <2>3 DEF TreeFor, Tree, EntryOK, Entry
  <2>2. ~pte_big(Entry) => Entry.frame \in Pool
    BY <1>3, <1>5, <1>6, <1>10 DEF TreeFor, Tree, EntryOK, Entry
  <2> QED
    BY <1>7, <2>1, <2>2
<1>12. c \in Pool => own[c] \in Nat /\ own[c] > 0
  <2> SUFFICES ASSUME c \in Pool PROVE own[c] \in Nat /\ own[c] > 0
    OBVIOUS
  <2>1. mem[Here][Idx] # None /\ mem[Here][Idx].frame = c /\ ~pte_big(mem[Here][Idx])
    BY <1>6, <1>7, <1>11, PoolFrames DEF Entry
  <2> QED
    BY <1>1, <1>3, <2>1, InUse
<1>13. PICK m2 : m2 = mem'
  OBVIOUS
<1>14. PICK pl2 : pl2 = place'
  OBVIOUS
<1>15. PICK rf2 : rf2 = own'
  OBVIOUS
<1>16. PICK m : m = PutMem(c, mem)
  OBVIOUS
<1>17. m \in MemType /\ \A x \in Frames : x # c => m[x] = mem[x]
  BY <1>1, <1>16, PutMemIs
<1>18. /\ m2 \in MemType /\ m2[Here][Idx] = None
       /\ \A x \in Frames, j \in Index : ~(x = Here /\ j = Idx) => m2[x][j] = m[x][j]
  <2>1. m2 = Set(m, Here, Idx, None)
    BY <1>8, <1>13, <1>16
  <2> QED
    BY <1>3, <1>17, <2>1, SetIs
<1>34. PoolInv' /\ own' \in [Pool -> Nat]
       /\ \A x \in Pool : own'[x] = IF x = c THEN own[x] - 1 ELSE own[x]
  <2>1. PICK nr : nr = ref'
    OBVIOUS
  <2>2. nr = PutRef(c, ref) /\ Puttable(c, ref, pins, free)
    BY <1>1, <1>8, <1>12, <2>1 DEF PoolInv, own, Puttable
  <2>5. PutDone(c, ref, pins, free, PutRef(c, ref), PutFree(c, ref, free))
    BY <2>2, PutIs
  <2>3. /\ PoolFor(nr, pins, PutFree(c, ref, free)) /\ Owns(nr, pins) \in [Pool -> Nat]
        /\ \A x \in Pool : x # c => Owns(nr, pins)[x] = Owns(ref, pins)[x]
        /\ c \in Pool => Owns(nr, pins)[c] = Owns(ref, pins)[c] - 1
    BY <2>2, <2>5 DEF PutDone
  <2>4. own' = Owns(nr, pins) /\ own = Owns(ref, pins) /\ PoolInv'
    BY <1>8, <2>1, <2>3 DEF PoolInv, own
  <2> QED
    BY <2>3, <2>4
<1>19. /\ rf2 \in [Pool -> Nat] /\ \A x \in Pool : rf2[x] = IF x = c THEN own[x] - 1 ELSE own[x]
  BY <1>15, <1>34
<1>20. pl2 \in PlacesOf /\ \A x \in Frames : pl2[x] = IF x = c THEN None ELSE place[x]
  BY <1>8, <1>9, <1>14 DEF PlacesOf
<1>21. PICK d \in Frames : d = Here
  BY <1>3
<1>22. PICK i \in Index : i = Idx
  BY <1>3
<1>23. Cut(mem, m2, place, pl2, own, rf2, d, i, c)
  <2>1. \A x \in Frames, j \in Index : x # c /\ ~(x = d /\ j = i) => m2[x][j] = mem[x][j]
    BY <1>17, <1>18, <1>21, <1>22
  <2>2. mem[d][i] # None /\ mem[d][i].frame = c /\ (c \in Frames => ~pte_big(mem[d][i]))
    BY <1>6, <1>7, <1>11, <1>21, <1>22 DEF Entry
  <2> QED
    BY <1>3, <1>5, <1>18, <1>19, <1>20, <1>21, <1>22, <2>1, <2>2 DEF Cut
<1>24. \A x, y \in Frames : place[x] # None /\ place[y] = place[x] => y = x
  BY <1>10 DEF Hung
<1>25. Pruned(mem, m2, place, pl2)
  BY <1>10, <1>23, <1>24, CutPruned
<1>26. c \in Frames => /\ place[c] # None /\ place[c].root = walk.root /\ place[c].level < place[Here].level
  BY <1>3, <1>5, <1>10, <1>21, <1>23, CutChild
<1>27. Chain(mem', walk.root, walk.cur, walk.top, walk.level, walk.dirs)
  <2>1. ASSUME NEW l \in walk.level..(walk.top - 1)
        PROVE  m2[walk.dirs[l + 1]][PDX(l + 1, walk.cur)] = mem[walk.dirs[l + 1]][PDX(l + 1, walk.cur)]
    <3>1. l + 1 \in (walk.level + 1)..walk.top /\ l + 1 \in Levels
      BY <1>3 DEF Levels, Top
    <3>2. PICK k \in (walk.level + 1)..walk.top : k = l + 1
      BY <3>1
    <3>3. /\ walk.dirs[k] \in Frames /\ place[walk.dirs[k]] # None
          /\ place[walk.dirs[k]].level > walk.level + (Top - walk.top)
      BY <1>1, <1>2, DirsAbove
    <3>4. walk.dirs[k] # Here
      BY <1>3, <1>5, <3>3
    <3>5. walk.dirs[k] # c
      <4> SUFFICES ASSUME walk.dirs[k] = c PROVE FALSE
        OBVIOUS
      <4>1. c \in Frames /\ place[c].level > place[Here].level
        BY <1>3, <3>3
      <4>2. place[c] \in Places
        BY <1>9, <1>26, <4>1 DEF PlacesOf
      <4>3. place[c].level \in Nat
        BY <4>2 DEF Places, Levels
      <4> QED
        BY <1>5, <1>26, <4>1, <4>3
    <3>6. PDX(k, walk.cur) \in Index
      <4>1. walk.cur \in Nat
        BY <1>1, <1>2, WalkFacts
      <4> QED
        BY <3>1, <3>2, <4>1, UpNext
    <3>7. m2[walk.dirs[k]][PDX(k, walk.cur)] = m[walk.dirs[k]][PDX(k, walk.cur)]
      BY <1>18, <3>3, <3>4, <3>6
    <3> QED
      BY <1>17, <3>2, <3>3, <3>5, <3>7
  <2> QED
    BY <1>4, <1>13, <2>1 DEF Chain
<1>28. WalkOK' /\ Dying' = Dying
  <2>1. walk.cb # "put"
    BY <1>2
  <2> QED
    BY <1>1, <1>2, <1>8, <1>27, <2>1, WalkAdvances
<1>29. TreeInv'
  <2>1. TreeFor(m2, pl2)
    BY <1>10, <1>18, <1>20, <1>25, PruneTree
  <2>2. PICK all : all = roots \cup Dying
    OBVIOUS
  <2>3. Dying \subseteq Frames
    BY <1>1, <1>2, DirAt DEF Dying
  <2>4. Hung(mem, place, own, roots, all) /\ all \subseteq Frames
    BY <1>10, <2>2, <2>3
  <2>5. place[d].root \notin roots
    BY <1>3, <1>4, <1>21
  <2>6. Hung(m2, pl2, rf2, roots, all)
    BY <1>9, <1>10, <1>23, <1>25, <2>4, <2>5, CutHung
  <2> QED
    BY <1>8, <1>13, <1>14, <1>15, <1>28, <2>1, <2>2, <2>6 DEF TreeInv, TreeFor
<1>30. CountInv'
  <2>1. PICK exact : exact = (frees = 0)
    OBVIOUS
  <2>2. Counted(mem, place, own, exact)
    BY <1>1, <2>1 DEF CountInv
  <2>3. Counted(m2, pl2, rf2, FALSE)
    BY <1>9, <1>23, <1>25, <2>2, CutCount
  <2>4. ~(frees' = 0)
    BY <1>4, <1>8, <1>9
  <2> QED
    BY <1>13, <1>14, <1>15, <2>3, <2>4 DEF CountInv, Counted
<1>31. MemOK'
  BY <1>1, <1>8, <1>13, <1>14, <1>15, <1>18, <1>19, <1>20 DEF MemOK, MemType, PlacesOf
<1>32. Flat'
  <2> SUFFICES ASSUME NEW t \in roots, NEW p \in Pages PROVE Translate(m2, t, p) = want[t][p]
    BY <1>8, <1>13 DEF Flat
  <2>1. \A x \in Frames, j \in Index : place[x] # None /\ place[x].root = t => m2[x][j] = mem[x][j]
    BY <1>3, <1>4, <1>17, <1>18, <1>26
  <2>2. t \in Frames /\ place[t] = Place(t, Top, 0)
    BY <1>10
  <2>3. Translate(m2, t, p) = Translate(mem, t, p)
    BY <1>10, <2>1, <2>2, PrunePaths
  <2> QED
    BY <1>1, <2>3 DEF Flat
<1>33. ReadyPhys' /\ ReadyPages' /\ ReadyWhole' /\ ReadyClone' /\ ReadyFree' /\ LookOK'
  BY <1>1, <1>2, <1>8, DestroyOn
<1> QED
  BY <1>28, <1>29, <1>30, <1>31, <1>32, <1>33, <1>34 DEF PtInv

\* put_root keeps the invariant.
LEMMA PutRootStep ==
    ASSUME PtInv, put_root
    PROVE  PtInv'
<1>1. MemOK /\ TreeInv /\ CountInv /\ PoolInv /\ Flat /\ WalkOK
  BY DEF PtInv
<1>2. /\ walk # None /\ look = None /\ walk.cb = "put" /\ walk' = None
      /\ UNCHANGED <<roots, look, proc, want, frees>>
  BY DEF put_root, Walking
<1>3. walk.root \in Pool \ roots /\ frees > 0
  BY <1>1, <1>2 DEF WalkOK
<1>4. PICK r \in Pool : r = walk.root
  BY <1>3
<1>5. r \in Frames /\ r \notin roots /\ r \in Nat
  BY <1>3, <1>4, PoolFrames DEF Pool
<1>6. Dying = {r} /\ Dying' = {}
  BY <1>2, <1>4 DEF Dying
<1>7. PICK m2 : m2 = mem'
  OBVIOUS
<1>8. PICK pl2 : pl2 = place'
  OBVIOUS
<1>9. PICK rf2 : rf2 = own'
  OBVIOUS
<1>10. /\ ref' = PutRef(r, ref) /\ free' = PutFree(r, ref, free) /\ pins' = pins /\ m2 = PutMem(r, mem)
       /\ pl2 = [d \in Frames |-> IF place[d] # None /\ place[d].root = r THEN None ELSE place[d]]
  BY <1>4, <1>7, <1>8, <1>9 DEF put_root
<1>11. /\ mem \in MemType /\ own \in [Pool -> Nat] /\ place \in PlacesOf /\ frees \in Nat
  BY <1>1 DEF MemOK, MemType, PlacesOf
<1>12. PICK all : all = roots \cup Dying
  OBVIOUS
<1>13. all = roots \cup {r}
  BY <1>6, <1>12
<1>14. /\ TreeFor(mem, place) /\ roots \subseteq Frames /\ Hung(mem, place, own, roots, all)
       /\ \A t \in roots : t \in Frames /\ place[t] = Place(t, Top, 0)
  BY <1>1, <1>12, StateTree
<1>15. /\ \A t \in all : place[t] = Place(t, Top, 0)
       /\ \A x \in Frames : place[x] # None => place[x].root \in all /\ (x \in Pool => own[x] > 0)
  BY <1>14 DEF Hung
<1>16. /\ place[r] = Place(r, Top, 0) /\ place[r] # None /\ place[r].root = r /\ place[r].level = Top
       /\ own[r] > 0
  <2>1. place[r] = Place(r, Top, 0)
    BY <1>13, <1>15
  <2>2. Top \in Levels /\ 0 \in Nat
    BY DEF Levels, Top
  <2>3. place[r] # None /\ place[r].root = r /\ place[r].level = Top
    BY <1>5, <2>1, <2>2, PlaceType
  <2> QED
    BY <1>5, <1>15, <2>1, <2>3
<1>17. m2 \in MemType /\ \A x \in Frames : x # r => m2[x] = mem[x]
  BY <1>1, <1>5, <1>10, PutMemIs
<1>26. PoolInv' /\ own' \in [Pool -> Nat] /\ own'[r] = own[r] - 1 /\ \A x \in Pool : x # r => own'[x] = own[x]
  <2>1. PICK nr : nr = ref'
    OBVIOUS
  <2>2. nr = PutRef(r, ref) /\ Puttable(r, ref, pins, free)
    BY <1>1, <1>5, <1>10, <1>16, <2>1 DEF PoolInv, own, Puttable
  <2>5. PutDone(r, ref, pins, free, PutRef(r, ref), PutFree(r, ref, free))
    BY <2>2, PutIs
  <2>3. /\ PoolFor(nr, pins, PutFree(r, ref, free)) /\ Owns(nr, pins) \in [Pool -> Nat]
        /\ \A x \in Pool : x # r => Owns(nr, pins)[x] = Owns(ref, pins)[x]
        /\ r \in Pool => Owns(nr, pins)[r] = Owns(ref, pins)[r] - 1
    BY <2>2, <2>5 DEF PutDone
  <2>4. own' = Owns(nr, pins) /\ own = Owns(ref, pins) /\ PoolInv'
    BY <1>10, <2>1, <2>3 DEF PoolInv, own
  <2> QED
    BY <2>3, <2>4
<1>18. rf2 \in [Pool -> Nat] /\ rf2[r] = own[r] - 1 /\ \A x \in Pool : x # r => rf2[x] = own[x]
  BY <1>9, <1>26
<1>19. /\ pl2 \in PlacesOf /\ pl2[r] = None
       /\ \A x \in Frames : pl2[x] = IF place[x] # None /\ place[x].root = r THEN None ELSE place[x]
  BY <1>5, <1>10, <1>11, <1>16 DEF PlacesOf
<1>20. Pruned(mem, m2, place, pl2)
  <2>1. \A x \in Frames : pl2[x] = place[x] \/ pl2[x] = None
    BY <1>19
  <2>2. \A x \in Frames, j \in Index : pl2[x] # None => m2[x][j] = mem[x][j]
    BY <1>17, <1>19
  <2>3. ASSUME NEW x \in Frames, NEW j \in Index,
               pl2[x] # None, pl2[x].level > 0, m2[x][j] # None, ~pte_big(m2[x][j])
        PROVE  pl2[m2[x][j].frame] = place[m2[x][j].frame]
    <3>1. m2[x][j] = mem[x][j] /\ pl2[x] = place[x] /\ place[x] # None /\ place[x].root # r
      BY <1>19, <2>2, <2>3
    <3>2. place[x].level > 0 /\ mem[x][j] # None /\ ~pte_big(mem[x][j])
      BY <2>3, <3>1
    <3>3. /\ mem[x][j].frame \in Frames
          /\ place[mem[x][j].frame] = Place(place[x].root, place[x].level - 1, place[x].up * W + j)
      BY <1>14, <3>1, <3>2, TableChild
    <3>4. place[mem[x][j].frame].root # r
      BY <3>1, <3>3 DEF Place
    <3> QED
      BY <1>19, <3>1, <3>3, <3>4
  <2> QED
    BY <2>1, <2>2, <2>3 DEF Pruned
<1>21. TreeInv'
  <2>1. TreeFor(m2, pl2)
    BY <1>14, <1>17, <1>19, <1>20, PruneTree
  <2>2. \A x \in Frames : place[x] # None /\ place[x].root \in roots => pl2[x] = place[x]
    BY <1>5, <1>19
  <2>3. \A x \in Frames, j \in Index : place[x] # None /\ place[x].root \in roots => m2[x][j] = mem[x][j]
    BY <1>5, <1>16, <1>17
  <2>4. \A x \in Frames : pl2[x] # None => pl2[x].root \in roots
    BY <1>13, <1>15, <1>19
  <2>5. roots \subseteq all /\ \A t \in roots : pl2[t] = place[t]
    <3>1. ASSUME NEW t \in roots PROVE t \in Frames /\ place[t].root # r
      <4>1. place[t] = Place(t, Top, 0) /\ t # r /\ t \in Frames
        BY <1>5, <1>14
      <4> QED
        BY <4>1 DEF Place
    <3> QED
      BY <1>13, <1>19, <3>1
  <2>6. \A x \in Pool : pl2[x] # None => rf2[x] > 0
    BY <1>15, <1>18, <1>19, PoolFrames
  <2>7. Hung(m2, pl2, rf2, roots, roots)
    <3>1. PICK live : live = roots
      OBVIOUS
    <3>2. PICK all2 : all2 = roots
      OBVIOUS
    <3>3. Hung(mem, place, own, live, all)
      BY <1>14, <3>1
    <3>4. /\ \A x \in Frames : place[x] # None /\ place[x].root \in live => pl2[x] = place[x]
          /\ \A x \in Frames, j \in Index : place[x] # None /\ place[x].root \in live => m2[x][j] = mem[x][j]
      BY <2>2, <2>3, <3>1
    <3>5. /\ \A x \in Frames : pl2[x] # None => pl2[x].root \in all2
          /\ all2 \subseteq all /\ \A t \in all2 : pl2[t] = place[t]
      BY <2>4, <2>5, <3>2
    <3>6. Hung(m2, pl2, rf2, live, all2)
      <4>1. Survives(mem, m2, place, pl2, rf2, live, all, all2)
        BY <2>6, <3>4, <3>5 DEF Survives
      <4> QED
        BY <1>11, <1>14, <1>19, <1>20, <3>3, <4>1, PruneHung
    <3> QED
      BY <3>1, <3>2, <3>6
  <2>8. roots' = roots /\ roots' \cup Dying' = roots
    BY <1>2, <1>6
  <2> QED
    BY <1>7, <1>8, <1>9, <2>1, <2>7, <2>8 DEF TreeInv, TreeFor
<1>22. CountInv'
  <2>1. PICK exact : exact = (frees = 0)
    OBVIOUS
  <2>2. Counted(mem, place, own, exact)
    BY <1>1, <2>1 DEF CountInv
  <2>3. IsRoot(place, r) = 1 /\ IsRoot(pl2, r) = 0
    BY <1>16, <1>19 DEF IsRoot
  <2>4. Dropped(mem, m2, place, pl2, own, rf2)
    BY <1>18, <2>3 DEF Dropped
  <2>5. Counted(m2, pl2, rf2, FALSE)
    BY <1>11, <1>18, <1>20, <2>2, <2>4, PruneCount
  <2>6. ~(frees' = 0)
    BY <1>2, <1>3, <1>11
  <2> QED
    BY <1>7, <1>8, <1>9, <2>5, <2>6 DEF CountInv, Counted
<1>23. MemOK'
  BY <1>1, <1>2, <1>7, <1>8, <1>9, <1>17, <1>18, <1>19 DEF MemOK, MemType, PlacesOf
<1>24. Flat'
  <2> SUFFICES ASSUME NEW t \in roots, NEW p \in Pages PROVE Translate(m2, t, p) = want[t][p]
    BY <1>2, <1>7 DEF Flat
  <2>1. \A x \in Frames, j \in Index : place[x] # None /\ place[x].root = t => m2[x][j] = mem[x][j]
    BY <1>5, <1>16, <1>17
  <2>2. t \in Frames /\ place[t] = Place(t, Top, 0)
    BY <1>14
  <2>3. Translate(m2, t, p) = Translate(mem, t, p)
    BY <1>14, <2>1, <2>2, PrunePaths
  <2> QED
    BY <1>1, <2>3 DEF Flat
<1>25. WalkOK' /\ ReadyPhys' /\ ReadyPages' /\ ReadyWhole' /\ ReadyClone' /\ ReadyFree' /\ LookOK'
  BY <1>2 DEF WalkOK, ReadyPhys, ReadyPages, ReadyWhole, ReadyClone, ReadyFree, LookOK
<1> QED
  BY <1>21, <1>22, <1>23, <1>24, <1>25, <1>26 DEF PtInv

-----------------------------------------------------------------------------
(***************************************************************************)
(* The invariant holds.                                                    *)
(***************************************************************************)

\* The invariant holds at first.
LEMMA PtInit == Init => PtInv
<1> SUFFICES ASSUME Init PROVE PtInv
  OBVIOUS
<1>14. PoolInv /\ own = [p \in Pool |-> 0]
  <2>1. ref = [p \in Pool |-> 0] /\ pins = [p \in Pool |-> 0] /\ free = Pool
    BY DEF Init
  <2> QED
    BY <2>1 DEF PoolInv, PoolFor, own, Owns
<1>1. /\ mem = [d \in Frames |-> EmptyDir] /\ own = [p \in Pool |-> 0]
      /\ roots = {pgroot} /\ walk = None /\ look = None /\ proc = "run"
      /\ want = [r \in {pgroot} |-> Unmapped]
      /\ place = [d \in Frames |-> IF d = pgroot THEN Place(pgroot, Top, 0) ELSE None]
      /\ frees = 0
  BY <1>14 DEF Init
<1>2. pgroot \in Frames /\ pgroot \notin Pool /\ Pool \subseteq Frames
  BY PoolFrames
<1>3. Top \in Levels /\ 0 \in Nat
  BY DEF Levels, Top
<1>4. /\ Place(pgroot, Top, 0) \in Places /\ Place(pgroot, Top, 0) # None
      /\ Place(pgroot, Top, 0).root = pgroot /\ Place(pgroot, Top, 0).level = Top
      /\ Place(pgroot, Top, 0).up = 0
  BY <1>2, <1>3, PlaceType
<1>5. /\ place[pgroot] = Place(pgroot, Top, 0) /\ \A d \in Frames : place[d] # None => d = pgroot
      /\ place \in [Frames -> {None} \cup Places]
  BY <1>1, <1>2, <1>4
<1>6. \A d \in Frames, i \in Index : mem[d][i] = None
  BY <1>1 DEF EmptyDir
<1>7. MemOK
  <2>1. EmptyDir \in [Index -> {None} \cup Entries] /\ Unmapped \in [Pages -> {None} \cup Entries]
    BY DEF EmptyDir, Unmapped
  <2> QED
    BY <1>1, <1>2, <1>5, <2>1 DEF MemOK
<1>8. Dying = {}
  BY <1>1 DEF Dying
<1>9. Tree(mem, place)
  BY <1>6 DEF Tree, EntryOK
<1>10. Hung(mem, place, own, roots, roots \cup Dying)
  <2>1. roots \cup Dying = {pgroot} /\ \A r \in {pgroot} : place[r] = Place(r, Top, 0)
    BY <1>1, <1>5, <1>8
  <2>2. ASSUME NEW d \in Frames, place[d] # None
        PROVE  /\ d = pgroot /\ d \notin Pool /\ place[d].root = d /\ place[d].up = 0
               /\ ~(place[d].level < Top)
    BY <1>2, <1>4, <1>5, <2>2 DEF Top
  <2>3. \A d, x \in Frames : place[d] # None /\ place[x] = place[d] => x = d
    BY <2>2
  <2> QED
    BY <2>1, <2>2, <2>3 DEF Hung
<1>11. CountInv
  <2>1. ASSUME NEW f \in Pool PROVE IsRoot(place, f) = 0 /\ Cardinality(Refs(mem, place, f)) = 0 /\ own[f] = 0
    <3>1. place[f] = None
      BY <1>2, <1>5
    <3>2. Refs(mem, place, f) = {}
      BY <1>6 DEF Refs
    <3> QED
      BY <1>1, <3>1, <3>2, FS_EmptySet DEF IsRoot
  <2> QED
    BY <2>1 DEF CountInv, Counted
<1>12. Flat
  <2> SUFFICES ASSUME NEW p \in Pages PROVE Translate(mem, pgroot, p) = None
    BY <1>1 DEF Flat, Unmapped
  <2>1. PDX(3, p) \in Index
    BY PageNat, UpNext DEF Levels, Top
  <2>2. mem[pgroot][PDX(3, p)] = None
    BY <1>2, <1>6, <2>1
  <2>3. Leaf(mem, pgroot, p) = [dir |-> pgroot, level |-> 3]
    BY <2>2 DEF Leaf, IsTable
  <2>4. LeafEntry(mem, pgroot, p) = None
    BY <2>2, <2>3 DEF LeafEntry
  <2> QED
    BY <2>4 DEF Translate
<1>13. WalkOK /\ ReadyPhys /\ ReadyPages /\ ReadyWhole /\ ReadyClone /\ ReadyFree /\ LookOK
  BY <1>1 DEF WalkOK, ReadyPhys, ReadyPages, ReadyWhole, ReadyClone, ReadyFree, LookOK
<1> QED
  BY <1>7, <1>9, <1>10, <1>11, <1>12, <1>13, <1>14 DEF PtInv, TreeInv

\* Every step keeps it.
LEMMA PtNext == PtInv /\ [Next]_vars => PtInv'
<1> SUFFICES ASSUME PtInv, [Next]_vars PROVE PtInv'
  OBVIOUS
<1>1. CASE UNCHANGED vars
  <2>1. UNCHANGED <<mem, ref, free, pins, roots, walk, look, want, place, frees>> /\ proc' = proc
    BY <1>1 DEF vars
  <2>2. proc' \in {"run", "die", "null"}
    BY <2>1 DEF PtInv, MemOK
  <2> QED
    BY <2>1, <2>2, IdleStep
<1>2. ASSUME NEW r \in roots, NEW rg \in Ranges, NEW perm \in Perms,
             \/ dune_vm_map_phys(r, rg, Identity(rg[1]), perm)
             \/ dune_vm_map_pages(r, rg, perm) \/ dune_vm_mprotect(r, rg, perm)
      PROVE  PtInv'
  <2>1. PICK pa : pa = Identity(rg[1])
    OBVIOUS
  <2>2. pa \in Nat /\ pa \notin Frames
    BY <2>1, RangePages, PageNat, IdentityIs
  <2> QED
    BY <1>2, <2>1, <2>2, MapPhysBegins, MapPagesBegins, MprotectBegins
<1>3. ASSUME NEW r \in roots, NEW rg \in BigRanges,
             dune_vm_map_phys(r, rg, Identity(rg[1]), {"R", "W", "BIG"})
      PROVE  PtInv'
  <2>1. PICK pa : pa = Identity(rg[1])
    OBVIOUS
  <2>2. pa \in Nat /\ pa \notin Frames
    BY <2>1, RangePages, PageNat, IdentityIs
  <2> QED
    BY <1>3, <2>1, <2>2, MapPhysBegins
<1>4. ASSUME NEW r \in roots, NEW rg \in GiantRanges,
             dune_vm_map_phys(r, rg, Identity(rg[1]), {"R", "W", "BIG_1GB"})
      PROVE  PtInv'
  <2>1. PICK pa : pa = Identity(rg[1])
    OBVIOUS
  <2>2. pa \in Nat /\ pa \notin Frames
    BY <2>1, RangePages, PageNat, IdentityIs
  <2> QED
    BY <1>4, <2>1, <2>2, MapPhysBegins
<1>5. ASSUME NEW r \in roots, NEW rg \in Ranges, dune_vm_unmap(r, rg) PROVE PtInv'
  BY <1>5, UnmapBegins
<1>6. ASSUME NEW r \in roots, dune_vm_clone(r) \/ dune_vm_free(r) PROVE PtInv'
  BY <1>6, CloneBegins, FreeBegins
<1>7. CASE WalkSkip \/ WalkDown \/ WalkLink
  BY <1>7, SkipStep, DestroySkip, DownStep, WalkLinkStep
<1>8. CASE mprotect_helper \/ map_phys_helper \/ map_pages_helper \/ free_helper
  BY <1>8, MprotectStep, MapPhysStep, MapPagesStep, FreeStep
<1>9. CASE free_directory \/ put_root
  BY <1>9, FreeDirectoryStep, PutRootStep
<1>10. CASE LookDown \/ LookLink \/ CloneLooks \/ clone_helper \/ FillEntry
  BY <1>10, LookDownStep, LookLinkStep, CloneLooksStep, CloneStep, FillStep
<1>11. ASSUME NEW rg \in Ranges, FillLooks(rg[1]) \/ dune_vm_default_pgflt_handler(rg[1]) PROVE PtInv'
  BY <1>11, RangePages, FillLooksStep, FaultStep
<1>12. CASE setup_mappings
  <2>1. pgroot \in roots /\ PoolFirst \in Nat
    BY PageTableAssumption DEF PtInv, MemOK
  <2>2. dune_vm_map_phys(pgroot, PoolRange, PoolFirst, {"R", "W", "BIG"})
    BY <1>12 DEF setup_mappings
  <2> QED
    BY <2>1, <2>2, MapPhysBegins
<1> QED
  BY <1>1, <1>2, <1>3, <1>4, <1>5, <1>6, <1>7, <1>8, <1>9, <1>10, <1>11, <1>12 DEF Next

\* The inductive invariant: the directories form one tree per root with every
\* directory at its place; a page's count is at least its references other than
\* from the pool's window plus the copies of the window's entries, which are
\* all that pages of the free list are counted for; the window is mapped big
\* under pgroot alone; and the walk and the lookup in progress are where
\* __dune_vm_page_walk and dune_vm_lookup have come to.
THEOREM TableInv == Spec => []PtInv
<1> QED
  BY PtInit, PtNext, PTL DEF Spec

-----------------------------------------------------------------------------
(***************************************************************************)
(* What the invariant gives.                                               *)
(***************************************************************************)

\* What Tables collects.
LEMMA TablesIs ==
    ASSUME NEW level, NEW D, NEW f
    PROVE  f \in Tables(level, D) <=>
                \E d \in D, i \in Index : IsTable(level, mem[d][i]) /\ f = mem[d][i].frame
<1>1. ASSUME f \in Tables(level, D)
      PROVE  \E d \in D, i \in Index : IsTable(level, mem[d][i]) /\ f = mem[d][i].frame
  BY <1>1 DEF Tables
<1>2. ASSUME NEW d \in D, NEW i \in Index, IsTable(level, mem[d][i]), f = mem[d][i].frame
      PROVE  f \in Tables(level, D)
  <2>1. PICK x : x = <<d, i>>
    OBVIOUS
  <2>2. x \in {y \in D \X Index : IsTable(level, mem[y[1]][y[2]])} /\ f = mem[x[1]][x[2]].frame
    BY <1>2, <2>1
  <2> QED
    BY <2>2 DEF Tables
<1> QED
  BY <1>1, <1>2

\* The directories of level k below the roots.
DirsAt(k) == {d \in Frames : place[d] # None /\ place[d].level = k /\ place[d].root \in roots}

\* The tables that the directories of one level refer to are those of the next.
LEMMA TablesBelow ==
    ASSUME MemOK, TreeInv, NEW k \in 1..Top
    PROVE  Tables(k, DirsAt(k)) = DirsAt(k - 1)
<1>1. TreeFor(mem, place) /\ place \in PlacesOf /\ Hung(mem, place, own, roots, roots \cup Dying)
  BY StateTree
<1>2. ASSUME NEW f \in Tables(k, DirsAt(k)) PROVE f \in DirsAt(k - 1)
  <2>1. PICK d \in DirsAt(k), i \in Index : IsTable(k, mem[d][i]) /\ f = mem[d][i].frame
    BY <1>2, TablesIs
  <2>2. d \in Frames /\ place[d] # None /\ place[d].level = k /\ place[d].root \in roots
    BY DEF DirsAt
  <2>3. place[d].level > 0
    BY <2>2
  <2>4. mem[d][i] # None /\ ~pte_big(mem[d][i])
    BY <1>1, <2>1, <2>2, <2>3, TableMeans
  <2>5. f \in Frames /\ place[f] = Place(place[d].root, place[d].level - 1, place[d].up * W + i)
    BY <1>1, <2>1, <2>2, <2>3, <2>4, TableChild
  <2>6. place[d] \in Places
    BY <1>1, <2>2 DEF PlacesOf
  <2>7. place[f] # None /\ place[f].root = place[d].root /\ place[f].level = k - 1
    <3>1. PICK r \in Frames : r = place[d].root
      BY <2>6 DEF Places
    <3>2. PICK l \in Levels : l = k - 1
      BY DEF Levels, Top
    <3>3. PICK u \in Nat : u = place[d].up * W + i
      BY <2>6, WNat DEF Places, Index
    <3>4. place[f] = Place(r, l, u)
      BY <2>2, <2>5, <3>1, <3>2, <3>3
    <3> QED
      BY <3>1, <3>2, <3>4, PlaceType
  <2> QED
    BY <2>2, <2>5, <2>7 DEF DirsAt
<1>3. ASSUME NEW f \in DirsAt(k - 1) PROVE f \in Tables(k, DirsAt(k))
  <2>1. f \in Frames /\ place[f] # None /\ place[f].level = k - 1 /\ place[f].root \in roots
    BY <1>3 DEF DirsAt
  <2>2. place[f].level < Top /\ place[f].level + 1 = k
    BY <2>1 DEF Top
  <2>3. PICK d \in Frames, i \in Index :
            /\ place[d] # None /\ place[d].level = place[f].level + 1
            /\ mem[d][i] # None /\ ~pte_big(mem[d][i]) /\ mem[d][i].frame = f
    BY <1>1, <2>1, <2>2 DEF Hung
  <2>4. place[d].level = k /\ place[d].level > 0
    BY <2>2, <2>3
  <2>5. place[f] = Place(place[d].root, place[d].level - 1, place[d].up * W + i)
    BY <1>1, <2>3, <2>4, TableChild
  <2>6. place[f].root = place[d].root
    BY <2>5 DEF Place
  <2>7. d \in DirsAt(k)
    BY <2>1, <2>3, <2>4, <2>6 DEF DirsAt
  <2>8. IsTable(k, mem[d][i])
    BY <1>1, <2>3, <2>4, TableMeans
  <2> QED
    BY <2>3, <2>7, <2>8, TablesIs
<1> QED
  BY <1>2, <1>3

\* The directories in use are those with a place below a root in use.
LEMMA DirsIs ==
    ASSUME MemOK, TreeInv
    PROVE  Dirs = {d \in Frames : place[d] # None /\ place[d].root \in roots}
<1>1. /\ place \in PlacesOf /\ Hung(mem, place, own, roots, roots \cup Dying)
      /\ \A r \in roots : r \in Frames /\ place[r] = Place(r, Top, 0)
  BY StateTree
<1>2. roots = DirsAt(3)
  <2>1. ASSUME NEW r \in roots PROVE r \in DirsAt(3)
    <3>1. r \in Frames /\ place[r] = Place(r, Top, 0) /\ Top \in Levels /\ 0 \in Nat
      BY <1>1 DEF Levels, Top
    <3>2. place[r] # None /\ place[r].root = r /\ place[r].level = Top
      BY <3>1, PlaceType
    <3> QED
      BY <3>1, <3>2 DEF DirsAt, Top
  <2>2. ASSUME NEW d \in DirsAt(3) PROVE d \in roots
    BY <1>1 DEF DirsAt, Hung, Top
  <2> QED
    BY <2>1, <2>2
<1>3. Tables(3, roots) = DirsAt(2)
  <2>1. 3 \in 1..Top /\ 3 - 1 = 2
    BY DEF Top
  <2> QED
    BY <1>2, <2>1, TablesBelow
<1>4. Tables(2, DirsAt(2)) = DirsAt(1)
  <2>1. 2 \in 1..Top /\ 2 - 1 = 1
    BY DEF Top
  <2> QED
    BY <2>1, TablesBelow
<1>5. Tables(1, DirsAt(1)) = DirsAt(0)
  <2>1. 1 \in 1..Top /\ 1 - 1 = 0
    BY DEF Top
  <2> QED
    BY <2>1, TablesBelow
<1>6. Dirs = DirsAt(3) \cup DirsAt(2) \cup DirsAt(1) \cup DirsAt(0)
  BY <1>2, <1>3, <1>4, <1>5 DEF Dirs
<1>7. \A d \in Frames : place[d] # None => place[d].level \in {0, 1, 2, 3}
  BY <1>1 DEF PlacesOf, Places, Levels, Top
<1> QED
  BY <1>6, <1>7 DEF DirsAt

\* The uses of a frame are among the references to it, and are those before a tree is freed.
LEMMA UsesAre ==
    ASSUME MemOK, TreeInv, WalkOK, NEW f \in Pool
    PROVE  /\ Uses(Dirs, f) \in Nat
           /\ Uses(Dirs, f) <= IsRoot(place, f) + Cardinality(Refs(mem, place, f))
           /\ frees = 0 => Uses(Dirs, f) = IsRoot(place, f) + Cardinality(Refs(mem, place, f))
<1> DEFINE U == {x \in Dirs \X Index : /\ mem[x[1]][x[2]] # None /\ ~pte_big(mem[x[1]][x[2]])
                                        /\ mem[x[1]][x[2]].frame = f}
           R == Refs(mem, place, f)
           one == IF f \in roots THEN 1 ELSE 0
<1>1. /\ place \in PlacesOf /\ Hung(mem, place, own, roots, roots \cup Dying)
      /\ \A r \in roots : r \in Frames /\ place[r] = Place(r, Top, 0)
  BY StateTree
<1>2. Dirs = {d \in Frames : place[d] # None /\ place[d].root \in roots}
  BY DirsIs
<1>3. IsFiniteSet(R) /\ Cardinality(R) \in Nat
  BY RefsFinite
<1>4. U \subseteq R
  BY <1>2 DEF Refs
<1>5. IsFiniteSet(U) /\ Cardinality(U) <= Cardinality(R)
  BY <1>3, <1>4, FS_Subset
<1>6. Cardinality(U) \in Nat
  BY <1>5, FS_CardinalityType
<1>7. f \in roots => IsRoot(place, f) = 1
  <2> SUFFICES ASSUME f \in roots PROVE IsRoot(place, f) = 1
    OBVIOUS
  <2>1. f \in Frames /\ place[f] = Place(f, Top, 0) /\ Top \in Levels /\ 0 \in Nat
    BY <1>1 DEF Levels, Top
  <2>2. place[f] # None /\ place[f].level = Top
    BY <2>1, PlaceType
  <2> QED
    BY <2>2 DEF IsRoot
<1>8. IsRoot(place, f) \in {0, 1}
  BY DEF IsRoot
<1>9. Uses(Dirs, f) = one + Cardinality(U)
  BY DEF Uses
<1>10. ASSUME frees = 0 PROVE U = R /\ one = IsRoot(place, f)
  <2>1. Dying = {}
    BY <1>10 DEF WalkOK, Dying
  <2>2. \A d \in Frames : place[d] # None => place[d].root \in roots /\ (place[d].level = Top => place[d].root = d)
    BY <1>1, <2>1 DEF Hung
  <2>3. \A d \in Frames : place[d] # None => d \in Dirs
    BY <1>2, <2>2
  <2>4. R \subseteq U
    BY <2>3 DEF Refs
  <2>5. IsRoot(place, f) = 1 => f \in roots
    BY <2>2, PoolFrames DEF IsRoot
  <2> QED
    BY <1>4, <1>7, <1>8, <2>4, <2>5
<1> HIDE DEF U, R
<1>11. one \in {0, 1} /\ one <= IsRoot(place, f)
  BY <1>7, <1>8
<1> HIDE DEF one
<1>12. Cardinality(R) = Cardinality(Refs(mem, place, f))
  BY DEF R
<1> QED
  BY <1>3, <1>5, <1>6, <1>8, <1>9, <1>10, <1>11, <1>12

\* What follows from the invariant.
LEMMA InvGives == PtInv => FlatAgrees /\ NothingDangles /\ CountsMatch
<1> SUFFICES ASSUME PtInv PROVE FlatAgrees /\ NothingDangles /\ CountsMatch
  OBVIOUS
<1>1. MemOK /\ TreeInv /\ CountInv /\ PoolInv /\ WalkOK /\ Flat
  BY DEF PtInv
<1>5. /\ ref \in [Pool -> Nat] /\ pins \in [Pool -> Nat] /\ \A f \in Pool : own[f] = ref[f] - pins[f]
      /\ \A f \in Pool : IF f \in free THEN ref[f] = pins[f] ELSE ref[f] > 0
  <2>1. PoolFor(ref, pins, free)
    BY <1>1 DEF PoolInv
  <2> QED
    BY <2>1, OwnIs DEF PoolFor, own
<1>2. FlatAgrees
  BY <1>1 DEF FlatAgrees, Flat
<1>3. PtTypeOK
  <2>1. /\ mem \in [Frames -> [Index -> {None} \cup Entries]] /\ own \in [Pool -> Nat]
        /\ roots \subseteq Frames /\ pgroot \in roots /\ proc \in {"run", "die", "null"}
    BY <1>1 DEF MemOK
  <2>2. ASSUME NEW d \in Frames, NEW i \in Index
        PROVE  mem[d][i] = None \/ (mem[d][i].frame \in Nat /\ mem[d][i].flags \subseteq Flags)
    BY <2>1 DEF Entries
  <2> QED
    BY <1>5, <2>1, <2>2 DEF PtTypeOK
<1>4. ASSUME NEW f \in Pool
      PROVE  Uses(Dirs, f) \in Nat /\ Uses(Dirs, f) <= own[f] /\ (frees = 0 => own[f] = Uses(Dirs, f))
  <2>1. /\ Uses(Dirs, f) \in Nat
        /\ Uses(Dirs, f) <= IsRoot(place, f) + Cardinality(Refs(mem, place, f))
        /\ (frees = 0 => Uses(Dirs, f) = IsRoot(place, f) + Cardinality(Refs(mem, place, f)))
    BY <1>1, UsesAre
  <2>2. /\ IsRoot(place, f) + Cardinality(Refs(mem, place, f)) <= own[f]
        /\ (frees = 0 => own[f] = IsRoot(place, f) + Cardinality(Refs(mem, place, f)))
    BY <1>1 DEF CountInv, Counted
  <2>3. IsRoot(place, f) \in Nat /\ Cardinality(Refs(mem, place, f)) \in Nat /\ own[f] \in Nat
    BY <1>1, RefsFinite DEF IsRoot, MemOK
  <2> QED
    BY <2>1, <2>2, <2>3
<1>6. ASSUME NEW f \in Pool
      PROVE  /\ Uses(Dirs, f) <= ref[f] /\ (f \in free => Uses(Dirs, f) = 0)
             /\ (frees = 0 => /\ ref[f] = Uses(Dirs, f) + pins[f]
                              /\ f \notin free => Uses(Dirs, f) + pins[f] > 0)
  <2>1. ref[f] \in Nat /\ pins[f] \in Nat
    BY <1>5
  <2> QED
    BY <1>4, <1>5, <2>1
<1> QED
  BY <1>2, <1>3, <1>6 DEF NothingDangles, CountsMatch

\* For any number of entries per directory, pages, roots and calls: under every
\* root the processor finds what the calls of dune_vm_map_phys, dune_vm_map_pages,
\* dune_vm_mprotect, dune_vm_unmap, dune_vm_clone and the fault handlers asked for,
\* at every step between the entries of a call.
THEOREM FlatAlways == Spec => []FlatAgrees
<1> QED
  BY TableInv, InvGives, PTL

\* No root, table or mapped page of a tree in use is on the list that alloc_page
\* takes from, or has fewer counts than uses, whatever was cloned, unmapped and
\* freed, and between any two entries of a walk; although the window through
\* which setup_mappings maps the pool shows free pages too, and clones count them.
THEOREM DanglesNever == Spec => []NothingDangles
<1> QED
  BY TableInv, InvGives, PTL

\* Until dune_vm_free is called, dune_page_get and dune_page_put have counted a page
\* once for every root and entry that refers to it outside of the pool's window,
\* and once for every copy that dune_vm_clone made of an entry of the window at it.
THEOREM CountsAlways == Spec => []CountsMatch
<1> QED
  BY TableInv, InvGives, PTL
=============================================================================
