--------------------------- MODULE DunePageProofs ---------------------------
(***************************************************************************)
(* Proofs about libdune's page allocator, for any number of threads and    *)
(* pages, when the references of one page stay with one thread.            *)
(***************************************************************************)
EXTENDS DunePage, TLAPS

Counts == 0..(RefMod - 1)

\* The step leaves every thread but t alone.
Frame(t) ==
    \A u \in Threads : u # t =>
        /\ pc'[u] = pc[u] /\ pg'[u] = pg[u] /\ tmp'[u] = tmp[u]
        /\ \A q \in Pages : held'[u][q] = held[u][q]

\* The step changes the count of no page that u uses.
KeepsCounts(u) == \A q \in Pages : Uses(u, q) => ref'[q] = ref[q]

-----------------------------------------------------------------------------
(***************************************************************************)
(* Functions, counts and the list.                                         *)
(***************************************************************************)

\* An update of one reference count in held.
LEMMA HeldUpdate ==
    ASSUME NEW S, NEW T, NEW R, NEW f \in [S -> [T -> R]],
           NEW s \in S, NEW e \in T, NEW v \in R,
           NEW g, g = [f EXCEPT ![s][e] = v]
    PROVE  /\ g \in [S -> [T -> R]]
           /\ \A u \in S, q \in T :
                  g[u][q] = IF u = s /\ q = e THEN v ELSE f[u][q]
<1>1. [f[s] EXCEPT ![e] = v] \in [T -> R]
  OBVIOUS
<1>2. g = [f EXCEPT ![s] = [f[s] EXCEPT ![e] = v]]
  OBVIOUS
<1>3. QED
  BY <1>1, <1>2

\* Pages are numbers.
LEMMA PagesAreNat == Pages \subseteq Nat
  BY SizesAssumption DEF Pages

\* ref++ and ref-- stay in the type, and are exact away from the wrap.
LEMMA CountArith ==
    ASSUME NEW n \in Counts
    PROVE  /\ Inc(n) \in Counts /\ Dec(n) \in Counts
           /\ n < RefMod - 1 => Inc(n) = n + 1
           /\ n > 0 => Dec(n) = n - 1
  BY RefsAssumption DEF Counts, Inc, Dec

\* The pages that grow_size and dune_page_init put on the list: those from
\* first to last - 1, each once.
LEMMA StackedList ==
    ASSUME NEW first \in Nat, NEW last \in Nat, first < last, last <= MapLimit
    PROVE  /\ Stacked(first, last) \in Seq(Pages)
           /\ Stacked(first, last) # <<>>
           /\ \A k \in DOMAIN Stacked(first, last) :
                  /\ Stacked(first, last)[k] >= first
                  /\ Stacked(first, last)[k] < last
           /\ \A j, k \in DOMAIN Stacked(first, last) :
                  Stacked(first, last)[j] = Stacked(first, last)[k] => j = k
           /\ \A q \in first..(last - 1) : \E k \in DOMAIN Stacked(first, last) :
                  Stacked(first, last)[k] = q
<1> DEFINE s == Stacked(first, last)
<1> USE SizesAssumption
<1>1. /\ s = [k \in 1..(last - first) |-> last - k]
      /\ last - first \in Nat /\ last - first > 0
  BY DEF Stacked
<1>2. DOMAIN s = 1..(last - first) /\ \A k \in 1..(last - first) : s[k] = last - k
  BY <1>1
<1>3. \A k \in 1..(last - first) : s[k] >= first /\ s[k] < last /\ s[k] \in Pages
  BY <1>2 DEF Pages
<1>4. s \in Seq(Pages)
  BY <1>1, <1>3
<1>5. \A q \in first..(last - 1) : last - q \in DOMAIN s /\ s[last - q] = q
  BY <1>2
<1>6. s # <<>>
  BY <1>1, <1>4
<1>7. \A j, k \in 1..(last - first) : s[j] = s[k] => j = k
  BY <1>2
<1> HIDE DEF s
<1>8. QED
  BY <1>2, <1>3, <1>4, <1>5, <1>6, <1>7 DEF s

-----------------------------------------------------------------------------
(***************************************************************************)
(* Steps that move no page between the list and the threads.               *)
(***************************************************************************)

\* With the same users and the same list, the list and its pages stay apart.
LEMMA SameUsers ==
    ASSUME UseInv, FreePagesUnused, NoPageLost, PageTypeOK,
           UNCHANGED <<pool, num_pages, free, pins>>,
           \A u \in Threads : InCall(u)' => pg'[u] \in Pages,
           \A u \in Threads, q \in Pages :
               (Uses(u, q)' => Uses(u, q)) /\ (Uses(u, q) => Uses(u, q)' \/ pins[q] > 0),
           \A q \in Pages : ref'[q] = ref[q] \/ \E u \in Threads : Uses(u, q)
    PROVE  UseInv' /\ FreePagesUnused' /\ NoPageLost'
<1>1. \A k \in DOMAIN free : free[k] \in Pages
  BY DEF PageTypeOK
<1>2. UseInv'
  BY DEF UseInv
<1>3. FreePagesUnused'
  BY <1>1 DEF FreePagesUnused
<1>4. NoPageLost'
  BY DEF NoPageLost, IsFree
<1>5. QED
  BY <1>2, <1>3, <1>4

\* The counts of the other threads' pages.
LEMMA OtherCounts ==
    ASSUME PageTypeOK, UseInv, NEW t \in Threads, NEW u \in Threads, u # t,
           Frame(t), KeepsCounts(u), CountOK(u), UNCHANGED pins
    PROVE  CountOK(u)'
<1>1. \A q \in Pages : Uses(u, q)' <=> Uses(u, q)
  BY DEF Frame, Uses, InCall
<1>2. InCall(u) => pg[u] \in Pages /\ Uses(u, pg[u])
  BY DEF UseInv, Uses
<1>3. pc[u] \in {"get", "get_store", "put_store", "put_check", "free", "insert"}
        => InCall(u)
  BY DEF InCall
<1>4. \A q \in Pages : Uses(u, q)' => ref'[q] = ref[q]
  BY <1>1 DEF KeepsCounts
<1>5. QED
  BY <1>1, <1>2, <1>3, <1>4 DEF CountOK, Frame

-----------------------------------------------------------------------------
(***************************************************************************)
(* dune_page_alloc.                                                        *)
(***************************************************************************)

\* Taking page_mutex.
LEMMA AllocLockStep ==
    ASSUME PageInv, NEW t \in Threads, AllocLock(t)
    PROVE  PageInv'
<1> USE DEF PageInv
<1>1. PageTypeOK' /\ AssertsHold'
  BY DEF AllocLock, At, Goto, PageTypeOK, AssertsHold
<1>2. /\ pc[t] = "idle" /\ pc'[t] = "alloc" /\ pool = "ready"
      /\ mutex = NoThread /\ mutex' = t
      /\ UNCHANGED <<pool, num_pages, ref, free, pg, tmp, held, pins>>
  BY DEF AllocLock, At, Running, Goto, PageTypeOK
<1>3. Frame(t)
  BY DEF AllocLock, Goto, Frame, PageTypeOK
<1>4. \A u \in Threads : (InCall(u)' <=> InCall(u))
                          /\ \A q \in Pages : Uses(u, q)' <=> Uses(u, q)
  BY <1>2, <1>3 DEF Frame, InCall, Uses
<1>5. UseInv' /\ FreePagesUnused' /\ NoPageLost'
  <2>1. \A u \in Threads : InCall(u)' => pg'[u] \in Pages
    BY <1>2, <1>4 DEF UseInv
  <2>2. QED
    BY <1>2, <1>4, <2>1, SameUsers
<1>6. CountInv'
  <2>1. CountOK(t)'
    BY <1>2, <1>4 DEF CountInv, CountOK
  <2>2. \A u \in Threads : u # t => CountOK(u)'
    BY <1>2, <1>3, OtherCounts DEF CountInv, KeepsCounts
  <2>3. QED
    BY <2>1, <2>2 DEF CountInv
<1>7. PoolInv' /\ LockInv'
  BY <1>2, <1>3, ThreadsAssumption DEF Frame, PoolInv, LockInv
<1>8. QED
  BY <1>1, <1>5, <1>6, <1>7

\* The failure of grow_size.
LEMMA GrowFailsStep ==
    ASSUME PageInv, NEW t \in Threads, GrowFails(t)
    PROVE  PageInv'
<1> USE DEF PageInv
<1>1. PageTypeOK' /\ AssertsHold'
  BY DEF GrowFails, At, Goto, PageTypeOK, AssertsHold
<1>2. /\ pc[t] = "alloc" /\ pc'[t] = "idle" /\ pool = "ready"
      /\ mutex' = NoThread
      /\ UNCHANGED <<pool, num_pages, ref, free, pg, tmp, held, pins>>
  BY DEF GrowFails, At, Running, Goto, PageTypeOK
<1>3. Frame(t)
  BY DEF GrowFails, Goto, Frame, PageTypeOK
<1>4. \A u \in Threads : (InCall(u)' <=> InCall(u))
                          /\ \A q \in Pages : Uses(u, q)' <=> Uses(u, q)
  BY <1>2, <1>3 DEF Frame, InCall, Uses
<1>5. UseInv' /\ FreePagesUnused' /\ NoPageLost'
  <2>1. \A u \in Threads : InCall(u)' => pg'[u] \in Pages
    BY <1>2, <1>4 DEF UseInv
  <2>2. QED
    BY <1>2, <1>4, <2>1, SameUsers
<1>6. CountInv'
  <2>1. CountOK(t)'
    BY <1>2, <1>4 DEF CountInv, CountOK
  <2>2. \A u \in Threads : u # t => CountOK(u)'
    BY <1>2, <1>3, OtherCounts DEF CountInv, KeepsCounts
  <2>3. QED
    BY <2>1, <2>2 DEF CountInv
<1>7. PoolInv' /\ LockInv'
  BY <1>2, <1>3, ThreadsAssumption DEF Frame, PoolInv, LockInv
<1>8. QED
  BY <1>1, <1>5, <1>6, <1>7

\* grow_size: the new pages were in nobody's hands.
LEMMA GrowStep ==
    ASSUME PageInv, NEW t \in Threads, Grow(t)
    PROVE  PageInv'
<1> USE DEF PageInv
<1> DEFINE new == num_pages + GrowSize
<1>1. /\ pc[t] = "alloc" /\ pool = "ready" /\ free = <<>>
      /\ new \in Nat /\ num_pages < new /\ new <= MapLimit
      /\ num_pages \in Nat /\ num_pages' = new /\ free' = Stacked(num_pages, new)
      /\ UNCHANGED <<pool, mutex, proc, pc, pg, tmp, held, pins>>
  BY SizesAssumption DEF Grow, At, Running, calls, PageTypeOK
<1>2. /\ ref' \in [Pages -> Counts]
      /\ \A q \in Pages : ref'[q] = IF q \in num_pages..(new - 1) THEN 0 ELSE ref[q]
  BY RefsAssumption DEF Grow, PageTypeOK, Counts
<1>3. /\ free' \in Seq(Pages) /\ free' # <<>>
      /\ \A k \in DOMAIN free' : free'[k] >= num_pages /\ free'[k] < new
      /\ \A j, k \in DOMAIN free' : free'[j] = free'[k] => j = k
      /\ \A q \in num_pages..(new - 1) : \E k \in DOMAIN free' : free'[k] = q
  BY <1>1, StackedList
<1> HIDE DEF new
<1>4. PageTypeOK' /\ AssertsHold'
  <2>1. mapped' \subseteq Int
    <3>1. Products(num_pages) \subseteq Int
      BY <1>1, SizesAssumption DEF Products, Wrapped
    <3>2. PICK base \in Products(num_pages) :
              mapped' = mapped \cup base..(base + GrowSize - 1)
      BY DEF Grow
    <3>3. base \in Int /\ base..(base + GrowSize - 1) \subseteq Int
      BY <3>1, SizesAssumption
    <3>4. QED
      BY <3>2, <3>3 DEF PageTypeOK
  <2>2. QED
    BY <1>1, <1>2, <1>3, <2>1 DEF PageTypeOK, AssertsHold, Counts
<1>5. \A u \in Threads : (InCall(u)' <=> InCall(u))
                          /\ \A q \in Pages : Uses(u, q)' <=> Uses(u, q)
  BY <1>1 DEF InCall, Uses
<1>6. \A u \in Threads, q \in Pages :
          Uses(u, q) => q < num_pages /\ q \notin num_pages..(new - 1)
  BY <1>1, PagesAreNat DEF UseInv
<1>7. UseInv'
  BY <1>1, <1>3, <1>5, <1>6, PagesAreNat DEF UseInv
<1>8. FreePagesUnused'
  <2>1. \A k \in DOMAIN free' : free'[k] \in Pages /\ free'[k] \in num_pages..(new - 1)
    <3>1. \A k \in DOMAIN free' : free'[k] \in Pages
      BY <1>3
    <3>2. \A q \in Pages : q >= num_pages /\ q < new => q \in num_pages..(new - 1)
      BY <1>1, PagesAreNat
    <3>3. QED
      BY <1>3, <3>1, <3>2
  <2>2. \A k \in DOMAIN free' : ref'[free'[k]] = 0 /\ pins'[free'[k]] = 0
    BY <1>1, <1>2, <1>3, <2>1 DEF PoolInv
  <2>3. \A u \in Threads, q \in Pages :
            q \in num_pages..(new - 1) => ~(held'[u][q] > 0 \/ (InCall(u)' /\ pg'[u] = q))
    BY <1>5, <1>6 DEF Uses
  <2>4. QED
    BY <1>3, <2>1, <2>2, <2>3 DEF FreePagesUnused, Uses
<1>9. CountInv'
  BY <1>1, <1>2, <1>5, <1>6 DEF CountInv, CountOK, InCall, Uses, UseInv
<1>10. NoPageLost'
  <2>1. \A q \in Pages : q < num_pages => pins[q] > 0 \/ \E u \in Threads : Uses(u, q)
    BY <1>1 DEF NoPageLost, IsFree
  <2>2. \A q \in Pages : q < new => q < num_pages \/ q \in num_pages..(new - 1)
    BY <1>1, PagesAreNat
  <2>3. QED
    BY <1>1, <1>3, <1>5, <2>1, <2>2 DEF NoPageLost, IsFree
<1>11. PoolInv' /\ LockInv'
  <2>1. \A q \in Pages : q >= new => q >= num_pages
    BY <1>1, PagesAreNat
  <2>2. QED
    BY <1>1, <1>3, <2>1 DEF PoolInv, LockInv
<1>12. QED
  BY <1>4, <1>7, <1>8, <1>9, <1>10, <1>11

\* SLIST_FIRST.
LEMMA AllocFirstStep ==
    ASSUME PageInv, NEW t \in Threads, AllocFirst(t)
    PROVE  PageInv'
<1> USE DEF PageInv
<1>1. /\ pc[t] = "alloc" /\ pc'[t] = "remove" /\ pool = "ready"
      /\ free # <<>> /\ pg'[t] = free[1] /\ free[1] \in Pages
      /\ UNCHANGED <<pool, num_pages, mapped, ref, free, mutex, proc, tmp, held, pins>>
  BY DEF AllocFirst, At, Running, Goto, PageTypeOK
<1>2. PageTypeOK' /\ AssertsHold'
  BY <1>1, PagesAreNat DEF AllocFirst, Goto, PageTypeOK, AssertsHold
<1>3. Frame(t)
  BY DEF AllocFirst, Goto, Frame, PageTypeOK
<1>4. \A u \in Threads : (InCall(u)' <=> InCall(u))
                          /\ \A q \in Pages : Uses(u, q)' <=> Uses(u, q)
  BY <1>1, <1>3 DEF Frame, InCall, Uses
<1>5. UseInv' /\ FreePagesUnused' /\ NoPageLost'
  <2>1. \A u \in Threads : InCall(u)' => pg'[u] \in Pages
    BY <1>1, <1>3, <1>4 DEF UseInv, Frame
  <2>2. QED
    BY <1>1, <1>4, <2>1, SameUsers
<1>6. CountInv'
  <2>1. CountOK(t)'
    BY <1>1, <1>4 DEF CountInv, CountOK
  <2>2. \A u \in Threads : u # t => CountOK(u)'
    BY <1>1, <1>3, OtherCounts DEF CountInv, KeepsCounts
  <2>3. QED
    BY <2>1, <2>2 DEF CountInv
<1>7. PoolInv' /\ LockInv'
  BY <1>1, <1>3 DEF Frame, PoolInv, LockInv
<1>8. QED
  BY <1>2, <1>5, <1>6, <1>7

\* SLIST_REMOVE_HEAD: the first page passes from the list to the thread.
LEMMA AllocRemoveStep ==
    ASSUME PageInv, NEW t \in Threads, AllocRemove(t)
    PROVE  PageInv'
<1> USE DEF PageInv
<1> DEFINE first == free[1]
<1>1. /\ pc[t] = "remove" /\ pc'[t] = "get" /\ pool = "ready"
      /\ mutex' = NoThread /\ free' = Tail(free)
      /\ UNCHANGED <<pool, num_pages, mapped, ref, proc, pg, tmp, held, pins>>
  BY DEF AllocRemove, At, Running, Goto, PageTypeOK
<1>2. free \in Seq(Pages) /\ free # <<>> /\ pg[t] = first
  BY <1>1 DEF LockInv, PageTypeOK
<1>3. /\ free' \in Seq(Pages) /\ DOMAIN free' = 1..(Len(free) - 1)
      /\ DOMAIN free = 1..Len(free) /\ Len(free) \in Nat /\ Len(free) > 0
      /\ \A k \in DOMAIN free' : free'[k] = free[k + 1] /\ k + 1 \in DOMAIN free
  BY <1>1, <1>2
<1>4. 1 \in DOMAIN free /\ first \in Pages
  BY <1>2, <1>3
<1> HIDE DEF first
<1>5. PageTypeOK' /\ AssertsHold'
  BY <1>1, <1>3 DEF AllocRemove, Goto, PageTypeOK, AssertsHold
<1>6. Frame(t)
  BY DEF AllocRemove, Goto, Frame, PageTypeOK
<1>7. \A q \in Pages : (\E k \in DOMAIN free' : free'[k] = q)
                        <=> q # first /\ \E k \in DOMAIN free : free[k] = q
  <2>1. \A k \in DOMAIN free' : free'[k] # first
    <3>1. SUFFICES ASSUME NEW k \in DOMAIN free', free'[k] = first PROVE FALSE
      OBVIOUS
    <3>2. free[k + 1] = free[1] /\ k + 1 \in DOMAIN free /\ k + 1 # 1
      BY <1>3, <3>1 DEF first
    <3>3. QED
      BY <1>4, <3>2 DEF FreePagesUnused
  <2>2. \A k \in DOMAIN free : free[k] # first => k - 1 \in DOMAIN free'
                                                  /\ free'[k - 1] = free[k]
    BY <1>3 DEF first
  <2>3. QED
    BY <1>3, <2>1, <2>2
<1>8. /\ \A u \in Threads : u # t => (InCall(u)' <=> InCall(u))
      /\ \A u \in Threads, q \in Pages :
            Uses(u, q)' <=> Uses(u, q) \/ (u = t /\ q = first)
      /\ InCall(t)'
  BY <1>1, <1>2, <1>6 DEF Frame, InCall, Uses
<1>9. ref[first] = pins[first] /\ first < num_pages /\ \A u \in Threads : ~Uses(u, first)
  BY <1>4 DEF FreePagesUnused, UseInv, first
<1>10. UseInv'
  <2>1. \A u \in Threads : InCall(u)' => pg'[u] \in Pages
    BY <1>1, <1>2, <1>4, <1>8 DEF UseInv
  <2>2. \A k \in DOMAIN free' : free'[k] < num_pages'
    BY <1>1, <1>3 DEF UseInv
  <2>3. QED
    BY <1>1, <1>8, <1>9, <2>1, <2>2 DEF UseInv
<1>11. FreePagesUnused'
  <2>1. \A j, k \in DOMAIN free' : free'[j] = free'[k] => j = k
    BY <1>3 DEF FreePagesUnused
  <2>2. \A k \in DOMAIN free' : /\ free'[k] \in Pages /\ free'[k] # first
                                /\ ref[free'[k]] = pins[free'[k]]
                                /\ \A u \in Threads : ~Uses(u, free'[k])
    BY <1>3, <1>7 DEF FreePagesUnused
  <2>3. \A u \in Threads, q \in Pages : ~Uses(u, q) /\ q # first =>
            ~(held'[u][q] > 0 \/ (InCall(u)' /\ pg'[u] = q))
    BY <1>8 DEF Uses
  <2>4. QED
    BY <1>1, <2>1, <2>2, <2>3 DEF FreePagesUnused, Uses
<1>12. CountInv'
  <2>1. CountOK(t)'
    <3>1. held[t][first] = 0
      BY <1>4, <1>9 DEF PageTypeOK, Uses
    <3>2. \A q \in Pages : Uses(t, q)' => ref'[q] = held'[t][q] + pins'[q]
      <4>1. SUFFICES ASSUME NEW q \in Pages, Uses(t, q)'
                     PROVE  ref[q] = held[t][q] + pins[q]
        BY <1>1
      <4>2. CASE q = first
        BY <1>4, <1>9, <3>1, <4>2 DEF PageTypeOK
      <4>3. CASE q # first
        BY <1>1, <1>8, <4>1, <4>3 DEF CountInv, CountOK
      <4>4. QED
        BY <4>2, <4>3
    <3>3. QED
      BY <1>1, <1>2, <3>1, <3>2, RefsAssumption DEF CountOK
  <2>2. \A u \in Threads : u # t => CountOK(u)'
    BY <1>1, <1>6, OtherCounts DEF CountInv, KeepsCounts
  <2>3. QED
    BY <2>1, <2>2 DEF CountInv
<1>13. NoPageLost'
  BY <1>1, <1>7, <1>8 DEF NoPageLost, IsFree
<1>14. PoolInv' /\ LockInv'
  BY <1>1, <1>6, ThreadsAssumption DEF Frame, PoolInv, LockInv
<1>15. QED
  BY <1>5, <1>10, <1>11, <1>12, <1>13, <1>14

-----------------------------------------------------------------------------
(***************************************************************************)
(* dune_page_get.                                                          *)
(***************************************************************************)

\* A get of a page the thread owns.
LEMMA CallGetStep ==
    ASSUME PageInv, NEW t \in Threads, NEW p \in Pages, CallGet(t, p)
    PROVE  PageInv'
<1> USE DEF PageInv
<1>1. /\ pc[t] = "idle" /\ pc'[t] = "get" /\ pool = "ready"
      /\ pg'[t] = p /\ held[t][p] > 0 /\ held[t][p] < MaxRefs
      /\ UNCHANGED <<pool, num_pages, mapped, ref, free, mutex, proc, tmp, held, pins>>
  BY RefsAssumption DEF CallGet, At, Running, Goto, PageTypeOK
<1>2. PageTypeOK' /\ AssertsHold'
  BY <1>1, PagesAreNat DEF CallGet, Goto, PageTypeOK, AssertsHold
<1>3. Frame(t)
  BY DEF CallGet, Goto, Frame, PageTypeOK
<1>4. /\ \A u \in Threads : u # t => (InCall(u)' <=> InCall(u))
      /\ \A u \in Threads, q \in Pages : Uses(u, q)' <=> Uses(u, q)
  BY <1>1, <1>3 DEF Frame, InCall, Uses
<1>5. UseInv' /\ FreePagesUnused' /\ NoPageLost'
  <2>1. \A u \in Threads : InCall(u)' => pg'[u] \in Pages
    BY <1>1, <1>3, <1>4 DEF UseInv, Frame
  <2>2. QED
    BY <1>1, <1>4, <2>1, SameUsers
<1>6. CountInv'
  <2>1. CountOK(t)'
    BY <1>1, <1>4 DEF CountInv, CountOK
  <2>2. \A u \in Threads : u # t => CountOK(u)'
    BY <1>1, <1>3, OtherCounts DEF CountInv, KeepsCounts
  <2>3. QED
    BY <2>1, <2>2 DEF CountInv
<1>7. PoolInv' /\ LockInv'
  BY <1>1, <1>3, ThreadsAssumption DEF Frame, PoolInv, LockInv
<1>8. QED
  BY <1>2, <1>5, <1>6, <1>7

\* The load of ref++: the assertion holds, the page is one of the pool.
LEMMA GetLoadStep ==
    ASSUME PageInv, NEW t \in Threads, GetLoad(t)
    PROVE  PageInv'
<1> USE DEF PageInv
<1>1. pc[t] = "get" /\ pool = "ready" /\ InCall(t) /\ pg[t] \in Pages
  BY DEF GetLoad, At, Running, InCall, UseInv
<1>2. InPool(pg[t])
  BY <1>1 DEF InPool, UseInv, Uses
<1>3. /\ pc'[t] = "get_store" /\ tmp'[t] = ref[pg[t]] /\ ref[pg[t]] \in Counts
      /\ UNCHANGED <<pool, num_pages, mapped, ref, free, mutex, proc, pg, held, pins>>
  BY <1>1, <1>2 DEF GetLoad, Goto, PageTypeOK, Counts
<1>4. PageTypeOK' /\ AssertsHold'
  BY <1>2, <1>3 DEF GetLoad, Goto, PageTypeOK, AssertsHold, Counts
<1>5. Frame(t)
  BY <1>2 DEF GetLoad, Goto, Frame, PageTypeOK
<1>6. \A u \in Threads : (InCall(u)' <=> InCall(u))
                          /\ \A q \in Pages : Uses(u, q)' <=> Uses(u, q)
  BY <1>1, <1>3, <1>5 DEF Frame, InCall, Uses
<1>7. UseInv' /\ FreePagesUnused' /\ NoPageLost'
  <2>1. \A u \in Threads : InCall(u)' => pg'[u] \in Pages
    BY <1>3, <1>6 DEF UseInv
  <2>2. QED
    BY <1>3, <1>6, <2>1, SameUsers
<1>8. CountInv'
  <2>1. CountOK(t)'
    BY <1>1, <1>3, <1>6 DEF CountInv, CountOK
  <2>2. \A u \in Threads : u # t => CountOK(u)'
    BY <1>3, <1>5, OtherCounts DEF CountInv, KeepsCounts
  <2>3. QED
    BY <2>1, <2>2 DEF CountInv
<1>9. PoolInv' /\ LockInv'
  BY <1>1, <1>3, <1>5, ThreadsAssumption DEF Frame, PoolInv, LockInv
<1>10. QED
  BY <1>4, <1>7, <1>8, <1>9

\* The store of ref++: count and references grow together.
LEMMA GetStoreStep ==
    ASSUME PageInv, ~Sharing, NEW t \in Threads, GetStore(t)
    PROVE  PageInv'
<1> USE DEF PageInv
<1> DEFINE p == pg[t]
<1>1. /\ pc[t] = "get_store" /\ pool = "ready" /\ InCall(t) /\ p \in Pages
      /\ Uses(t, p)
  BY DEF GetStore, At, Running, InCall, UseInv, Uses
<1>2. /\ held[t][p] \in Nat /\ held[t][p] < MaxRefs
      /\ pins[p] \in 0..MaxPins
      /\ tmp[t] = held[t][p] + pins[p] /\ ref[p] = held[t][p] + pins[p]
  BY <1>1 DEF CountInv, CountOK, PageTypeOK
<1>3. Inc(tmp[t]) = held[t][p] + pins[p] + 1 /\ Inc(tmp[t]) \in Counts
      /\ held[t][p] + 1 \in 0..MaxRefs
  BY <1>2, CountArith, RefsAssumption DEF Counts
<1>4. held' = [held EXCEPT ![t][p] = held[t][p] + 1]
  BY DEF GetStore
<1>5. /\ held' \in [Threads -> [Pages -> 0..MaxRefs]]
      /\ \A u \in Threads, q \in Pages :
             held'[u][q] = IF u = t /\ q = p THEN held[t][p] + 1 ELSE held[u][q]
  <2>1. held \in [Threads -> [Pages -> 0..MaxRefs]]
    BY DEF PageTypeOK
  <2>2. QED
    BY <1>1, <1>3, <1>4, <2>1, HeldUpdate
<1>6. /\ pc'[t] = "idle" /\ ref' \in [Pages -> Counts]
      /\ ref'[p] = held[t][p] + pins[p] + 1
      /\ \A q \in Pages : q # p => ref'[q] = ref[q]
      /\ UNCHANGED <<pool, num_pages, mapped, free, mutex, proc, pg, tmp, pins>>
  BY <1>1, <1>3 DEF GetStore, Goto, PageTypeOK, Counts
<1>7. PageTypeOK' /\ AssertsHold'
  BY <1>5, <1>6 DEF GetStore, Goto, PageTypeOK, AssertsHold, Counts
<1>8. Frame(t)
  BY <1>5 DEF GetStore, Goto, Frame, PageTypeOK
<1>9. /\ \A u \in Threads : InCall(u)' => InCall(u)
      /\ \A u \in Threads, q \in Pages : Uses(u, q)' <=> Uses(u, q)
  <2>1. \A u \in Threads : u # t => (InCall(u)' <=> InCall(u))
                              /\ \A q \in Pages : Uses(u, q)' <=> Uses(u, q)
    BY <1>8 DEF Frame, InCall, Uses
  <2>2. ~InCall(t)' /\ \A q \in Pages : Uses(t, q)' <=> Uses(t, q)
    BY <1>1, <1>2, <1>5, <1>6 DEF InCall, Uses
  <2>3. QED
    BY <2>1, <2>2
<1> HIDE DEF p
<1>10. UseInv' /\ FreePagesUnused' /\ NoPageLost'
  <2>1. \A u \in Threads : InCall(u)' => pg'[u] \in Pages
    BY <1>6, <1>9 DEF UseInv
  <2>2. QED
    BY <1>1, <1>6, <1>9, <2>1, SameUsers
<1>11. CountInv'
  <2>1. CountOK(t)'
    <3>1. ASSUME NEW q \in Pages, Uses(t, q) PROVE ref'[q] = held'[t][q] + pins'[q]
      <4>1. CASE q = p
        BY <1>1, <1>2, <1>5, <1>6, <4>1
      <4>2. CASE q # p
        <5>1. ref[q] = held[t][q] + pins[q]
          BY <1>1, <3>1, <4>2 DEF CountInv, CountOK
        <5>2. QED
          BY <1>5, <1>6, <4>2, <5>1
      <4>3. QED
        BY <4>1, <4>2
    <3>2. QED
      BY <1>6, <1>9, <3>1 DEF CountOK
  <2>2. \A u \in Threads : u # t => KeepsCounts(u)
    BY <1>1, <1>6 DEF KeepsCounts, UseInv
  <2>3. \A u \in Threads : u # t => CountOK(u)'
    BY <1>6, <1>8, <2>2, OtherCounts DEF CountInv
  <2>4. QED
    BY <2>1, <2>3 DEF CountInv
<1>12. PoolInv' /\ LockInv'
  BY <1>1, <1>6, <1>8, ThreadsAssumption DEF Frame, PoolInv, LockInv
<1>13. QED
  BY <1>7, <1>10, <1>11, <1>12

-----------------------------------------------------------------------------
(***************************************************************************)
(* dune_page_put and dune_page_free.                                       *)
(***************************************************************************)

\* The load of ref--: the caller's reference is gone, the count not yet.
LEMMA PutLoadStep ==
    ASSUME PageInv, NEW t \in Threads, NEW p \in Pages, PutLoad(t, p)
    PROVE  PageInv'
<1> USE DEF PageInv
<1>1. /\ pc[t] = "idle" /\ pool = "ready" /\ held[t][p] > 0 /\ Uses(t, p)
      /\ held[t][p] \in 0..MaxRefs /\ pins[p] \in 0..MaxPins
      /\ ref[p] = held[t][p] + pins[p]
  BY DEF PutLoad, At, Running, PageTypeOK, Uses, CountInv, CountOK
<1>2. InPool(p)
  BY <1>1 DEF InPool, UseInv
<1>3. /\ held' \in [Threads -> [Pages -> 0..MaxRefs]]
      /\ \A u \in Threads, q \in Pages :
             held'[u][q] = IF u = t /\ q = p THEN held[t][p] - 1 ELSE held[u][q]
  <2>1. held \in [Threads -> [Pages -> 0..MaxRefs]]
    BY DEF PageTypeOK
  <2>2. held[t][p] - 1 \in 0..MaxRefs
    BY <1>1, RefsAssumption
  <2>3. held' = [held EXCEPT ![t][p] = held[t][p] - 1]
    BY DEF PutLoad
  <2>4. QED
    BY <2>1, <2>2, <2>3, HeldUpdate
<1>4. /\ pc'[t] = "put_store" /\ pg'[t] = p /\ tmp'[t] = ref[p]
      /\ ref[p] \in Counts
      /\ UNCHANGED <<pool, num_pages, mapped, ref, free, mutex, proc, pins>>
  BY <1>2 DEF PutLoad, Goto, PageTypeOK, Counts
<1>5. PageTypeOK' /\ AssertsHold'
  <2>1. /\ pc' = [pc EXCEPT ![t] = "put_store"] /\ pg' = [pg EXCEPT ![t] = p]
        /\ tmp' = [tmp EXCEPT ![t] = ref[p]]
    BY <1>2 DEF PutLoad, Goto
  <2>2. p \in Nat
    BY PagesAreNat
  <2>3. QED
    BY <1>3, <1>4, <2>1, <2>2 DEF PageTypeOK, AssertsHold, Counts
<1>6. Frame(t)
  BY <1>2, <1>3 DEF PutLoad, Goto, Frame, PageTypeOK
<1>7. /\ \A u \in Threads : u # t => (InCall(u)' <=> InCall(u))
      /\ \A u \in Threads, q \in Pages : Uses(u, q)' <=> Uses(u, q)
  <2>1. \A u \in Threads : u # t => (InCall(u)' <=> InCall(u))
                              /\ \A q \in Pages : Uses(u, q)' <=> Uses(u, q)
    BY <1>6 DEF Frame, InCall, Uses
  <2>2. \A q \in Pages : Uses(t, q)' <=> Uses(t, q)
    BY <1>1, <1>3, <1>4 DEF InCall, Uses
  <2>3. QED
    BY <2>1, <2>2
<1>8. UseInv' /\ FreePagesUnused' /\ NoPageLost'
  <2>1. \A u \in Threads : InCall(u)' => pg'[u] \in Pages
    BY <1>4, <1>6, <1>7 DEF UseInv, Frame
  <2>2. QED
    BY <1>4, <1>7, <2>1, SameUsers
<1>9. CountInv'
  <2>1. CountOK(t)'
    BY <1>1, <1>3, <1>4, <1>7, RefsAssumption DEF CountInv, CountOK
  <2>2. \A u \in Threads : u # t => CountOK(u)'
    BY <1>4, <1>6, OtherCounts DEF CountInv, KeepsCounts
  <2>3. QED
    BY <2>1, <2>2 DEF CountInv
<1>10. PoolInv' /\ LockInv'
  BY <1>1, <1>4, <1>6, ThreadsAssumption DEF Frame, PoolInv, LockInv
<1>11. QED
  BY <1>5, <1>8, <1>9, <1>10

\* The store of ref--.
LEMMA PutStoreStep ==
    ASSUME PageInv, NEW t \in Threads, PutStore(t)
    PROVE  PageInv'
<1> USE DEF PageInv
<1> DEFINE p == pg[t]
<1>1. /\ pc[t] = "put_store" /\ pool = "ready" /\ InCall(t) /\ p \in Pages
      /\ Uses(t, p)
  BY DEF PutStore, At, Running, InCall, UseInv, Uses
<1>2. /\ held[t][p] \in Nat /\ pins[p] \in Nat /\ tmp[t] \in Counts
      /\ tmp[t] = held[t][p] + pins[p] + 1
  BY <1>1 DEF CountInv, CountOK, PageTypeOK, Counts
<1>3. Dec(tmp[t]) = held[t][p] + pins[p] /\ Dec(tmp[t]) \in Counts
  BY <1>2, CountArith DEF Counts
<1>4. /\ pc'[t] = "put_check" /\ ref' \in [Pages -> Counts]
      /\ ref'[p] = Dec(tmp[t])
      /\ \A q \in Pages : q # p => ref'[q] = ref[q]
      /\ UNCHANGED <<pool, num_pages, mapped, free, mutex, proc, pg, tmp, held, pins>>
  BY <1>1, <1>3 DEF PutStore, Goto, PageTypeOK, Counts
<1>5. PageTypeOK' /\ AssertsHold'
  BY <1>4 DEF PutStore, Goto, PageTypeOK, AssertsHold, Counts
<1>6. Frame(t)
  BY DEF PutStore, Goto, Frame, PageTypeOK
<1>7. \A u \in Threads : (InCall(u)' <=> InCall(u))
                          /\ \A q \in Pages : Uses(u, q)' <=> Uses(u, q)
  BY <1>1, <1>4, <1>6 DEF Frame, InCall, Uses
<1> HIDE DEF p
<1>8. UseInv' /\ FreePagesUnused' /\ NoPageLost'
  <2>1. \A u \in Threads : InCall(u)' => pg'[u] \in Pages
    BY <1>4, <1>7 DEF UseInv
  <2>2. QED
    BY <1>1, <1>4, <1>7, <2>1, SameUsers
<1>9. CountInv'
  <2>1. CountOK(t)'
    BY <1>1, <1>2, <1>3, <1>4, <1>7 DEF CountInv, CountOK, p
  <2>2. \A u \in Threads : u # t => KeepsCounts(u)
    BY <1>1, <1>4 DEF KeepsCounts, UseInv
  <2>3. \A u \in Threads : u # t => CountOK(u)'
    BY <1>4, <1>6, <2>2, OtherCounts DEF CountInv
  <2>4. QED
    BY <2>1, <2>3 DEF CountInv
<1>10. PoolInv' /\ LockInv'
  BY <1>1, <1>4, <1>6, ThreadsAssumption DEF Frame, PoolInv, LockInv
<1>11. QED
  BY <1>5, <1>8, <1>9, <1>10

\* The test of the count: the value stored and the value in memory agree.
LEMMA PutCheckStep ==
    ASSUME PageInv, NEW t \in Threads, PutCheck(t)
    PROVE  PageInv'
<1> USE DEF PageInv
<1> DEFINE p == pg[t]
<1>1. /\ pc[t] = "put_check" /\ pool = "ready" /\ InCall(t) /\ p \in Pages
      /\ Uses(t, p)
  BY DEF PutCheck, At, Running, InCall, UseInv, Uses
<1>2. /\ held[t][p] \in Nat /\ pins[p] \in Nat
      /\ ref[p] = held[t][p] + pins[p] /\ Dec(tmp[t]) = ref[p]
  BY <1>1 DEF CountInv, CountOK, PageTypeOK
<1>3. /\ pc' = [pc EXCEPT ![t] = IF ref[p] = 0 THEN "free" ELSE "idle"]
      /\ UNCHANGED <<pool, num_pages, mapped, ref, free, mutex, proc, pg, tmp, held, pins>>
  BY <1>2 DEF PutCheck, Goto
<1>4. PageTypeOK' /\ AssertsHold'
  BY <1>3 DEF PageTypeOK, AssertsHold
<1>5. Frame(t) /\ pc'[t] = IF ref[p] = 0 THEN "free" ELSE "idle"
  BY <1>3 DEF Frame, PageTypeOK
<1>6. /\ \A u \in Threads : InCall(u)' => InCall(u)
      /\ \A u \in Threads, q \in Pages :
             (Uses(u, q)' => Uses(u, q)) /\ (Uses(u, q) => Uses(u, q)' \/ pins[q] > 0)
  BY <1>1, <1>2, <1>3, <1>5 DEF Frame, InCall, Uses
<1> HIDE DEF p
<1>7. UseInv' /\ FreePagesUnused' /\ NoPageLost'
  <2>1. \A u \in Threads : InCall(u)' => pg'[u] \in Pages
    BY <1>3, <1>6 DEF UseInv
  <2>2. QED
    BY <1>3, <1>6, <2>1, SameUsers
<1>8. CountInv'
  <2>1. CountOK(t)'
    BY <1>1, <1>2, <1>3, <1>5, <1>6 DEF CountInv, CountOK, p
  <2>2. \A u \in Threads : u # t => CountOK(u)'
    BY <1>3, <1>5, OtherCounts DEF CountInv, KeepsCounts
  <2>3. QED
    BY <2>1, <2>2 DEF CountInv
<1>9. PoolInv' /\ LockInv'
  BY <1>1, <1>3, <1>5, ThreadsAssumption DEF Frame, PoolInv, LockInv
<1>10. QED
  BY <1>4, <1>7, <1>8, <1>9

\* The assertion of dune_page_free holds.
LEMMA FreeAssertStep ==
    ASSUME PageInv, NEW t \in Threads, FreeAssert(t)
    PROVE  PageInv'
<1> USE DEF PageInv
<1>1. /\ pc[t] = "free" /\ pool = "ready" /\ InCall(t) /\ pg[t] \in Pages
      /\ Uses(t, pg[t])
  BY DEF FreeAssert, At, Running, InCall, UseInv, Uses
<1>2. ref[pg[t]] = 0
  BY <1>1 DEF CountInv, CountOK
<1>3. /\ pc' = [pc EXCEPT ![t] = "insert"]
      /\ UNCHANGED <<pool, num_pages, mapped, ref, free, mutex, proc, pg, tmp, held, pins>>
  BY <1>2 DEF FreeAssert, Goto
<1>4. PageTypeOK' /\ AssertsHold'
  BY <1>3 DEF PageTypeOK, AssertsHold
<1>5. Frame(t) /\ pc'[t] = "insert"
  BY <1>3 DEF Frame, PageTypeOK
<1>6. \A u \in Threads : (InCall(u)' <=> InCall(u))
                          /\ \A q \in Pages : Uses(u, q)' <=> Uses(u, q)
  BY <1>1, <1>3, <1>5 DEF Frame, InCall, Uses
<1>7. UseInv' /\ FreePagesUnused' /\ NoPageLost'
  <2>1. \A u \in Threads : InCall(u)' => pg'[u] \in Pages
    BY <1>3, <1>6 DEF UseInv
  <2>2. QED
    BY <1>3, <1>6, <2>1, SameUsers
<1>8. CountInv'
  <2>1. CountOK(t)'
    BY <1>1, <1>3, <1>5, <1>6 DEF CountInv, CountOK
  <2>2. \A u \in Threads : u # t => CountOK(u)'
    BY <1>3, <1>5, OtherCounts DEF CountInv, KeepsCounts
  <2>3. QED
    BY <2>1, <2>2 DEF CountInv
<1>9. PoolInv' /\ LockInv'
  BY <1>1, <1>3, <1>5, ThreadsAssumption DEF Frame, PoolInv, LockInv
<1>10. QED
  BY <1>4, <1>7, <1>8, <1>9

\* The page passes from the thread to the list.
LEMMA FreeInsertStep ==
    ASSUME PageInv, NEW t \in Threads, FreeInsert(t)
    PROVE  PageInv'
<1> USE DEF PageInv
<1> DEFINE p == pg[t]
<1>1. /\ pc[t] = "insert" /\ pool = "ready" /\ InCall(t) /\ p \in Pages
      /\ Uses(t, p) /\ mutex = NoThread
  BY DEF FreeInsert, At, Running, InCall, UseInv, Uses
<1>2. held[t][p] = 0 /\ ref[p] = 0 /\ pins[p] = 0 /\ p < num_pages
  BY <1>1 DEF CountInv, CountOK, UseInv
<1>3. /\ pc'[t] = "idle" /\ free \in Seq(Pages) /\ free' = <<p>> \o free
      /\ UNCHANGED <<pool, num_pages, mapped, ref, mutex, proc, pg, tmp, held, pins>>
  BY DEF FreeInsert, Goto, PageTypeOK
<1> HIDE DEF p
<1>4. /\ free' \in Seq(Pages) /\ Len(free) \in Nat
      /\ DOMAIN free = 1..Len(free) /\ DOMAIN free' = 1..(Len(free) + 1)
      /\ free'[1] = p
      /\ \A k \in 2..(Len(free) + 1) : free'[k] = free[k - 1] /\ k - 1 \in DOMAIN free
  BY <1>1, <1>3
<1>5. PageTypeOK' /\ AssertsHold'
  BY <1>3, <1>4 DEF FreeInsert, Goto, PageTypeOK, AssertsHold
<1>6. Frame(t)
  BY DEF FreeInsert, Goto, Frame, PageTypeOK
<1>7. /\ \A u \in Threads : InCall(u)' => InCall(u)
      /\ \A u \in Threads, q \in Pages :
             Uses(u, q)' <=> Uses(u, q) /\ ~(u = t /\ q = p)
  <2>1. \A u \in Threads : u # t => (InCall(u)' <=> InCall(u))
                              /\ \A q \in Pages : Uses(u, q)' <=> Uses(u, q)
    BY <1>6 DEF Frame, InCall, Uses
  <2>2. ~InCall(t)' /\ \A q \in Pages : Uses(t, q)' <=> Uses(t, q) /\ q # p
    BY <1>1, <1>2, <1>3 DEF InCall, Uses, p
  <2>3. QED
    BY <2>1, <2>2
<1>8. \A k \in DOMAIN free : free[k] # p /\ free[k] \in Pages
  BY <1>1, <1>3 DEF FreePagesUnused
<1>9. UseInv'
  <2>1. \A u \in Threads : InCall(u)' => pg'[u] \in Pages
    BY <1>3, <1>7 DEF UseInv
  <2>2. \A k \in DOMAIN free' : free'[k] < num_pages'
    <3>1. \A k \in DOMAIN free' : k = 1 \/ k \in 2..(Len(free) + 1)
      BY <1>4
    <3>2. QED
      BY <1>2, <1>3, <1>4, <3>1 DEF UseInv
  <2>3. QED
    BY <1>3, <1>7, <2>1, <2>2 DEF UseInv
<1>10. FreePagesUnused'
  <2>1. \A k \in DOMAIN free' : k = 1 \/ k \in 2..(Len(free) + 1)
    BY <1>4
  <2>2. \A j, k \in DOMAIN free' : free'[j] = free'[k] => j = k
    <3>1. \A k \in 2..(Len(free) + 1) : free'[k] # p
      BY <1>4, <1>8
    <3>2. \A j, k \in 2..(Len(free) + 1) : free'[j] = free'[k] => j = k
      BY <1>4 DEF FreePagesUnused
    <3>3. QED
      BY <1>4, <2>1, <3>1, <3>2
  <2>3. \A q \in Pages : (q = p \/ \E k \in DOMAIN free : free[k] = q) =>
            /\ ref[q] = pins[q]
            /\ \A u \in Threads : ~(held'[u][q] > 0 \/ (InCall(u)' /\ pg'[u] = q))
    <3>1. \A u \in Threads : Uses(u, p) => u = t
      BY <1>1 DEF UseInv
    <3>2. \A q \in Pages : (q = p \/ \E k \in DOMAIN free : free[k] = q) =>
              ref[q] = pins[q] /\ \A u \in Threads : ~Uses(u, q)'
      BY <1>2, <1>7, <3>1 DEF FreePagesUnused
    <3>3. QED
      BY <3>2 DEF Uses
  <2>4. \A k \in DOMAIN free' : /\ free'[k] \in Pages
                                /\ free'[k] = p \/ \E j \in DOMAIN free : free[j] = free'[k]
    BY <1>1, <1>4, <1>8, <2>1
  <2>5. QED
    BY <1>3, <2>2, <2>3, <2>4 DEF FreePagesUnused, Uses
<1>11. CountInv'
  <2>1. CountOK(t)'
    BY <1>1, <1>3, <1>7 DEF CountInv, CountOK
  <2>2. \A u \in Threads : u # t => CountOK(u)'
    BY <1>3, <1>6, OtherCounts DEF CountInv, KeepsCounts
  <2>3. QED
    BY <2>1, <2>2 DEF CountInv
<1>12. NoPageLost'
  <2>1. \A k \in DOMAIN free : k + 1 \in DOMAIN free' /\ free'[k + 1] = free[k]
    BY <1>4
  <2>2. \A q \in Pages : IsFree(q) \/ q = p => IsFree(q)'
    BY <1>4, <2>1 DEF IsFree
  <2>3. QED
    BY <1>3, <1>7, <2>2 DEF NoPageLost
<1>13. PoolInv' /\ LockInv'
  BY <1>1, <1>3, <1>6, ThreadsAssumption DEF Frame, PoolInv, LockInv
<1>14. QED
  BY <1>5, <1>9, <1>10, <1>11, <1>12, <1>13

\* A clone of pgroot counts a page of the pool, whoever has it or nobody.
LEMMA ClonePinStep ==
    ASSUME PageInv, NEW p \in Pages, ClonePin(p)
    PROVE  PageInv'
<1> USE DEF PageInv
<1>1. /\ pool = "ready" /\ p < num_pages /\ \A u \in Threads : pc[u] = "idle"
      /\ pins[p] \in 0..MaxPins /\ pins[p] < MaxPins /\ ref[p] \in Counts
      /\ UNCHANGED <<pool, num_pages, mapped, free, mutex, proc, pc, pg, tmp, held>>
  BY DEF ClonePin, Running, InPool, PageTypeOK, Counts
<1>2. /\ pins' \in [Pages -> 0..MaxPins] /\ pins'[p] = pins[p] + 1
      /\ \A q \in Pages : q # p => pins'[q] = pins[q]
  <2>1. pins[p] + 1 \in 0..MaxPins
    BY <1>1, RefsAssumption
  <2>2. QED
    BY <2>1 DEF ClonePin, PageTypeOK
<1>3. /\ ref' \in [Pages -> Counts]
      /\ \A q \in Pages : q # p => ref'[q] = ref[q]
      /\ ref[p] < RefMod - 1 => ref'[p] = ref[p] + 1
  BY <1>1, CountArith DEF ClonePin, PageTypeOK, Counts
<1>4. /\ \A u \in Threads : ~InCall(u) /\ ~InCall(u)'
      /\ \A u \in Threads, q \in Pages : Uses(u, q)' <=> Uses(u, q)
  BY <1>1 DEF InCall, Uses
<1>5. PageTypeOK' /\ AssertsHold'
  BY <1>1, <1>2, <1>3 DEF PageTypeOK, AssertsHold, Counts
<1>6. UseInv'
  BY <1>1, <1>4 DEF UseInv
<1>7. PoolInv' /\ LockInv'
  <2>1. \A q \in Pages : q >= num_pages => q # p
    BY <1>1, PagesAreNat DEF PageTypeOK
  <2>2. QED
    BY <1>1, <1>2, <2>1 DEF PoolInv, LockInv
<1>8. FreePagesUnused'
  <2>1. \A k \in DOMAIN free : free[k] \in Pages /\ ref[free[k]] = pins[free[k]]
    BY DEF FreePagesUnused, PageTypeOK
  <2>2. \A k \in DOMAIN free : ref'[free[k]] = pins'[free[k]]
    <3>1. SUFFICES ASSUME NEW k \in DOMAIN free, free[k] = p PROVE ref'[p] = pins'[p]
      BY <1>2, <1>3, <2>1
    <3>2. ref[p] = pins[p] /\ ref[p] < RefMod - 1
      BY <1>1, <2>1, <3>1, RefsAssumption
    <3>3. QED
      BY <1>2, <1>3, <3>2
  <2>3. \A q \in Pages, u \in Threads :
            ~Uses(u, q) => ~(held'[u][q] > 0 \/ (InCall(u)' /\ pg'[u] = q))
    BY <1>4 DEF Uses
  <2>4. QED
    BY <1>1, <2>1, <2>2, <2>3 DEF FreePagesUnused, Uses
<1>9. NoPageLost'
  <2>1. \A q \in Pages : pins[q] > 0 => pins'[q] > 0
    BY <1>1, <1>2
  <2>2. QED
    BY <1>1, <1>4, <2>1 DEF NoPageLost, IsFree
<1>10. CountInv'
  <2>1. ASSUME NEW u \in Threads, NEW q \in Pages, Uses(u, q)
        PROVE  ref'[q] = held'[u][q] + pins'[q]
    <3>1. ref[q] = held[u][q] + pins[q] /\ held[u][q] \in 0..MaxRefs
      BY <1>1, <2>1 DEF CountInv, CountOK, PageTypeOK
    <3>2. CASE q = p
      <4>1. ref[p] < RefMod - 1
        BY <1>1, <3>1, <3>2, RefsAssumption
      <4>2. QED
        BY <1>1, <1>2, <1>3, <3>1, <3>2, <4>1
    <3>3. CASE q # p
      BY <1>1, <1>2, <1>3, <3>1, <3>3
    <3>4. QED
      BY <3>2, <3>3
  <2>2. QED
    BY <1>1, <1>4, <2>1 DEF CountInv, CountOK
<1>11. QED
  BY <1>5, <1>6, <1>7, <1>8, <1>9, <1>10

-----------------------------------------------------------------------------
(***************************************************************************)
(* The invariant and the theorems.                                         *)
(***************************************************************************)

\* dune_page_init, whether it succeeds or fails.
LEMMA PageInitStep ==
    ASSUME PageInv, PageInit \/ PageInitFails
    PROVE  PageInv'
<1> USE DEF PageInv
<1>1. pool = "none" /\ free = <<>> /\ UNCHANGED <<mutex, proc, pc, pg, tmp, held, pins>>
  BY DEF PageInit, PageInitFails, calls, PoolInv
<1>2. /\ \A u \in Threads : ~InCall(u)' /\ \A q \in Pages : ~Uses(u, q)'
      /\ \A u \in Threads : pc'[u] = "idle" /\ \A q \in Pages : held'[u][q] = 0
      /\ \A q \in Pages : pins'[q] = 0
  BY <1>1 DEF PoolInv, InCall, Uses
<1>3. CountInv'
  BY <1>2 DEF CountInv, CountOK
<1>4. LockInv'
  BY <1>1, <1>2 DEF LockInv
<1>5. CASE PageInitFails
  <2>1. PageTypeOK' /\ AssertsHold'
    BY <1>5, SizesAssumption DEF PageInitFails, calls, PageTypeOK, AssertsHold
  <2>2. pool' = "failed" /\ free' = <<>>
    BY <1>1, <1>5 DEF PageInitFails
  <2>3. UseInv' /\ FreePagesUnused' /\ NoPageLost' /\ PoolInv'
    BY <1>2, <2>2 DEF UseInv, FreePagesUnused, NoPageLost, PoolInv
  <2>4. QED
    BY <1>3, <1>4, <2>1, <2>3
<1>6. CASE PageInit
  <2>1. /\ pool' = "ready" /\ num_pages' = GrowSize /\ free' = Stacked(0, GrowSize)
        /\ GrowSize \in Nat /\ 0 < GrowSize /\ GrowSize <= MapLimit
    BY <1>6, SizesAssumption DEF PageInit
  <2>2. /\ free' \in Seq(Pages)
        /\ \A k \in DOMAIN free' : free'[k] < GrowSize
        /\ \A j, k \in DOMAIN free' : free'[j] = free'[k] => j = k
        /\ \A q \in 0..(GrowSize - 1) : \E k \in DOMAIN free' : free'[k] = q
    BY <2>1, StackedList
  <2>3. /\ ref' \in [Pages -> Counts]
        /\ \A q \in Pages : q < GrowSize => ref'[q] = 0
    BY <1>6, RefsAssumption DEF PageInit, PageTypeOK, Counts
  <2>4. PageTypeOK' /\ AssertsHold'
    <3>1. mapped' \subseteq Int
      BY <1>6, SizesAssumption DEF PageInit
    <3>2. QED
      BY <1>1, <2>1, <2>2, <2>3, <3>1 DEF PageTypeOK, AssertsHold, Counts
  <2>5. UseInv' /\ PoolInv'
    BY <1>2, <2>1, <2>2 DEF UseInv, PoolInv
  <2>6. FreePagesUnused'
    <3>1. \A k \in DOMAIN free' : free'[k] \in Pages
      BY <2>2
    <3>2. \A u \in Threads, q \in Pages :
              ~(held'[u][q] > 0 \/ (InCall(u)' /\ pg'[u] = q))
      BY <1>2
    <3>3. QED
      BY <1>2, <2>2, <2>3, <3>1, <3>2 DEF FreePagesUnused, Uses
  <2>7. NoPageLost'
    <3>1. \A q \in Pages : q < GrowSize => q \in 0..(GrowSize - 1)
      BY <2>1, PagesAreNat
    <3>2. QED
      BY <2>1, <2>2, <3>1 DEF NoPageLost, IsFree
  <2>8. QED
    BY <1>3, <1>4, <2>4, <2>5, <2>6, <2>7
<1>7. QED
  BY <1>5, <1>6

\* When the references of one page stay with one thread, the list, the lock, the
\* owners and the counts of page.c agree in every reachable state, for any number
\* of threads and pages: a count is the references its thread owns and those that
\* clones of pgroot took, on the list the latter only.
THEOREM PageInvariance ==
    ASSUME ~Sharing
    PROVE  Spec => []PageInv
<1>1. Init => PageInv
  <2> SUFFICES ASSUME Init PROVE PageInv
    OBVIOUS
  <2>1. PageTypeOK /\ AssertsHold
    BY RefsAssumption, SizesAssumption DEF Init, PageTypeOK, AssertsHold
  <2>2. \A u \in Threads : ~InCall(u) /\ \A q \in Pages : ~Uses(u, q)
    BY DEF Init, InCall, Uses
  <2>3. PoolInv /\ LockInv
    BY ThreadsAssumption DEF Init, PoolInv, LockInv
  <2>4. UseInv /\ FreePagesUnused /\ NoPageLost
    BY <2>2 DEF Init, UseInv, FreePagesUnused, NoPageLost
  <2>5. CountInv
    BY <2>2 DEF Init, CountInv, CountOK
  <2>6. QED
    BY <2>1, <2>3, <2>4, <2>5 DEF PageInv
<1>2. PageInv /\ [Next]_vars => PageInv'
  <2> SUFFICES ASSUME PageInv, [Next]_vars PROVE PageInv'
    OBVIOUS
  <2>1. CASE PageInit \/ PageInitFails
    BY <2>1, PageInitStep
  <2>2. ASSUME NEW t \in Threads, Step(t) PROVE PageInv'
    BY <2>2, AllocLockStep, GrowStep, GrowFailsStep, AllocFirstStep,
       AllocRemoveStep, CallGetStep, PutLoadStep, GetLoadStep, GetStoreStep,
       PutStoreStep, PutCheckStep, FreeAssertStep, FreeInsertStep DEF Step
  <2>3. ASSUME NEW p \in Pages, ClonePin(p) PROVE PageInv'
    BY <2>3, ClonePinStep
  <2>4. CASE UNCHANGED vars
    BY <2>4 DEF vars, PageInv, PageTypeOK, AssertsHold, PoolInv, LockInv, UseInv,
        FreePagesUnused, CountInv, CountOK, NoPageLost, Uses, InCall, IsFree
  <2>5. QED
    BY <2>1, <2>2, <2>3, <2>4 DEF Next
<1>3. QED
  BY <1>1, <1>2, PTL DEF Spec

\* When the references of one page stay with one thread, no assertion of the
\* allocator fails.
THEOREM PageAssertsHold ==
    ASSUME ~Sharing
    PROVE  Spec => []AssertsHold
  BY PageInvariance, PTL DEF PageInv

\* When the references of one page stay with one thread, dune_page_alloc gives no
\* page twice, also when clones of pgroot count pages that are on the list.
THEOREM FreeListIsExclusive ==
    ASSUME ~Sharing
    PROVE  Spec => []FreePagesUnused
  BY PageInvariance, PTL DEF PageInv

\* When the references of one page stay with one thread, no page of the pool is
\* lost but the ones that a clone of pgroot counted.
THEOREM NoPageIsLost ==
    ASSUME ~Sharing
    PROVE  Spec => []NoPageLost
  BY PageInvariance, PTL DEF PageInv

=============================================================================
