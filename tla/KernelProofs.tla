---------------------------- MODULE KernelProofs ----------------------------
(***************************************************************************)
(* The safety properties of Ept and AddressMap, for any fanout, frames and *)
(* address layout.  EptInv is inductive: to the properties it adds what    *)
(* holds while a fault or a notification is under way, and that the        *)
(* process maps a page at one level only.  The last part is about loading  *)
(* the module, DuneModule.                                                 *)
(***************************************************************************)
EXTENDS AddressMap, DuneModule, FiniteSetTheorems, TLAPS

\* The nodes where the process maps f, the leaves that map it, and the fault's
\* reference to it.
HostsOf(f) == {n \in Nodes : host[n] = f}
LeavesOf(f) == {n \in Nodes : IsLeaf(entry[n]) /\ entry[n].frame = f}
Held(f) == IF flt.at = "got" /\ flt.frame = f THEN 1 ELSE 0

\* A page is about to change, or has just changed, in the process's page table.
Changing(p) == chg.at # "idle" /\ p \in PagesOf[chg.node]

\* A fault in progress has a frame, and a reference unless it is a device's.
FaultOK ==
    flt.at # "idle" =>
        /\ flt.frame \in Frames
        /\ flt.at = "got" <=> flt.frame \notin PfnFrames

\* The node of a change in progress is mapped.
ChangeOK ==
    /\ chg.at = "idle" => chg = NoChange
    /\ chg.at # "idle" => host[chg.node] # None

\* The process maps a page at one level only.
HostOK == \A n \in Nodes : host[n] # None => \A m \in Above[n] : host[m] = None

\* Nothing is left after vmx_destroy_ept, and no fault is in progress.
GoneOK == state = "gone" => flt.at = "idle" /\ \A n \in Nodes : entry[n] = None

\* RefsExact, for device frames too, whose EPT entries hold no reference.
CountsOK ==
    \A f \in Frames :
        refs[f] = Cardinality(HostsOf(f))
                  + (IF f \in PfnFrames THEN 0 ELSE Cardinality(LeavesOf(f)))
                  + Held(f)

\* Synchronized, during notifications: the pages that they are about are
\* excepted, and before an unmap have no leaf left that was not raced.  A fault
\* in progress that was not raced has the page's frame.
EntryOK(p) ==
    LET e == entry[Node(p, 0)] IN
    IsLeaf(e) /\ ~e.raced => /\ ~Changing(p) => HostFrames(p) = {e.frame}
                             /\ Changing(p) => chg.at # "unmap"

\* The fault's own part of it.
FaultSync ==
    flt.at # "idle" /\ ~flt.raced =>
        ~Changing(flt.page) /\ HostFrames(flt.page) = {flt.frame}

\* The inductive invariant.
EptInv ==
    /\ EptTypeOK /\ FaultOK /\ ChangeOK /\ HostOK /\ GoneOK /\ TreeSound /\ CountsOK
    /\ (\A p \in Pages : EntryOK(p)) /\ FaultSync

-----------------------------------------------------------------------------
(***************************************************************************)
(* Nodes.                                                                  *)
(***************************************************************************)

\* Division, as the nodes use it.
LEMMA SmallDiv == ASSUME NEW a \in Nat, NEW b \in Nat, a < b PROVE a \div b = 0
OBVIOUS

\* The nodes of a page; the one of level 2 is the same for all.
LEMMA NodeIs ==
    ASSUME NEW p \in Pages
    PROVE  /\ p \in Nat
           /\ Node(p, 0) = <<0, p>> /\ Node(p, 1) = <<1, p \div Fanout>>
           /\ Node(p, 2) = <<2, 0>>
<1>1. \A l \in Levels : Node(p, l) = <<l, p \div Size(l)>>
  BY DEF Node, NodeOf
<1>2. p \in Nat /\ p < Fanout * Fanout /\ Fanout * Fanout \in Nat
  BY EptAssumption DEF Pages
<1>3. p \div (Fanout * Fanout) = 0
  BY <1>2, SmallDiv
<1>4. p \div 1 = p
  BY <1>2
<1>. QED BY <1>1, <1>2, <1>3, <1>4 DEF Size, Levels

\* A page belongs to its node of every level.
LEMMA NodeType ==
    ASSUME NEW p \in Pages, NEW l \in Levels
    PROVE  Node(p, l) \in Nodes /\ Node(p, l)[1] = l /\ p \in PagesOf[Node(p, l)]
<1>1. Node(p, l) \in Nodes
  BY DEF Nodes
<1>2. Node(p, l) = <<l, p \div Size(l)>>
  BY DEF Node, NodeOf
<1>3. Node(p, l)[1] = l
  BY <1>2
<1>. QED BY <1>1, <1>3 DEF PagesOf

\* There are finitely many nodes.
LEMMA NodesFinite == IsFiniteSet(Nodes)
<1>1. \A n \in Nodes : n \in Levels \X Pages
  <2>. SUFFICES ASSUME NEW p \in Pages, NEW l \in Levels PROVE Node(p, l) \in Levels \X Pages
    BY DEF Nodes
  <2>1. 0 \in Pages /\ p \in Nat /\ p < Fanout * Fanout
    BY EptAssumption DEF Pages
  <2>2. p \div Fanout \in Nat /\ p \div Fanout <= p
    BY <2>1, EptAssumption
  <2>3. p \div Fanout \in Pages
    BY <2>1, <2>2, EptAssumption DEF Pages
  <2>. QED BY <2>1, <2>3, NodeIs DEF Levels
<1>2. IsFiniteSet(Levels) /\ IsFiniteSet(Pages)
  <2>1. 0 \in Int /\ 2 \in Int /\ Fanout * Fanout - 1 \in Int
    BY EptAssumption
  <2>2. IsFiniteSet(0..2) /\ IsFiniteSet(0..(Fanout * Fanout - 1))
    BY <2>1, FS_Interval
  <2>. QED BY <2>2 DEF Levels, Pages
<1>3. IsFiniteSet(Levels \X Pages)
  BY <1>2, FS_Product
<1>. QED BY <1>1, <1>3, FS_Subset

\* A node is the node of one of its pages.
LEMMA NodeHasPage == ASSUME NEW n \in Nodes
    PROVE n[1] \in Levels /\ \E p \in Pages : p \in PagesOf[n] /\ n = Node(p, n[1])
<1>1. PICK p \in Pages, l \in Levels : n = Node(p, l)
  BY DEF Nodes
<1>. QED BY <1>1, NodeType

\* What is above a node is what is above any of its pages.
LEMMA AboveIs ==
    ASSUME NEW p \in Pages, NEW l \in Levels
    PROVE  Above[Node(p, l)] = {Node(p, k) : k \in (l + 1)..2}
<1>1. Above[Node(p, l)] = {Node(q, k) : q \in PagesOf[Node(p, l)], k \in (l + 1)..2}
  BY NodeType DEF Above
<1>2. \A q \in PagesOf[Node(p, l)] : q \in Pages /\ Node(q, l) = Node(p, l)
  BY NodeType DEF PagesOf
<1>3. \A q \in PagesOf[Node(p, l)], k \in (l + 1)..2 : Node(q, k) = Node(p, k)
  <2>. SUFFICES ASSUME NEW q \in PagesOf[Node(p, l)], NEW k \in (l + 1)..2
                PROVE  Node(q, k) = Node(p, k)
    OBVIOUS
  <2>1. q \in Pages /\ Node(q, l) = Node(p, l)
    BY <1>2
  <2>2. CASE l = 0
    BY <2>1, <2>2, NodeIs
  <2>3. CASE l # 0
    BY <2>1, <2>3, NodeIs DEF Levels
  <2>. QED BY <2>2, <2>3
<1>4. p \in PagesOf[Node(p, l)]
  BY NodeType
<1>. QED BY <1>1, <1>3, <1>4

\* The nodes above a node are nodes, of higher levels.
LEMMA AboveInNodes ==
    ASSUME NEW n \in Nodes
    PROVE  Above[n] \subseteq Nodes /\ \A m \in Above[n] : m[1] > n[1] /\ m[1] \in Levels
<1>1. PICK p \in Pages, l \in Levels : n = Node(p, l)
  BY DEF Nodes
<1>2. \A k \in (l + 1)..2 : k \in Levels /\ Node(p, k) \in Nodes /\ Node(p, k)[1] = k
  BY NodeType DEF Levels
<1>3. n[1] = l /\ l \in Nat
  BY <1>1, NodeType DEF Levels
<1>. QED BY <1>1, <1>2, <1>3, AboveIs

\* What is above a node above n is above n.
LEMMA AboveAbove ==
    ASSUME NEW n \in Nodes, NEW m \in Above[n], NEW a \in Above[m]
    PROVE  a \in Above[n]
<1>1. PICK p \in Pages, l \in Levels : n = Node(p, l)
  BY DEF Nodes
<1>2. PICK k \in (l + 1)..2 : m = Node(p, k)
  BY <1>1, AboveIs
<1>3. k \in Levels
  BY DEF Levels
<1>4. PICK j \in (k + 1)..2 : a = Node(p, j)
  BY <1>2, <1>3, AboveIs
<1>5. j \in (l + 1)..2
  BY <1>3 DEF Levels
<1>. QED BY <1>1, <1>4, <1>5, AboveIs

\* The level of the fault in progress.
LEMMA LevelOf ==
    ASSUME flt.frame \in Frames
    PROVE  FaultLevel \in Levels /\ flt.frame \in FramesOf[FaultLevel]
BY DEF FaultLevel, Frames

\* The pages of a node have their other nodes above and below it.
LEMMA MappedIs ==
    ASSUME NEW n \in Nodes, NEW p \in PagesOf[n], NEW l \in Levels
    PROVE  p \in Pages /\ Node(p, l) \in Mapped(n)
<1>1. p \in Pages /\ Node(p, n[1]) = n /\ n[1] \in Levels
  BY NodeHasPage DEF PagesOf
<1>2. Above[n] = {Node(p, k) : k \in (n[1] + 1)..2}
  BY <1>1, AboveIs
<1>3. Above[Node(p, l)] = {Node(p, k) : k \in (l + 1)..2} /\ Node(p, l) \in Nodes
  BY <1>1, AboveIs, NodeType
<1>4. CASE l < n[1]
  <2>1. n \in Above[Node(p, l)]
    BY <1>1, <1>3, <1>4 DEF Levels
  <2>. QED BY <1>1, <1>3, <2>1 DEF Mapped, Below
<1>. QED BY <1>1, <1>2, <1>4 DEF Mapped, Levels

\* An entry of level 0 is found: everything above it is a table.
LEMMA LeafFound ==
    ASSUME EptInv, NEW p \in Pages, entry[Node(p, 0)] # None
    PROVE  LookupFinds(p)
<1>1. Node(p, 0) \in Nodes /\ Above[Node(p, 0)] = {Node(p, k) : k \in 1..2}
  BY NodeType, AboveIs DEF Levels
<1>2. \A k \in 1..2 : entry[Node(p, k)] = Table
  BY <1>1 DEF EptInv, TreeSound
<1>. QED BY <1>2, EptAssumption DEF LookupFinds, MeetsBig, Missing, IsLeaf

-----------------------------------------------------------------------------
\* The fault and the change in progress, and the process's page table.
WorldOK == FaultOK /\ ChangeOK /\ HostOK

\* Every step keeps them well formed.
LEMMA FaultStep == ASSUME EptInv, [Next]_vars PROVE WorldOK'
<1>. EptTypeOK /\ FaultOK /\ ChangeOK /\ HostOK
  BY DEF EptInv
<1>. USE DEF WorldOK, FaultOK, ChangeOK, NoFault, NoChange
<1>1. ASSUME NEW p \in Pages, NEW w \in {0, 1}, GetUserPage(p, w) PROVE WorldOK'
  <2>1. HostFrames(p) \subseteq Frames
    BY NodeType DEF HostFrames, EptTypeOK
  <2>. QED BY <1>1, <2>1 DEF GetUserPage, Got, HostOK
<1>2. ASSUME NEW p \in Pages, NEW w \in {0, 1}, FollowPfn(p, w) PROVE WorldOK'
  <2>1. HostFrames(p) \subseteq Frames
    BY NodeType DEF HostFrames, EptTypeOK
  <2>. QED BY <1>2, <2>1 DEF FollowPfn, Got, HostOK
<1>3. ASSUME NEW p \in Pages, NEW w \in {0, 1}, NoMapping(p, w) PROVE WorldOK'
  BY <1>3 DEF NoMapping, HostOK
<1>4. CASE LookupFails
  BY <1>4 DEF LookupFails, HostOK
<1>5. CASE LookupNoMemory
  BY <1>5 DEF LookupNoMemory, HostOK
<1>6. CASE SetEntry
  BY <1>6 DEF SetEntry, HostOK
<1>7. ASSUME NEW n \in Nodes, NEW f \in Frames, HostMaps(n, f) PROVE WorldOK'
  <2>1. host' = [host EXCEPT ![n] = f] /\ UNCHANGED <<flt, chg>> /\ f # None
    BY <1>7, EptAssumption DEF HostMaps
  <2>2. \A m \in Above[n] : host[m] = None
    BY <1>7 DEF HostMaps, Mapped
  <2>3. \A m \in Nodes : n \in Above[m] => host[m] = None
    BY <1>7 DEF HostMaps, Mapped, Below
  <2>4. n \notin Above[n]
    <3>1. PICK p \in Pages, l \in Levels : n = Node(p, l)
      BY DEF Nodes
    <3>. QED BY <3>1, NodeType, AboveIs DEF Levels
  <2>5. \A m \in Nodes : Above[m] \subseteq Nodes
    BY AboveInNodes
  <2>6. HostOK'
    BY <2>1, <2>2, <2>3, <2>4, <2>5 DEF EptTypeOK, HostOK
  <2>. QED BY <2>1, <2>6 DEF EptTypeOK
<1>8. ASSUME NEW n \in Nodes, NEW f \in Frames, HostReplaces(n, f) PROVE WorldOK'
  <2>1. /\ host' = [host EXCEPT ![n] = f] /\ f # None /\ host[n] # None
        /\ chg' = [at |-> "changed", node |-> n]
        /\ flt'.at = flt.at /\ flt'.frame = flt.frame
    BY <1>8, EptAssumption DEF HostReplaces, Changes, RacedBy, EptTypeOK
  <2>2. \A m \in Nodes : Above[m] \subseteq Nodes
    BY AboveInNodes
  <2>3. HostOK'
    BY <2>1, <2>2 DEF EptTypeOK, HostOK
  <2>. QED BY <2>1, <2>3 DEF EptTypeOK
<1>9. ASSUME NEW n \in Nodes, ept_mmu_notifier_invalidate_range_start(n) PROVE WorldOK'
  <2>1. /\ host' = host /\ host[n] # None /\ chg' = [at |-> "unmap", node |-> n]
        /\ flt'.at = flt.at /\ flt'.frame = flt.frame
    BY <1>9 DEF ept_mmu_notifier_invalidate_range_start, Changes, RacedBy, EptTypeOK
  <2>. QED BY <2>1 DEF HostOK
<1>10. CASE HostUnmaps
  <2>1. host' = [host EXCEPT ![chg.node] = None] /\ chg' = NoChange /\ flt' = flt
    BY <1>10 DEF HostUnmaps
  <2>2. \A m \in Nodes : Above[m] \subseteq Nodes
    BY AboveInNodes
  <2>3. HostOK'
    BY <2>1, <2>2 DEF EptTypeOK, HostOK
  <2>. QED BY <2>1, <2>3
<1>11. CASE ept_mmu_notifier_change_pte
  BY <1>11 DEF ept_mmu_notifier_change_pte, HostOK
<1>12. ASSUME NEW p \in Pages, ept_mmu_notifier_clear_flush_young(p) PROVE WorldOK'
  BY <1>12 DEF ept_mmu_notifier_clear_flush_young, HostOK
<1>13. CASE vmx_destroy_ept
  BY <1>13 DEF vmx_destroy_ept, HostOK
<1>14. CASE UNCHANGED vars
  BY <1>14 DEF vars, HostOK
<1>15. ASSUME NEW n \in Nodes, ept_mmu_notifier_invalidate_page(n) PROVE WorldOK'
  <2>1. /\ host' = [host EXCEPT ![n] = None] /\ chg' = chg /\ chg = NoChange
        /\ flt'.at = flt.at /\ flt'.frame = flt.frame
    BY <1>15 DEF ept_mmu_notifier_invalidate_page, RacedBy, EptTypeOK
  <2>2. \A m \in Nodes : Above[m] \subseteq Nodes
    BY AboveInNodes
  <2>3. HostOK'
    BY <2>1, <2>2 DEF EptTypeOK, HostOK
  <2>. QED BY <2>1, <2>3
<1>. QED BY <1>1, <1>2, <1>3, <1>4, <1>5, <1>6, <1>7, <1>8, <1>9, <1>10, <1>11,
         <1>12, <1>13, <1>14, <1>15 DEF Next

-----------------------------------------------------------------------------
\* What SetEntry and LookupNoMemory find and leave.
LEMMA FaultFacts ==
    ASSUME EptInv, flt.at \in {"got", "pfn"}, ~MeetsBig(flt.page, FaultLevel)
    PROVE  /\ FaultLevel \in Levels /\ flt.page \in Pages /\ flt.frame \in Frames
           /\ Node(flt.page, FaultLevel) \in Nodes
           /\ Above[Node(flt.page, FaultLevel)] = {Node(flt.page, k) : k \in (FaultLevel + 1)..2}
           /\ \A k \in (FaultLevel + 1)..2 : entry[Node(flt.page, k)] \in {None, Table}
           /\ Missing(flt.page, FaultLevel) \subseteq Nodes
           /\ \A m \in Missing(flt.page, FaultLevel) :
                entry[m] = None /\ \E k \in (FaultLevel + 1)..2 : m = Node(flt.page, k)
<1>1. FaultLevel \in Levels /\ flt.page \in Pages /\ flt.frame \in Frames
  BY LevelOf DEF EptInv, FaultOK, EptTypeOK
<1>2. \A k \in (FaultLevel + 1)..2 : k \in Levels /\ Node(flt.page, k) \in Nodes
  BY <1>1, NodeType DEF Levels
<1>. QED BY <1>1, <1>2, NodeType, AboveIs DEF Missing, MeetsBig, IsLeaf

\* The entries after SetEntry.
LEMMA SetEntryFacts ==
    ASSUME EptInv, SetEntry
    PROVE  LET n == Node(flt.page, FaultLevel) IN
           /\ entry'[n] = [frame |-> flt.frame, write |-> flt.write, raced |-> flt.raced]
           /\ entry'[n] \in Leaf /\ IsLeaf(entry'[n])
           /\ \A m \in Missing(flt.page, FaultLevel) : m # n /\ entry'[m] = Table
           /\ \A m \in Replaced(n) :
                m \notin Missing(flt.page, FaultLevel) /\ (m # n => entry'[m] = None)
           /\ \A m \in Nodes \ (Missing(flt.page, FaultLevel) \cup Replaced(n)) :
                entry'[m] = entry[m]
<1>. DEFINE n == Node(flt.page, FaultLevel)
<1>1. /\ FaultLevel \in Levels /\ flt.page \in Pages /\ flt.frame \in Frames /\ n \in Nodes
      /\ Missing(flt.page, FaultLevel) \subseteq Nodes
      /\ \A m \in Missing(flt.page, FaultLevel) :
                entry[m] = None /\ \E k \in (FaultLevel + 1)..2 : m = Node(flt.page, k)
  BY FaultFacts DEF SetEntry
<1>2. /\ flt.write \in {0, 1} /\ flt.raced \in BOOLEAN
  BY DEF EptInv, EptTypeOK
<1>3. [frame |-> flt.frame, write |-> flt.write, raced |-> flt.raced] \in Leaf
  BY <1>1, <1>2 DEF Leaf
<1>4. \A m \in Missing(flt.page, FaultLevel) : m # n /\ m[1] > n[1]
  BY <1>1, NodeType DEF Levels
<1>5. \A m \in Replaced(n) : m \in Nodes /\ m \notin Missing(flt.page, FaultLevel)
  <2>1. \A m \in Below[n] : m \in Nodes /\ n[1] > m[1]
    BY <1>1, AboveInNodes DEF Below
  <2>2. \A m \in Nodes : m[1] \in Nat
    BY NodeHasPage DEF Levels
  <2>. QED BY <1>1, <1>4, <2>1, <2>2 DEF Replaced
<1>6. entry' = [m \in Nodes |->
                   IF m = n THEN [frame |-> flt.frame, write |-> flt.write, raced |-> flt.raced]
                   ELSE IF m \in Missing(flt.page, FaultLevel) THEN Table
                   ELSE Cleared(Replaced(n))[m]]
  BY DEF SetEntry
<1>7. \A m \in Nodes : Cleared(Replaced(n))[m] = IF m \in Replaced(n) THEN None ELSE entry[m]
  BY DEF Cleared
<1>8. n \in Replaced(n)
  BY DEF Replaced
<1>. HIDE DEF n
<1>9. entry'[n] = [frame |-> flt.frame, write |-> flt.write, raced |-> flt.raced]
  BY <1>1, <1>6
<1>10. entry'[n] \in Leaf /\ IsLeaf(entry'[n])
  BY <1>3, <1>9, MarksAssumption DEF IsLeaf
<1>11. \A m \in Missing(flt.page, FaultLevel) : entry'[m] = Table
  BY <1>1, <1>4, <1>6
<1>12. \A m \in Replaced(n) : m # n => entry'[m] = None
  BY <1>5, <1>6, <1>7
<1>13. \A m \in Nodes \ (Missing(flt.page, FaultLevel) \cup Replaced(n)) : entry'[m] = entry[m]
  BY <1>6, <1>7, <1>8
<1>. QED BY <1>4, <1>5, <1>9, <1>10, <1>11, <1>12, <1>13 DEF n

\* The tree, the entries' types and the empty table after vmx_destroy_ept.
TreeOK == TreeSound /\ GoneOK /\ entry \in [Nodes -> {None, Table} \cup Leaf]

\* Clearing entries of level 0, or all of them, leaves a tree.
LEMMA TreeCleared ==
    ASSUME EptInv, NEW S \in SUBSET Nodes, entry' = Cleared(S),
           S = Nodes \/ \A n \in S : n[1] = 0
    PROVE  /\ TreeSound' /\ entry' \in [Nodes -> {None, Table} \cup Leaf]
           /\ \A n \in Nodes : entry[n] = None => entry'[n] = None
<1>1. \A n \in Nodes : entry'[n] = IF n \in S THEN None ELSE entry[n]
  BY DEF Cleared
<1>2. entry' \in [Nodes -> {None, Table} \cup Leaf]
  BY DEF Cleared, EptInv, EptTypeOK
<1>3. CASE S = Nodes
  BY <1>1, <1>2, <1>3 DEF TreeSound
<1>4. CASE \A n \in S : n[1] = 0
  <2>1. \A n \in Nodes : \A m \in Above[n] : m \in Nodes /\ m \notin S
    <3>1. \A n \in Nodes : n[1] \in Nat
      BY NodeHasPage DEF Levels
    <3>. QED BY <1>4, <3>1, AboveInNodes
  <2>. QED BY <1>1, <1>2, <2>1 DEF TreeSound, EptInv
<1>. QED BY <1>3, <1>4

\* The nodes that the callbacks clear are of level 0.
LEMMA HitLevel ==
    ASSUME NEW P \in SUBSET Pages
    PROVE  Hit(P) \subseteq Nodes /\ \A n \in Hit(P) : n[1] = 0
BY NodeType DEF Hit, Levels

\* Every step leaves a tree.
LEMMA TreeStep == ASSUME EptInv, [Next]_vars PROVE TreeOK'
<1>. EptTypeOK /\ TreeSound /\ GoneOK /\ FaultOK
  BY DEF EptInv
<1>. USE DEF TreeOK
<1>1. ASSUME NEW p \in Pages, NEW w \in {0, 1}, GetUserPage(p, w) PROVE TreeOK'
  BY <1>1 DEF GetUserPage, CanFault, TreeSound, GoneOK, EptTypeOK
<1>2. ASSUME NEW p \in Pages, NEW w \in {0, 1}, FollowPfn(p, w) PROVE TreeOK'
  BY <1>2 DEF FollowPfn, CanFault, TreeSound, GoneOK, EptTypeOK
<1>3. ASSUME NEW p \in Pages, NEW w \in {0, 1}, NoMapping(p, w) PROVE TreeOK'
  BY <1>3 DEF NoMapping, TreeSound, GoneOK, EptTypeOK
<1>4. CASE LookupFails
  BY <1>4 DEF LookupFails, TreeSound, GoneOK, EptTypeOK
<1>5. CASE LookupNoMemory
  <2>. DEFINE p == flt.page  l == FaultLevel
  <2>1. PICK s \in TablesDownward(p, l) :
            entry' = [n \in Nodes |-> IF n \in s THEN Table ELSE entry[n]]
    BY <1>5 DEF LookupNoMemory
  <2>2. /\ l \in Levels /\ p \in Pages /\ \A k \in (l + 1)..2 : entry[Node(p, k)] \in {None, Table}
        /\ Missing(p, l) \subseteq Nodes
        /\ \A m \in Missing(p, l) : entry[m] = None /\ \E k \in (l + 1)..2 : m = Node(p, k)
    BY <1>5, FaultFacts DEF LookupNoMemory
  <2>3. s \subseteq Missing(p, l) /\ \A n \in s, m \in Missing(p, l) : m[1] > n[1] => m \in s
    BY DEF TablesDownward
  <2>4. state' = "failed"
    BY <1>5 DEF LookupNoMemory
  <2>. HIDE DEF p, l
  <2>5. ASSUME NEW n \in Nodes, entry'[n] # None, NEW m \in Above[n] PROVE entry'[m] = Table
    <3>1. m \in Nodes /\ m[1] > n[1]
      BY AboveInNodes
    <3>2. CASE n \in s
      <4>1. PICK k \in (l + 1)..2 : n = Node(p, k)
        BY <2>2, <2>3, <3>2
      <4>2. k \in Levels
        BY <2>2 DEF Levels
      <4>3. PICK j \in (k + 1)..2 : m = Node(p, j)
        BY <2>2, <4>1, <4>2, AboveIs
      <4>4. j \in (l + 1)..2 /\ entry[m] \in {None, Table}
        BY <2>2, <4>2, <4>3 DEF Levels
      <4>5. CASE entry[m] = None
        <5>1. m \in Missing(p, l)
          BY <4>3, <4>4, <4>5 DEF Missing
        <5>2. m \in s
          BY <2>3, <3>1, <3>2, <5>1
        <5>. QED BY <2>1, <3>1, <5>2
      <4>. QED BY <2>1, <3>1, <4>4, <4>5
    <3>3. CASE n \notin s
      BY <2>1, <2>5, <3>1, <3>3 DEF TreeSound
    <3>. QED BY <3>2, <3>3
  <2>6. entry' \in [Nodes -> {None, Table} \cup Leaf]
    BY <2>1 DEF EptTypeOK
  <2>. QED BY <2>4, <2>5, <2>6 DEF TreeSound, GoneOK
<1>6. CASE SetEntry
  <2>. DEFINE p == flt.page  l == FaultLevel  n == Node(p, l)
  <2>1. /\ l \in Levels /\ p \in Pages /\ n \in Nodes
        /\ Above[n] = {Node(p, k) : k \in (l + 1)..2}
        /\ \A k \in (l + 1)..2 : entry[Node(p, k)] \in {None, Table}
        /\ Missing(p, l) \subseteq Nodes
        /\ \A m \in Missing(p, l) : entry[m] = None /\ \E k \in (l + 1)..2 : m = Node(p, k)
    BY <1>6, FaultFacts DEF SetEntry
  <2>2. /\ entry'[n] \in Leaf
        /\ \A m \in Missing(p, l) : m # n /\ entry'[m] = Table
        /\ \A m \in Replaced(n) : m # n => entry'[m] = None
        /\ \A m \in Nodes \ (Missing(p, l) \cup Replaced(n)) : entry'[m] = entry[m]
    BY <1>6, SetEntryFacts
  <2>3. /\ entry' = [m \in Nodes |-> entry'[m]] /\ flt'.at = "idle" /\ state' = state
        /\ flt.at # "idle"
    BY <1>6 DEF SetEntry, NoFault
  <2>. HIDE DEF p, l, n
  <2>4. entry' \in [Nodes -> {None, Table} \cup Leaf]
    <3>1. \A m \in Nodes : entry'[m] \in {None, Table} \cup Leaf
      BY <2>2 DEF EptTypeOK
    <3>. QED BY <2>3, <3>1
  \* The nodes above n are tables now.
  <2>5. \A m \in Above[n] : m \in Nodes /\ entry'[m] = Table
    <3>. SUFFICES ASSUME NEW k \in (l + 1)..2
                  PROVE  Node(p, k) \in Nodes /\ entry'[Node(p, k)] = Table
      BY <2>1
    <3>1. Node(p, k) \in Nodes /\ Node(p, k)[1] = k /\ n[1] = l /\ k > l
      BY <2>1, NodeType DEF Levels, n
    <3>2. CASE entry[Node(p, k)] = None
      BY <2>2, <3>1, <3>2 DEF Missing
    <3>3. CASE entry[Node(p, k)] = Table
      <4>1. Node(p, k) \notin Missing(p, l)
        BY <3>3, EptAssumption DEF Missing
      <4>2. Node(p, k) \notin Replaced(n)
        <5>1. \A m \in Below[n] : n[1] > m[1] /\ m[1] \in Nat
          BY <2>1, AboveInNodes, NodeHasPage DEF Below, Levels
        <5>. QED BY <3>1, <5>1, <2>1 DEF Replaced, Levels
      <4>. QED BY <2>2, <3>1, <3>3, <4>1, <4>2
    <3>. QED BY <2>1, <3>1, <3>2, <3>3
  <2>6. ASSUME NEW m \in Nodes, entry'[m] # None, NEW a \in Above[m] PROVE entry'[a] = Table
    <3>1. a \in Nodes
      BY AboveInNodes
    <3>2. CASE m \in Missing(p, l)
      <4>1. PICK k \in (l + 1)..2 : m = Node(p, k)
        BY <2>1, <3>2
      <4>2. k \in Levels
        BY <2>1 DEF Levels
      <4>3. PICK j \in (k + 1)..2 : a = Node(p, j)
        BY <2>1, <4>1, <4>2, AboveIs
      <4>4. a \in Above[n]
        BY <2>1, <4>2, <4>3 DEF Levels
      <4>. QED BY <2>5, <4>4
    <3>3. CASE m = n
      BY <2>5, <3>3
    <3>4. CASE m \notin Missing(p, l) /\ m # n
      <4>1. m \notin Replaced(n) /\ entry[m] # None /\ entry[a] = Table
        BY <2>2, <2>6, <3>4 DEF TreeSound
      <4>2. a # n
        <5>1. ASSUME a = n PROVE FALSE
          BY <2>1, <4>1, <5>1, <2>6 DEF Replaced, Below
        <5>. QED BY <5>1
      <4>3. a \notin Missing(p, l)
        BY <2>1, <4>1, EptAssumption
      <4>4. CASE a \in Replaced(n)
        \* a hangs below n, and m below a.
        <5>1. entry[n] = Table /\ a \in Below[n]
          BY <4>2, <4>4 DEF Replaced
        <5>2. n \in Above[a]
          BY <5>1, <2>1 DEF Below
        <5>3. n \in Above[m]
          BY <5>2, <3>1, AboveAbove
        <5>4. m \in Replaced(n)
          BY <5>1, <5>3, <2>1 DEF Replaced, Below
        <5>. QED BY <4>1, <5>4
      <4>. QED BY <2>2, <3>1, <4>1, <4>3, <4>4
    <3>. QED BY <3>2, <3>3, <3>4
  <2>. QED BY <2>3, <2>4, <2>6 DEF TreeSound, GoneOK
<1>7. ASSUME NEW n \in Nodes, NEW f \in Frames, HostMaps(n, f) PROVE TreeOK'
  BY <1>7 DEF HostMaps, TreeSound, GoneOK, EptTypeOK
<1>8. ASSUME NEW n \in Nodes, NEW f \in Frames, HostReplaces(n, f) PROVE TreeOK'
  <2>1. UNCHANGED <<state, entry>> /\ flt'.at = flt.at
    BY <1>8 DEF HostReplaces, Changes, RacedBy, EptTypeOK
  <2>. QED BY <2>1 DEF TreeSound, GoneOK, EptTypeOK
<1>9. ASSUME NEW n \in Nodes, ept_mmu_notifier_invalidate_range_start(n) PROVE TreeOK'
  <2>1. state' = state /\ flt'.at = flt.at
    BY <1>9 DEF ept_mmu_notifier_invalidate_range_start, Changes, RacedBy, EptTypeOK
  <2>2. CASE state = "gone"
    BY <1>9, <2>1, <2>2 DEF ept_mmu_notifier_invalidate_range_start, TreeSound,
       GoneOK, EptTypeOK
  <2>3. CASE state # "gone"
    <3>1. entry' = Cleared(Hit(PagesOf[n])) /\ PagesOf[n] \in SUBSET Pages
      BY <1>9, <2>3 DEF ept_mmu_notifier_invalidate_range_start, Invalidate, PagesOf
    <3>. QED BY <2>1, <2>3, <3>1, TreeCleared, HitLevel DEF GoneOK
  <2>. QED BY <2>2, <2>3
<1>10. CASE HostUnmaps
  BY <1>10 DEF HostUnmaps, TreeSound, GoneOK, EptTypeOK
<1>11. CASE ept_mmu_notifier_change_pte
  <2>1. state' = state /\ flt' = flt /\ chg.node \in Nodes
    BY <1>11 DEF ept_mmu_notifier_change_pte, EptTypeOK
  <2>2. CASE state = "gone"
    BY <1>11, <2>1, <2>2 DEF ept_mmu_notifier_change_pte, TreeSound, GoneOK, EptTypeOK
  <2>3. CASE state # "gone"
    <3>1. entry' = Cleared(Hit(PagesOf[chg.node])) /\ PagesOf[chg.node] \in SUBSET Pages
      BY <1>11, <2>1, <2>3 DEF ept_mmu_notifier_change_pte, Invalidate, PagesOf
    <3>. QED BY <2>1, <2>3, <3>1, TreeCleared, HitLevel DEF GoneOK
  <2>. QED BY <2>2, <2>3
<1>12. ASSUME NEW p \in Pages, ept_mmu_notifier_clear_flush_young(p) PROVE TreeOK'
  <2>1. state' = state /\ state # "gone" /\ entry' = Cleared({Node(p, 0)})
    BY <1>12 DEF ept_mmu_notifier_clear_flush_young, Invalidate
  <2>2. {Node(p, 0)} \in SUBSET Nodes /\ \A n \in {Node(p, 0)} : n[1] = 0
    BY NodeType DEF Levels
  <2>. QED BY <2>1, <2>2, TreeCleared DEF GoneOK
<1>13. CASE vmx_destroy_ept
  <2>1. entry' = Cleared(Nodes) /\ flt' = flt /\ flt.at = "idle"
    BY <1>13 DEF vmx_destroy_ept, NoFault
  <2>2. \A n \in Nodes : entry'[n] = None
    BY <2>1 DEF Cleared
  <2>. QED BY <2>1, <2>2, TreeCleared DEF GoneOK
<1>14. CASE UNCHANGED vars
  BY <1>14 DEF vars, TreeSound, GoneOK, EptTypeOK
<1>15. ASSUME NEW n \in Nodes, ept_mmu_notifier_invalidate_page(n) PROVE TreeOK'
  <2>1. state' = state /\ flt'.at = flt.at
    BY <1>15 DEF ept_mmu_notifier_invalidate_page, RacedBy, EptTypeOK
  <2>2. PICK S \in SUBSET Nodes : entry' = Cleared(S) /\ \A m \in S : m[1] = 0
    <3>1. PagesOf[n] \in SUBSET Pages
      BY DEF PagesOf
    <3>. QED BY <1>15, <3>1, HitLevel DEF ept_mmu_notifier_invalidate_page
  <2>. QED BY <2>1, <2>2, TreeCleared DEF GoneOK
<1>. QED BY <1>1, <1>2, <1>3, <1>4, <1>5, <1>6, <1>7, <1>8, <1>9, <1>10, <1>11,
         <1>12, <1>13, <1>14, <1>15 DEF Next

-----------------------------------------------------------------------------
\* Sets of nodes are finite.
LEMMA Finite ==
    ASSUME NEW S \in SUBSET Nodes
    PROVE  IsFiniteSet(S) /\ Cardinality(S) \in Nat
BY NodesFinite, FS_Subset, FS_CardinalityType

\* The parts of a frame's count are natural numbers.
LEMMA Parts ==
    ASSUME NEW f \in Frames
    PROVE  /\ Cardinality(HostsOf(f)) \in Nat /\ Cardinality(LeavesOf(f)) \in Nat
           /\ IsFiniteSet(HostsOf(f)) /\ IsFiniteSet(LeavesOf(f)) /\ Held(f) \in Nat
           /\ Cardinality(HostsOf(f)') \in Nat /\ Cardinality(LeavesOf(f)') \in Nat
           /\ Held(f)' \in Nat
<1>1. /\ HostsOf(f) \in SUBSET Nodes /\ LeavesOf(f) \in SUBSET Nodes
      /\ HostsOf(f)' \in SUBSET Nodes /\ LeavesOf(f)' \in SUBSET Nodes
  BY DEF HostsOf, LeavesOf
<1>2. Held(f) \in Nat /\ Held(f)' \in Nat
  BY DEF Held
<1>. QED BY <1>1, <1>2, Finite

\* The leaves that clearing the nodes S takes away, and the references it drops.
LEMMA LeavesCleared ==
    ASSUME EptInv, NEW S \in SUBSET Nodes, entry' = Cleared(S), NEW f \in Frames
    PROVE  /\ Cardinality(LeavesOf(f) \cap S) \in Nat
           /\ Cardinality(LeavesOf(f)') = Cardinality(LeavesOf(f)) - Cardinality(LeavesOf(f) \cap S)
           /\ PutPages(S)[f] =
                refs[f] - (IF f \in PfnFrames THEN 0 ELSE Cardinality(LeavesOf(f) \cap S))
<1>1. LeavesOf(f)' = LeavesOf(f) \ S
  BY DEF LeavesOf, Cleared, IsLeaf
<1>2. {n \in S : IsLeaf(entry[n]) /\ entry[n].frame = f} = LeavesOf(f) \cap S
  BY DEF LeavesOf
<1>3. PutPages(S)[f] =
        refs[f] - (IF f \in PfnFrames THEN 0 ELSE Cardinality(LeavesOf(f) \cap S))
  BY <1>2 DEF PutPages, Dropped
<1>. QED BY <1>1, <1>3, Parts, Finite, FS_Difference

\* The counts after clearing nodes.
LEMMA CountCleared ==
    ASSUME EptInv, NEW S \in SUBSET Nodes, entry' = Cleared(S), refs' = PutPages(S),
           host' = host, flt'.at = flt.at, flt'.frame = flt.frame
    PROVE  CountsOK'
<1>. SUFFICES ASSUME NEW f \in Frames
              PROVE  refs'[f] = Cardinality(HostsOf(f)')
                                + (IF f \in PfnFrames THEN 0 ELSE Cardinality(LeavesOf(f)'))
                                + Held(f)'
  BY DEF CountsOK
<1>1. refs[f] = Cardinality(HostsOf(f))
                + (IF f \in PfnFrames THEN 0 ELSE Cardinality(LeavesOf(f))) + Held(f)
  BY DEF EptInv, CountsOK
<1>2. HostsOf(f)' = HostsOf(f) /\ Held(f)' = Held(f)
  BY DEF HostsOf, Held
<1>3. /\ Cardinality(LeavesOf(f) \cap S) \in Nat
      /\ Cardinality(LeavesOf(f)') = Cardinality(LeavesOf(f)) - Cardinality(LeavesOf(f) \cap S)
      /\ refs'[f] = refs[f] - (IF f \in PfnFrames THEN 0 ELSE Cardinality(LeavesOf(f) \cap S))
  BY LeavesCleared
<1>. QED BY <1>1, <1>2, <1>3, Parts

\* Every step keeps the counts.
LEMMA CountStep == ASSUME EptInv, [Next]_vars PROVE CountsOK'
<1>. EptTypeOK /\ CountsOK /\ FaultOK /\ ChangeOK
  BY DEF EptInv
<1>fin. \A f \in Frames : 
           /\ Cardinality(HostsOf(f)) \in Nat /\ Cardinality(LeavesOf(f)) \in Nat
           /\ IsFiniteSet(HostsOf(f)) /\ IsFiniteSet(LeavesOf(f)) /\ Held(f) \in Nat
  BY Parts
<1>1. ASSUME NEW p \in Pages, NEW w \in {0, 1}, GetUserPage(p, w) PROVE CountsOK'
  <2>1. PICK f \in HostFrames(p) \ PfnFrames :
            flt' = Got("got", p, w, f) /\ refs' = [refs EXCEPT ![f] = @ + 1]
    BY <1>1 DEF GetUserPage
  <2>2. f \in Frames /\ flt.at = "idle" /\ entry' = entry /\ host' = host
    BY <1>1, NodeType DEF GetUserPage, CanFault, NoFault, HostFrames, EptTypeOK
  <2>3. \A g \in Frames : /\ Held(g) = 0 /\ Held(g)' = (IF g = f THEN 1 ELSE 0)
                          /\ HostsOf(g)' = HostsOf(g) /\ LeavesOf(g)' = LeavesOf(g)
    BY <2>1, <2>2 DEF Held, Got, HostsOf, LeavesOf
  <2>. QED BY <2>1, <2>2, <2>3, <1>fin DEF CountsOK, EptTypeOK
<1>2. ASSUME NEW p \in Pages, NEW w \in {0, 1}, FollowPfn(p, w) PROVE CountsOK'
  <2>1. \A g \in Frames : /\ Held(g)' = Held(g)
                          /\ HostsOf(g)' = HostsOf(g) /\ LeavesOf(g)' = LeavesOf(g)
    BY <1>2 DEF FollowPfn, CanFault, NoFault, Held, Got, HostsOf, LeavesOf
  <2>. QED BY <1>2, <2>1 DEF FollowPfn, CountsOK
<1>3. ASSUME NEW p \in Pages, NEW w \in {0, 1}, NoMapping(p, w) PROVE CountsOK'
  BY <1>3 DEF NoMapping, CountsOK, HostsOf, LeavesOf, Held
<1>4. ASSUME flt.at \in {"got", "pfn"}, refs' = PutFaultPage, flt' = NoFault, host' = host,
             \A g \in Frames : LeavesOf(g)' = LeavesOf(g)
      PROVE  CountsOK'
  <2>1. \A g \in Frames : Held(g)' = 0 /\ HostsOf(g)' = HostsOf(g)
    BY <1>4 DEF Held, HostsOf, NoFault
  <2>2. flt.frame \in Frames
    BY <1>4 DEF FaultOK
  <2>3. \A g \in Frames : refs'[g] = refs[g] - Held(g)
    BY <1>4, <2>2, <1>fin DEF PutFaultPage, Held, EptTypeOK
  <2>. QED BY <1>4, <2>1, <2>3, <1>fin DEF CountsOK
<1>5. CASE LookupFails
  <2>1. \A g \in Frames : LeavesOf(g)' = LeavesOf(g)
    BY <1>5 DEF LookupFails, LeavesOf
  <2>. QED BY <1>4, <1>5, <2>1 DEF LookupFails
<1>6. CASE LookupNoMemory
  <2>1. PICK s \in TablesDownward(flt.page, FaultLevel) :
            entry' = [n \in Nodes |-> IF n \in s THEN Table ELSE entry[n]]
    BY <1>6 DEF LookupNoMemory
  <2>2. \A n \in s : entry[n] = None
    BY DEF TablesDownward, Missing
  <2>3. \A g \in Frames : LeavesOf(g)' = LeavesOf(g)
    BY <2>1, <2>2 DEF LeavesOf, IsLeaf
  <2>. QED BY <1>4, <1>6, <2>3 DEF LookupNoMemory
<1>7. CASE SetEntry
  <2>. DEFINE n == Node(flt.page, FaultLevel)  R == Replaced(n)
  <2>1. /\ n \in Nodes /\ flt.frame \in Frames
        /\ \A m \in Missing(flt.page, FaultLevel) : entry[m] = None
    BY <1>7, FaultFacts DEF SetEntry
  <2>2. /\ entry'[n].frame = flt.frame /\ IsLeaf(entry'[n])
        /\ \A m \in Missing(flt.page, FaultLevel) : m # n /\ entry'[m] = Table
        /\ \A m \in R : m # n => entry'[m] = None
        /\ \A m \in Nodes \ (Missing(flt.page, FaultLevel) \cup R) : entry'[m] = entry[m]
    BY <1>7, SetEntryFacts
  <2>3. n \in R /\ R \in SUBSET Nodes
    BY <2>1 DEF Replaced, Below
  <2>4. refs' = PutPages(R) /\ flt' = NoFault /\ host' = host /\ flt.at \in {"got", "pfn"}
    BY <1>7 DEF SetEntry
  <2>. HIDE DEF n, R
  <2>. SUFFICES ASSUME NEW f \in Frames
                PROVE  refs'[f] = Cardinality(HostsOf(f)')
                                  + (IF f \in PfnFrames THEN 0 ELSE Cardinality(LeavesOf(f)'))
                                  + Held(f)'
    BY DEF CountsOK
  <2>5. HostsOf(f)' = HostsOf(f) /\ Held(f)' = 0
    BY <2>4 DEF HostsOf, Held, NoFault
  <2>6. LeavesOf(f)' = (LeavesOf(f) \ R) \cup (IF f = flt.frame THEN {n} ELSE {})
    BY <2>1, <2>2, <2>3 DEF LeavesOf, IsLeaf
  <2>7. /\ Cardinality(LeavesOf(f) \ R) = Cardinality(LeavesOf(f)) - Cardinality(LeavesOf(f) \cap R)
        /\ IsFiniteSet(LeavesOf(f) \ R)
    BY Parts, FS_Difference
  <2>8. Cardinality(LeavesOf(f)') = Cardinality(LeavesOf(f) \ R) + (IF f = flt.frame THEN 1 ELSE 0)
    <3>1. CASE f = flt.frame
      <4>1. LeavesOf(f)' = (LeavesOf(f) \ R) \cup {n} /\ n \notin LeavesOf(f) \ R
        BY <2>3, <2>6, <3>1
      <4>. QED BY <2>7, <3>1, <4>1, FS_AddElement
    <3>2. CASE f # flt.frame
      <4>1. LeavesOf(f)' = LeavesOf(f) \ R
        BY <2>6, <3>2
      <4>2. Cardinality(LeavesOf(f) \ R) \in Nat
        BY <2>7, FS_CardinalityType
      <4>. QED BY <3>2, <4>1, <4>2
    <3>. QED BY <3>1, <3>2
  <2>9. {m \in R : IsLeaf(entry[m]) /\ entry[m].frame = f} = LeavesOf(f) \cap R
    BY <2>3 DEF LeavesOf
  <2>10. refs'[f] = refs[f] - (IF f \in PfnFrames THEN 0 ELSE Cardinality(LeavesOf(f) \cap R))
    BY <2>4, <2>9 DEF PutPages, Dropped
  <2>11. Cardinality(LeavesOf(f) \cap R) \in Nat
    BY <2>3, Finite
  <2>12. f \notin PfnFrames => Held(f) = (IF f = flt.frame THEN 1 ELSE 0)
    BY <2>4 DEF Held, FaultOK
  <2>13. f \in PfnFrames => Held(f) = 0
    BY <2>4 DEF Held, FaultOK
  <2>14. refs[f] = Cardinality(HostsOf(f))
                   + (IF f \in PfnFrames THEN 0 ELSE Cardinality(LeavesOf(f))) + Held(f)
    BY DEF CountsOK
  <2>15. CASE f \in PfnFrames
    BY <1>fin, <2>5, <2>10, <2>13, <2>14, <2>15
  <2>16. CASE f \notin PfnFrames
    BY <1>fin, <2>5, <2>7, <2>8, <2>10, <2>11, <2>12, <2>14, <2>16
  <2>. QED BY <2>15, <2>16
<1>8. ASSUME NEW n \in Nodes, NEW f \in Frames, HostMaps(n, f) PROVE CountsOK'
  <2>1. /\ host' = [host EXCEPT ![n] = f] /\ refs' = [refs EXCEPT ![f] = @ + 1]
        /\ host[n] = None /\ UNCHANGED <<entry, flt>> /\ f # None
    BY <1>8, EptAssumption DEF HostMaps, Mapped
  <2>2. \A g \in Frames : LeavesOf(g)' = LeavesOf(g) /\ Held(g)' = Held(g)
    BY <2>1 DEF LeavesOf, Held
  <2>3. \A g \in Frames \ {f} : HostsOf(g)' = HostsOf(g)
    BY <2>1, EptAssumption DEF HostsOf, EptTypeOK
  <2>4. HostsOf(f)' = HostsOf(f) \cup {n} /\ n \notin HostsOf(f)
    BY <2>1 DEF HostsOf, EptTypeOK
  <2>5. Cardinality(HostsOf(f)') = Cardinality(HostsOf(f)) + 1
    BY <2>4, <1>fin, FS_AddElement
  <2>. QED BY <2>1, <2>2, <2>3, <2>5, <1>fin DEF CountsOK, EptTypeOK
<1>9. ASSUME NEW n \in Nodes, NEW f \in Frames, HostReplaces(n, f) PROVE CountsOK'
  <2>0. PICK h : h = host[n]
    OBVIOUS
  <2>1. /\ host' = [host EXCEPT ![n] = f] /\ refs' = [refs EXCEPT ![f] = @ + 1, ![h] = @ - 1]
        /\ h # None /\ refs[f] = 0 /\ entry' = entry /\ flt'.at = flt.at /\ flt'.frame = flt.frame
    BY <1>9, <2>0 DEF HostReplaces, Changes, RacedBy, EptTypeOK
  <2>2. \A g \in Frames : LeavesOf(g)' = LeavesOf(g) /\ Held(g)' = Held(g)
    BY <2>1 DEF LeavesOf, Held
  <2>3. h \in Frames /\ n \in HostsOf(h)
    BY <2>0, <2>1 DEF HostsOf, EptTypeOK
  <2>4. Cardinality(HostsOf(h)) # 0
    BY <2>3, <1>fin, FS_EmptySet
  <2>5. h # f
    BY <2>1, <2>3, <2>4, <1>fin DEF CountsOK
  <2>6. \A g \in Frames \ {f, h} : HostsOf(g)' = HostsOf(g)
    BY <2>0, <2>1 DEF HostsOf, EptTypeOK
  <2>7. HostsOf(f)' = HostsOf(f) \cup {n} /\ n \notin HostsOf(f) /\ HostsOf(h)' = HostsOf(h) \ {n}
    BY <2>0, <2>1, <2>5 DEF HostsOf, EptTypeOK
  <2>8. Cardinality(HostsOf(f)') = Cardinality(HostsOf(f)) + 1
    BY <2>7, <1>fin, FS_AddElement
  <2>9. Cardinality(HostsOf(h)') = Cardinality(HostsOf(h)) - 1
    BY <2>3, <2>7, <1>fin, FS_RemoveElement
  <2>10. /\ refs'[f] = refs[f] + 1 /\ refs'[h] = refs[h] - 1
         /\ \A g \in Frames \ {f, h} : refs'[g] = refs[g]
    BY <2>1, <2>3, <2>5 DEF EptTypeOK
  <2>. QED BY <2>2, <2>3, <2>6, <2>8, <2>9, <2>10, <1>fin DEF CountsOK
<1>10. ASSUME NEW n \in Nodes, ept_mmu_notifier_invalidate_range_start(n) PROVE CountsOK'
  <2>1. host' = host /\ flt'.at = flt.at /\ flt'.frame = flt.frame
    BY <1>10 DEF ept_mmu_notifier_invalidate_range_start, Changes, RacedBy, EptTypeOK
  <2>2. CASE state = "gone"
    BY <1>10, <2>1, <2>2 DEF ept_mmu_notifier_invalidate_range_start, CountsOK,
       HostsOf, LeavesOf, Held
  <2>3. CASE state # "gone"
    <3>1. /\ entry' = Cleared(Hit(PagesOf[n])) /\ refs' = PutPages(Hit(PagesOf[n]))
          /\ PagesOf[n] \in SUBSET Pages
      BY <1>10, <2>3 DEF ept_mmu_notifier_invalidate_range_start, Invalidate, PagesOf
    <3>. QED BY <2>1, <3>1, CountCleared, HitLevel
  <2>. QED BY <2>2, <2>3
<1>11. CASE HostUnmaps
  <2>0. PICK n, h : n = chg.node /\ h = host[n]
    OBVIOUS
  <2>1. /\ host' = [host EXCEPT ![n] = None] /\ refs' = [refs EXCEPT ![h] = @ - 1]
        /\ h # None /\ n \in Nodes /\ UNCHANGED <<entry, flt>>
    BY <1>11, <2>0 DEF HostUnmaps, EptTypeOK, ChangeOK
  <2>2. \A g \in Frames : LeavesOf(g)' = LeavesOf(g) /\ Held(g)' = Held(g)
    BY <2>1 DEF LeavesOf, Held
  <2>3. h \in Frames /\ n \in HostsOf(h)
    BY <2>0, <2>1 DEF HostsOf, EptTypeOK
  <2>4. \A g \in Frames \ {h} : HostsOf(g)' = HostsOf(g)
    BY <2>0, <2>1, EptAssumption DEF HostsOf, EptTypeOK
  <2>5. HostsOf(h)' = HostsOf(h) \ {n}
    BY <2>0, <2>1, <2>3, EptAssumption DEF HostsOf, EptTypeOK
  <2>6. Cardinality(HostsOf(h)') = Cardinality(HostsOf(h)) - 1
    BY <2>3, <2>5, <1>fin, FS_RemoveElement
  <2>7. refs'[h] = refs[h] - 1 /\ \A g \in Frames \ {h} : refs'[g] = refs[g]
    BY <2>1, <2>3 DEF EptTypeOK
  <2>. QED BY <2>2, <2>3, <2>4, <2>6, <2>7, <1>fin DEF CountsOK
<1>12. CASE ept_mmu_notifier_change_pte
  <2>1. host' = host /\ flt' = flt /\ chg.node \in Nodes
    BY <1>12 DEF ept_mmu_notifier_change_pte, EptTypeOK
  <2>2. CASE state = "gone"
    <3>1. \A f \in Frames : /\ HostsOf(f)' = HostsOf(f) /\ LeavesOf(f)' = LeavesOf(f)
                            /\ Held(f)' = Held(f)
      BY <1>12, <2>1, <2>2 DEF ept_mmu_notifier_change_pte, HostsOf, LeavesOf, Held
    <3>. QED BY <1>12, <2>2, <3>1 DEF ept_mmu_notifier_change_pte, CountsOK
  <2>3. CASE state # "gone"
    <3>1. /\ entry' = Cleared(Hit(PagesOf[chg.node])) /\ refs' = PutPages(Hit(PagesOf[chg.node]))
          /\ PagesOf[chg.node] \in SUBSET Pages
      BY <1>12, <2>1, <2>3 DEF ept_mmu_notifier_change_pte, Invalidate, PagesOf
    <3>. QED BY <2>1, <3>1, CountCleared, HitLevel
  <2>. QED BY <2>2, <2>3
<1>13. ASSUME NEW p \in Pages, ept_mmu_notifier_clear_flush_young(p) PROVE CountsOK'
  <2>1. {Node(p, 0)} \in SUBSET Nodes
    BY NodeType DEF Levels
  <2>. QED BY <1>13, <2>1, CountCleared DEF ept_mmu_notifier_clear_flush_young,
     Invalidate
<1>14. CASE vmx_destroy_ept
  BY <1>14, CountCleared DEF vmx_destroy_ept
<1>15. CASE UNCHANGED vars
  BY <1>15 DEF vars, CountsOK, HostsOf, LeavesOf, Held
<1>16. ASSUME NEW n \in Nodes, ept_mmu_notifier_invalidate_page(n) PROVE CountsOK'
  <2>0. PICK h : h = host[n]
    OBVIOUS
  <2>1. PICK S \in SUBSET Nodes :
            entry' = Cleared(S) /\ refs' = [PutPages(S) EXCEPT ![h] = @ - 1]
    <3>1. PagesOf[n] \in SUBSET Pages
      BY DEF PagesOf
    <3>. QED BY <1>16, <2>0, <3>1, HitLevel DEF ept_mmu_notifier_invalidate_page
  <2>2. /\ host' = [host EXCEPT ![n] = None] /\ h # None
        /\ flt'.at = flt.at /\ flt'.frame = flt.frame
    BY <1>16, <2>0 DEF ept_mmu_notifier_invalidate_page, RacedBy, EptTypeOK
  <2>3. h \in Frames /\ n \in HostsOf(h)
    BY <2>0, <2>2 DEF HostsOf, EptTypeOK
  <2>4. \A g \in Frames : Held(g)' = Held(g) /\ (g # h => HostsOf(g)' = HostsOf(g))
    BY <2>0, <2>2, EptAssumption DEF Held, HostsOf, EptTypeOK
  <2>5. HostsOf(h)' = HostsOf(h) \ {n}
    BY <2>0, <2>2, <2>3, EptAssumption DEF HostsOf, EptTypeOK
  <2>6. Cardinality(HostsOf(h)') = Cardinality(HostsOf(h)) - 1
    BY <2>3, <2>5, <1>fin, FS_RemoveElement
  <2>7. \A g \in Frames : refs'[g] = IF g = h THEN PutPages(S)[g] - 1 ELSE PutPages(S)[g]
    BY <2>1, <2>3 DEF PutPages
  <2>8. \A g \in Frames :
            /\ Cardinality(LeavesOf(g) \cap S) \in Nat
            /\ Cardinality(LeavesOf(g)') = Cardinality(LeavesOf(g)) - Cardinality(LeavesOf(g) \cap S)
            /\ PutPages(S)[g] =
                refs[g] - (IF g \in PfnFrames THEN 0 ELSE Cardinality(LeavesOf(g) \cap S))
    BY <2>1, LeavesCleared
  <2>. SUFFICES ASSUME NEW g \in Frames
                PROVE  refs'[g] = Cardinality(HostsOf(g)')
                                  + (IF g \in PfnFrames THEN 0 ELSE Cardinality(LeavesOf(g)'))
                                  + Held(g)'
    BY DEF CountsOK
  <2>9. refs[g] = Cardinality(HostsOf(g))
                  + (IF g \in PfnFrames THEN 0 ELSE Cardinality(LeavesOf(g))) + Held(g)
    BY DEF CountsOK
  <2>10. Cardinality(HostsOf(g)') = Cardinality(HostsOf(g)) - (IF g = h THEN 1 ELSE 0)
    BY <2>4, <2>6, <1>fin
  <2>11. PICK k \in Nat, c \in Nat, l \in Nat, d \in Nat :
            /\ k = Cardinality(LeavesOf(g) \cap S) /\ c = Cardinality(HostsOf(g))
            /\ l = Cardinality(LeavesOf(g)) /\ d = Held(g)
    BY <2>8, <1>fin
  <2>12. Cardinality(LeavesOf(g)') = l - k
    BY <2>8, <2>11
  <2>13. PutPages(S)[g] = refs[g] - (IF g \in PfnFrames THEN 0 ELSE k)
    BY <2>8, <2>11
  <2>14. refs[g] = c + (IF g \in PfnFrames THEN 0 ELSE l) + d
    BY <2>9, <2>11
  <2>15. refs'[g] = PutPages(S)[g] - (IF g = h THEN 1 ELSE 0)
    BY <2>7, <2>13, <2>14
  <2>16. Cardinality(HostsOf(g)') = c - (IF g = h THEN 1 ELSE 0) /\ Held(g)' = d
    BY <2>4, <2>10, <2>11
  <2>. QED BY <2>12, <2>13, <2>14, <2>15, <2>16
<1>. QED BY <1>1, <1>2, <1>3, <1>5, <1>6, <1>7, <1>8, <1>9, <1>10, <1>11,
         <1>12, <1>13, <1>14, <1>15, <1>16 DEF Next

-----------------------------------------------------------------------------
\* A change of node n leaves the pages of other nodes alone.
LEMMA HostOther ==
    ASSUME EptTypeOK, NEW n \in Nodes, NEW x, host' = [host EXCEPT ![n] = x],
           NEW p \in Pages, p \notin PagesOf[n]
    PROVE  HostFrames(p)' = HostFrames(p)
<1>1. \A l \in Levels : Node(p, l) # n
  BY NodeType
<1>2. \A l \in Levels : host'[Node(p, l)] = host[Node(p, l)]
  BY <1>1, NodeType DEF EptTypeOK
<1>. QED BY <1>2 DEF HostFrames

\* The process maps a page once.
LEMMA HostUnique ==
    ASSUME EptInv, NEW p \in Pages, NEW f \in HostFrames(p)
    PROVE  f \in Frames /\ HostFrames(p) = {f}
<1>1. PICK l \in Levels : f = host[Node(p, l)] /\ f # None
  BY DEF HostFrames
<1>2. ASSUME NEW k \in Levels, host[Node(p, k)] # None PROVE k = l
  <2>1. /\ Node(p, k) \in Nodes /\ Node(p, l) \in Nodes
        /\ Above[Node(p, k)] = {Node(p, j) : j \in (k + 1)..2}
        /\ Above[Node(p, l)] = {Node(p, j) : j \in (l + 1)..2}
    BY NodeType, AboveIs
  <2>2. ~(k < l)
    BY <1>1, <1>2, <2>1 DEF EptInv, HostOK, Levels
  <2>3. ~(l < k)
    BY <1>1, <1>2, <2>1 DEF EptInv, HostOK, Levels
  <2>. QED BY <2>2, <2>3 DEF Levels
<1>3. f \in Frames
  BY <1>1, NodeType DEF EptInv, EptTypeOK
<1>. QED BY <1>1, <1>2, <1>3 DEF HostFrames

\* A page whose entry is kept or is no leaf any more, and whose mapping by the
\* process is not concerned.
LEMMA EntryKept ==
    ASSUME NEW p \in Pages, EntryOK(p), HostFrames(p)' = HostFrames(p),
           entry'[Node(p, 0)] = entry[Node(p, 0)] \/ ~IsLeaf(entry'[Node(p, 0)]),
           ~Changing(p)' \/ chg' = chg, Changing(p) => chg' = chg
    PROVE  EntryOK(p)'
BY DEF EntryOK, Changing, Node, NodeOf, IsLeaf

\* The callbacks leave no leaf on the pages that they are about.
LEMMA HitCleared ==
    ASSUME EptInv, NEW P \in SUBSET Pages, entry' = Cleared(Hit(P)), NEW p \in Pages
    PROVE  /\ p \in P => entry'[Node(p, 0)] = None
           /\ entry'[Node(p, 0)] \in {None, entry[Node(p, 0)]}
<1>1. Node(p, 0) \in Nodes
  BY NodeType DEF Levels
<1>2. entry'[Node(p, 0)] = IF Node(p, 0) \in Hit(P) THEN None ELSE entry[Node(p, 0)]
  BY <1>1 DEF Cleared
<1>3. p \in P /\ entry[Node(p, 0)] # None => Node(p, 0) \in Hit(P)
  BY LeafFound DEF Hit
<1>. QED BY <1>2, <1>3

\* What SyncStep is about.
SyncOK == (\A q \in Pages : EntryOK(q)) /\ FaultSync

\* Every step keeps the EPT synchronized.
LEMMA SyncStep == ASSUME EptInv, [Next]_vars PROVE SyncOK'
<1>. EptTypeOK /\ FaultOK /\ ChangeOK /\ GoneOK /\ (\A q \in Pages : EntryOK(q)) /\ FaultSync
  BY DEF EptInv
<1>same. host' = host => \A q \in Pages : HostFrames(q)' = HostFrames(q)
  BY DEF HostFrames
<1>keep. entry' = entry /\ host' = host /\ chg' = chg => \A q \in Pages : EntryOK(q)'
  BY DEF EntryOK, HostFrames, Changing
<1>none. ~IsLeaf(None) /\ ~IsLeaf(Table)
  BY DEF IsLeaf
<1>zero. \A q \in Pages : Node(q, 0) \in Nodes
  BY NodeType DEF Levels
<1>got. ASSUME NEW p \in Pages, NEW w, NEW a, NEW f \in HostFrames(p), flt' = Got(a, p, w, f),
               UNCHANGED <<entry, host, chg>>
        PROVE  SyncOK'
  <2>1. flt'.page = p /\ flt'.frame = f /\ (flt'.raced <=> Changing(p))
    <3>1. chg # NoChange <=> chg.at # "idle"
      BY DEF ChangeOK, NoChange
    <3>2. /\ flt'.page = p /\ flt'.frame = f
          /\ flt'.raced = (chg # NoChange /\ p \in PagesOf[chg.node])
      BY <1>got DEF Got
    <3>. QED BY <3>1, <3>2 DEF Changing
  <2>2. HostFrames(p) = {f}
    BY HostUnique
  <2>3. (Changing(p)' <=> Changing(p)) /\ HostFrames(p)' = HostFrames(p)
    BY <1>got, <1>same DEF Changing
  <2>4. FaultSync'
    BY <2>1, <2>2, <2>3 DEF FaultSync, Changing, HostFrames
  <2>. QED BY <1>got, <1>keep, <2>4 DEF SyncOK
<1>1. ASSUME NEW p \in Pages, NEW w \in {0, 1}, GetUserPage(p, w) PROVE SyncOK'
  BY <1>1, <1>got DEF GetUserPage
<1>2. ASSUME NEW p \in Pages, NEW w \in {0, 1}, FollowPfn(p, w) PROVE SyncOK'
  BY <1>2, <1>got DEF FollowPfn
<1>3. ASSUME NEW p \in Pages, NEW w \in {0, 1}, NoMapping(p, w) PROVE SyncOK'
  BY <1>3, <1>keep DEF NoMapping, SyncOK, FaultSync, HostFrames, Changing
<1>4. CASE LookupFails
  BY <1>4, <1>keep DEF LookupFails, NoFault, SyncOK, FaultSync
<1>5. CASE LookupNoMemory
  <2>1. PICK s \in TablesDownward(flt.page, FaultLevel) :
            entry' = [n \in Nodes |-> IF n \in s THEN Table ELSE entry[n]]
    BY <1>5 DEF LookupNoMemory
  <2>2. host' = host /\ chg' = chg /\ flt'.at = "idle"
    BY <1>5 DEF LookupNoMemory, NoFault
  <2>3. \A q \in Pages : entry'[Node(q, 0)] \in {Table, entry[Node(q, 0)]}
    BY <2>1, <1>zero
  <2>4. \A q \in Pages : EntryOK(q)'
    BY <2>2, <2>3, <1>same, <1>none, EntryKept
  <2>. QED BY <2>2, <2>4 DEF SyncOK, FaultSync
<1>6. CASE SetEntry
  <2>. DEFINE p == flt.page  l == FaultLevel  n == Node(p, l)
  <2>1. /\ l \in Levels /\ p \in Pages /\ n \in Nodes /\ Missing(p, l) \subseteq Nodes
    BY <1>6, FaultFacts DEF SetEntry
  <2>2. /\ entry'[n] = [frame |-> flt.frame, write |-> flt.write, raced |-> flt.raced]
        /\ \A m \in Missing(p, l) : m # n /\ entry'[m] = Table
        /\ \A m \in Replaced(n) : m # n => entry'[m] = None
        /\ \A m \in Nodes \ (Missing(p, l) \cup Replaced(n)) : entry'[m] = entry[m]
    BY <1>6, SetEntryFacts
  <2>3. host' = host /\ chg' = chg /\ flt'.at = "idle" /\ flt.at # "idle"
    BY <1>6 DEF SetEntry, NoFault
  <2>4. \A q \in Pages : Node(q, 0) = n => q = p
    BY <2>1, NodeType, NodeIs DEF Levels
  <2>5. ASSUME NEW q \in Pages PROVE EntryOK(q)'
    <3>1. CASE Node(q, 0) = n
      <4>1. q = p /\ entry'[Node(q, 0)].raced = flt.raced /\ entry'[Node(q, 0)].frame = flt.frame
        BY <2>2, <2>4, <3>1
      <4>2. (Changing(q)' <=> Changing(q)) /\ HostFrames(q)' = HostFrames(q)
        BY <2>3, <1>same DEF Changing
      <4>3. ~flt.raced => ~Changing(q) /\ HostFrames(q) = {flt.frame}
        BY <2>3, <4>1 DEF FaultSync
      <4>. QED BY <4>1, <4>2, <4>3 DEF EntryOK
    <3>2. CASE Node(q, 0) # n
      <4>1. entry'[Node(q, 0)] \in {None, Table, entry[Node(q, 0)]}
        BY <2>2, <3>2, <1>zero
      <4>. QED BY <2>3, <4>1, <1>same, <1>none, EntryKept
    <3>. QED BY <3>1, <3>2
  <2>. QED BY <2>3, <2>5 DEF SyncOK, FaultSync
<1>7. ASSUME NEW n \in Nodes, NEW f \in Frames, HostMaps(n, f) PROVE SyncOK'
  <2>1. host' = [host EXCEPT ![n] = f] /\ UNCHANGED <<entry, flt, chg>>
    BY <1>7 DEF HostMaps
  <2>2. \A q \in PagesOf[n] : \A l \in Levels : host[Node(q, l)] = None
    BY <1>7, MappedIs DEF HostMaps
  <2>3. ASSUME NEW q \in PagesOf[n] PROVE q \in Pages /\ HostFrames(q) = {} /\ ~Changing(q)
    <3>1. q \in Pages /\ HostFrames(q) = {}
      BY <2>2, MappedIs DEF HostFrames, Levels
    <3>2. ASSUME Changing(q) PROVE FALSE
      <4>1. chg.node \in Nodes /\ Node(q, chg.node[1]) = chg.node /\ chg.node[1] \in Levels
        BY <3>2, NodeHasPage DEF Changing, EptTypeOK, PagesOf
      <4>. QED BY <2>2, <3>2, <4>1 DEF ChangeOK, Changing
    <3>. QED BY <3>1, <3>2
  <2>4. \A q \in Pages \ PagesOf[n] : HostFrames(q)' = HostFrames(q)
    BY <2>1, HostOther
  <2>5. ASSUME NEW q \in Pages PROVE EntryOK(q)'
    <3>1. CASE q \in PagesOf[n]
      <4>1. IsLeaf(entry[Node(q, 0)]) => entry[Node(q, 0)].raced
        BY <2>3, <3>1 DEF EntryOK
      <4>. QED BY <2>1, <4>1 DEF EntryOK
    <3>2. CASE q \notin PagesOf[n]
      BY <2>1, <2>4, <3>2, EntryKept
    <3>. QED BY <3>1, <3>2
  <2>6. FaultSync'
    <3>. SUFFICES ASSUME flt.at # "idle", ~flt.raced
                  PROVE  /\ ~Changing(flt.page) /\ HostFrames(flt.page)' = {flt.frame}
                         /\ flt' = flt /\ chg' = chg
      BY <2>1 DEF FaultSync, Changing, HostFrames
    <3>1. ~Changing(flt.page) /\ HostFrames(flt.page) = {flt.frame} /\ flt.page \in Pages
      BY DEF FaultSync, EptTypeOK
    <3>2. PICK q \in Pages : q = flt.page
      BY <3>1
    <3>3. HostFrames(q)' = HostFrames(q)
      BY <2>3, <2>4, <3>1, <3>2
    <3>. QED BY <2>1, <3>1, <3>2, <3>3 DEF HostFrames
  <2>. QED BY <2>5, <2>6 DEF SyncOK
<1>8. ASSUME NEW n \in Nodes, NEW f \in Frames, HostReplaces(n, f) PROVE SyncOK'
  <2>1. /\ host' = [host EXCEPT ![n] = f] /\ entry' = entry /\ chg.at = "idle"
        /\ chg' = [at |-> "changed", node |-> n] /\ flt'.at = flt.at /\ flt'.page = flt.page
        /\ flt'.frame = flt.frame
        /\ flt'.raced <=> flt.raced \/ (flt.at # "idle" /\ flt.page \in PagesOf[n])
    BY <1>8 DEF HostReplaces, Changes, RacedBy, EptTypeOK, NoChange
  <2>2. \A q \in Pages \ PagesOf[n] : HostFrames(q)' = HostFrames(q)
    BY <2>1, HostOther
  <2>3. \A q \in Pages : ~Changing(q) /\ (Changing(q)' <=> q \in PagesOf[n])
    BY <2>1 DEF Changing
  <2>4. ASSUME NEW q \in Pages PROVE EntryOK(q)'
    <3>1. CASE q \in PagesOf[n]
      BY <2>1, <2>3, <3>1 DEF EntryOK
    <3>2. CASE q \notin PagesOf[n]
      BY <2>1, <2>2, <2>3, <3>2, EntryKept
    <3>. QED BY <3>1, <3>2
  <2>5. FaultSync'
    BY <2>1, <2>2, <2>3 DEF FaultSync, EptTypeOK, Changing, HostFrames
  <2>. QED BY <2>4, <2>5 DEF SyncOK
<1>9. ASSUME NEW n \in Nodes, ept_mmu_notifier_invalidate_range_start(n) PROVE SyncOK'
  <2>1. /\ host' = host /\ chg.at = "idle"
        /\ chg' = [at |-> "unmap", node |-> n] /\ flt'.at = flt.at /\ flt'.page = flt.page
        /\ flt'.frame = flt.frame
        /\ flt'.raced <=> flt.raced \/ (flt.at # "idle" /\ flt.page \in PagesOf[n])
    BY <1>9 DEF ept_mmu_notifier_invalidate_range_start, Changes, RacedBy, EptTypeOK, NoChange
  <2>2. \A q \in Pages : /\ q \in PagesOf[n] => entry'[Node(q, 0)] = None
                         /\ entry'[Node(q, 0)] \in {None, entry[Node(q, 0)]}
    <3>1. CASE state = "gone"
      BY <1>9, <3>1, <1>zero DEF ept_mmu_notifier_invalidate_range_start, GoneOK
    <3>2. CASE state # "gone"
      <4>1. entry' = Cleared(Hit(PagesOf[n])) /\ PagesOf[n] \in SUBSET Pages
        BY <1>9, <3>2 DEF ept_mmu_notifier_invalidate_range_start, Invalidate, PagesOf
      <4>. QED BY <4>1, HitCleared
    <3>. QED BY <3>1, <3>2
  <2>3. \A q \in Pages : ~Changing(q) /\ (Changing(q)' <=> q \in PagesOf[n])
    BY <2>1 DEF Changing
  <2>4. ASSUME NEW q \in Pages PROVE EntryOK(q)'
    <3>1. CASE q \in PagesOf[n]
      BY <2>2, <3>1, <1>none DEF EntryOK
    <3>2. CASE q \notin PagesOf[n]
      BY <2>1, <2>2, <2>3, <3>2, <1>same, <1>none, EntryKept
    <3>. QED BY <3>1, <3>2
  <2>5. FaultSync'
    BY <2>1, <2>3 DEF FaultSync, EptTypeOK, Changing, HostFrames
  <2>. QED BY <2>4, <2>5 DEF SyncOK
<1>10. CASE HostUnmaps
  <2>1. /\ host' = [host EXCEPT ![chg.node] = None] /\ chg.node \in Nodes /\ chg.at = "unmap"
        /\ chg'.at = "idle" /\ UNCHANGED <<entry, flt>>
    BY <1>10 DEF HostUnmaps, NoChange, EptTypeOK
  <2>2. \A q \in Pages \ PagesOf[chg.node] : HostFrames(q)' = HostFrames(q)
    BY <2>1, HostOther
  <2>3. \A q \in Pages : (Changing(q) <=> q \in PagesOf[chg.node]) /\ ~Changing(q)'
    BY <2>1 DEF Changing
  <2>4. ASSUME NEW q \in Pages PROVE EntryOK(q)'
    <3>1. CASE q \in PagesOf[chg.node]
      <4>1. IsLeaf(entry[Node(q, 0)]) => entry[Node(q, 0)].raced
        BY <2>1, <2>3, <3>1 DEF EntryOK
      <4>. QED BY <2>1, <4>1 DEF EntryOK
    <3>2. CASE q \notin PagesOf[chg.node]
      BY <2>1, <2>2, <2>3, <3>2, EntryKept
    <3>. QED BY <3>1, <3>2
  <2>5. FaultSync'
    BY <2>1, <2>2, <2>3 DEF FaultSync, EptTypeOK, Changing, HostFrames
  <2>. QED BY <2>4, <2>5 DEF SyncOK
<1>11. CASE ept_mmu_notifier_change_pte
  <2>1. host' = host /\ flt' = flt /\ chg.node \in Nodes /\ chg'.at = "idle" /\ chg.at = "changed"
    BY <1>11 DEF ept_mmu_notifier_change_pte, EptTypeOK, NoChange
  <2>2. \A q \in Pages : /\ q \in PagesOf[chg.node] => entry'[Node(q, 0)] = None
                         /\ entry'[Node(q, 0)] \in {None, entry[Node(q, 0)]}
    <3>1. CASE state = "gone"
      BY <1>11, <3>1, <1>zero DEF ept_mmu_notifier_change_pte, GoneOK
    <3>2. CASE state # "gone"
      <4>1. entry' = Cleared(Hit(PagesOf[chg.node])) /\ PagesOf[chg.node] \in SUBSET Pages
        BY <1>11, <2>1, <3>2 DEF ept_mmu_notifier_change_pte, Invalidate, PagesOf
      <4>. QED BY <4>1, HitCleared
    <3>. QED BY <3>1, <3>2
  <2>3. \A q \in Pages : (Changing(q) <=> q \in PagesOf[chg.node]) /\ ~Changing(q)'
    BY <2>1 DEF Changing
  <2>4. ASSUME NEW q \in Pages PROVE EntryOK(q)'
    <3>1. CASE q \in PagesOf[chg.node]
      BY <2>2, <3>1, <1>none DEF EntryOK
    <3>2. CASE q \notin PagesOf[chg.node]
      BY <2>1, <2>2, <2>3, <3>2, <1>same, <1>none, EntryKept
    <3>. QED BY <3>1, <3>2
  <2>5. FaultSync'
    BY <2>1, <2>3 DEF FaultSync, EptTypeOK, Changing, HostFrames
  <2>. QED BY <2>4, <2>5 DEF SyncOK
<1>12. ASSUME NEW p \in Pages, ept_mmu_notifier_clear_flush_young(p) PROVE SyncOK'
  <2>1. entry' = Cleared({Node(p, 0)}) /\ UNCHANGED <<host, flt, chg>>
    BY <1>12 DEF ept_mmu_notifier_clear_flush_young, Invalidate
  <2>2. \A q \in Pages : entry'[Node(q, 0)] \in {None, entry[Node(q, 0)]}
    BY <2>1, <1>zero DEF Cleared
  <2>3. \A q \in Pages : EntryOK(q)'
    BY <2>1, <2>2, <1>same, <1>none, EntryKept
  <2>. QED BY <2>1, <2>3 DEF SyncOK, FaultSync, Changing, HostFrames
<1>13. CASE vmx_destroy_ept
  <2>1. entry' = Cleared(Nodes) /\ flt'.at = "idle" /\ UNCHANGED <<host, chg>>
    BY <1>13 DEF vmx_destroy_ept, NoFault
  <2>2. \A q \in Pages : entry'[Node(q, 0)] = None
    BY <2>1, <1>zero DEF Cleared
  <2>. QED BY <2>1, <2>2, <1>none DEF SyncOK, FaultSync, EntryOK
<1>14. CASE UNCHANGED vars
  BY <1>14, <1>keep DEF vars, SyncOK, FaultSync, Changing, HostFrames
<1>15. ASSUME NEW n \in Nodes, ept_mmu_notifier_invalidate_page(n) PROVE SyncOK'
  <2>1. /\ host' = [host EXCEPT ![n] = None] /\ chg' = chg /\ chg.at = "idle"
        /\ flt'.at = flt.at /\ flt'.page = flt.page /\ flt'.frame = flt.frame
        /\ flt'.raced <=> flt.raced \/ (flt.at # "idle" /\ flt.page \in PagesOf[n])
    BY <1>15 DEF ept_mmu_notifier_invalidate_page, RacedBy, EptTypeOK, NoChange
  <2>2. \A q \in Pages : /\ q \in PagesOf[n] => entry'[Node(q, 0)] = None
                         /\ entry'[Node(q, 0)] \in {None, entry[Node(q, 0)]}
    <3>1. CASE state = "gone"
      BY <1>15, <3>1, <1>zero DEF ept_mmu_notifier_invalidate_page, Cleared, GoneOK
    <3>2. CASE state # "gone"
      <4>1. entry' = Cleared(Hit(PagesOf[n])) /\ PagesOf[n] \in SUBSET Pages
        BY <1>15, <3>2 DEF ept_mmu_notifier_invalidate_page, PagesOf
      <4>. QED BY <4>1, HitCleared
    <3>. QED BY <3>1, <3>2
  <2>3. \A q \in Pages : ~Changing(q) /\ ~Changing(q)'
    BY <2>1 DEF Changing
  <2>4. \A q \in Pages \ PagesOf[n] : HostFrames(q)' = HostFrames(q)
    BY <2>1, HostOther
  <2>5. ASSUME NEW q \in Pages PROVE EntryOK(q)'
    <3>1. CASE q \in PagesOf[n]
      BY <2>2, <3>1, <1>none DEF EntryOK
    <3>2. CASE q \notin PagesOf[n]
      BY <2>1, <2>2, <2>3, <2>4, <3>2, <1>same, <1>none, EntryKept
    <3>. QED BY <3>1, <3>2
  <2>6. FaultSync'
    BY <2>1, <2>3, <2>4 DEF FaultSync, EptTypeOK, Changing, HostFrames
  <2>. QED BY <2>5, <2>6 DEF SyncOK
<1>. QED BY <1>1, <1>2, <1>3, <1>4, <1>5, <1>6, <1>7, <1>8, <1>9, <1>10, <1>11,
         <1>12, <1>13, <1>14, <1>15 DEF Next

-----------------------------------------------------------------------------
\* Every step keeps the types.
LEMMA TypeStep == ASSUME EptInv, [Next]_vars PROVE EptTypeOK'
<1>. EptTypeOK
  BY DEF EptInv
<1>1. entry' \in [Nodes -> {None, Table} \cup Leaf]
  BY TreeStep DEF TreeOK
<1>2. refs' \in [Frames -> Nat]
  <2>1. \A f \in Frames : refs'[f] \in Nat
    BY CountStep, Parts DEF CountsOK
  <2>2. refs' = [f \in Frames |-> refs'[f]]
    BY DEF EptTypeOK, Next, vars, GetUserPage, FollowPfn, NoMapping, LookupFails,
       LookupNoMemory, SetEntry, PutFaultPage, PutPages, HostMaps, HostReplaces, Invalidate,
       ept_mmu_notifier_invalidate_range_start, HostUnmaps, ept_mmu_notifier_change_pte,
       ept_mmu_notifier_invalidate_page, ept_mmu_notifier_clear_flush_young, vmx_destroy_ept
  <2>. QED BY <2>1, <2>2
<1>3. 0 \in Pages /\ <<0, 0>> \in Nodes
  <2>1. 0 \in Pages
    BY EptAssumption DEF Pages
  <2>2. Node(0, 0) = <<0, 0>> /\ Node(0, 0) \in Nodes
    BY <2>1, NodeIs, NodeType DEF Levels
  <2>. QED BY <2>1, <2>2
<1>4. \A p \in Pages : HostFrames(p) \subseteq Frames
  BY NodeType DEF HostFrames, EptTypeOK
<1>5. state' \in {"run", "failed", "gone"}
  BY DEF EptTypeOK, Next, vars, GetUserPage, FollowPfn, NoMapping, LookupFails,
     LookupNoMemory, SetEntry, HostMaps, HostReplaces,
     ept_mmu_notifier_invalidate_range_start, HostUnmaps, ept_mmu_notifier_change_pte,
     ept_mmu_notifier_invalidate_page, ept_mmu_notifier_clear_flush_young, vmx_destroy_ept
<1>8. host' \in [Nodes -> Frames \cup {None}]
  <2>1. \/ host' = host \/ host' = [host EXCEPT ![chg.node] = None]
        \/ \E n \in Nodes, f \in Frames \cup {None} : host' = [host EXCEPT ![n] = f]
    BY DEF Next, vars, GetUserPage, FollowPfn, NoMapping, LookupFails,
       LookupNoMemory, SetEntry, HostMaps, HostReplaces,
       ept_mmu_notifier_invalidate_range_start, HostUnmaps, ept_mmu_notifier_change_pte,
       ept_mmu_notifier_invalidate_page, ept_mmu_notifier_clear_flush_young, vmx_destroy_ept
  <2>. QED BY <2>1 DEF EptTypeOK
<1>6. flt' \in [at : {"idle", "got", "pfn"}, page : Pages, write : {0, 1},
                frame : Frames \cup {None}, raced : BOOLEAN]
  <2>1. \/ flt' = flt \/ flt' = NoFault
        \/ \E p \in Pages, w \in {0, 1}, a \in {"got", "pfn"} :
                \E f \in HostFrames(p) : flt' = Got(a, p, w, f)
        \/ \E n \in Nodes : flt' = RacedBy(n)
    BY DEF Next, vars, GetUserPage, FollowPfn, NoMapping, LookupFails,
       LookupNoMemory, SetEntry, HostMaps, HostReplaces, Changes,
       ept_mmu_notifier_invalidate_range_start, HostUnmaps, ept_mmu_notifier_change_pte,
       ept_mmu_notifier_invalidate_page, ept_mmu_notifier_clear_flush_young, vmx_destroy_ept
  <2>2. CASE flt' = NoFault
    BY <1>3, <2>2 DEF NoFault
  <2>3. ASSUME NEW p \in Pages, NEW w \in {0, 1}, NEW a \in {"got", "pfn"}, NEW f \in HostFrames(p),
               flt' = Got(a, p, w, f)
        PROVE  flt' \in [at : {"idle", "got", "pfn"}, page : Pages, write : {0, 1},
                 frame : Frames \cup {None}, raced : BOOLEAN]
    BY <1>4, <2>3 DEF Got
  <2>4. ASSUME NEW n \in Nodes, flt' = RacedBy(n)
        PROVE  flt' \in [at : {"idle", "got", "pfn"}, page : Pages, write : {0, 1},
                 frame : Frames \cup {None}, raced : BOOLEAN]
    BY <2>4 DEF RacedBy, EptTypeOK
  <2>. QED BY <2>1, <2>2, <2>3, <2>4 DEF EptTypeOK
<1>7. chg' \in [at : {"idle", "unmap", "changed"}, node : Nodes]
  <2>1. \/ chg' = chg \/ chg' = NoChange
        \/ \E n \in Nodes : Changes("unmap", n) \/ Changes("changed", n)
    BY DEF Next, vars, GetUserPage, FollowPfn, NoMapping, LookupFails,
       LookupNoMemory, SetEntry, HostMaps, HostReplaces,
       ept_mmu_notifier_invalidate_range_start, HostUnmaps, ept_mmu_notifier_change_pte,
       ept_mmu_notifier_invalidate_page, ept_mmu_notifier_clear_flush_young, vmx_destroy_ept
  <2>. QED BY <1>3, <2>1 DEF NoChange, Changes, RacedBy, EptTypeOK
<1>. QED BY <1>1, <1>2, <1>5, <1>6, <1>7, <1>8 DEF EptTypeOK

\* At first nothing is mapped anywhere.
LEMMA InitInv == ASSUME Init PROVE EptInv
<1>1. 0 \in Pages /\ <<0, 0>> \in Nodes
  <2>1. 0 \in Pages
    BY EptAssumption DEF Pages
  <2>2. Node(0, 0) = <<0, 0>> /\ Node(0, 0) \in Nodes
    BY <2>1, NodeIs, NodeType DEF Levels
  <2>. QED BY <2>1, <2>2
<1>2. EptTypeOK
  BY <1>1 DEF Init, EptTypeOK, NoFault, NoChange
<1>3. \A f \in Frames : HostsOf(f) = {} /\ LeavesOf(f) = {} /\ Held(f) = 0
  BY EptAssumption DEF Init, HostsOf, LeavesOf, Held, IsLeaf, NoFault
<1>4. CountsOK
  BY <1>3, FS_EmptySet DEF Init, CountsOK
<1>5. \A p \in Pages : EntryOK(p)
  <2>1. \A p \in Pages : entry[Node(p, 0)] = None
    BY NodeType DEF Init, Levels
  <2>. QED BY <2>1 DEF EntryOK, IsLeaf
<1>6. FaultOK /\ ChangeOK /\ HostOK /\ GoneOK /\ TreeSound /\ FaultSync
  BY DEF Init, FaultOK, ChangeOK, HostOK, GoneOK, TreeSound, FaultSync, NoFault,
     NoChange
<1>. QED BY <1>2, <1>4, <1>5, <1>6 DEF EptInv

\* EPT, process and reference counts fit together in every reachable state.
THEOREM EptInvariance == Spec => []EptInv
<1>1. ASSUME EptInv, [Next]_vars PROVE EptInv'
  BY <1>1, TypeStep, FaultStep, TreeStep, CountStep, SyncStep DEF EptInv, WorldOK, TreeOK, SyncOK
<1>. QED BY <1>1, InitInv, PTL DEF Spec

\* Everything that hangs in the EPT hangs under tables.
THEOREM TreesStaySound == Spec => []TreeSound
<1>1. EptInv => TreeSound
  BY DEF EptInv
<1>. QED BY <1>1, EptInvariance, PTL

\* Every reference to a page is somebody's: no path of vmx_do_ept_fault, of the
\* notifiers or of vmx_destroy_ept leaks or drops one.
THEOREM RefsStayExact == Spec => []RefsExact
<1>1. ASSUME EptInv PROVE RefsExact
  <2>1. ASSUME NEW f \in Frames \ PfnFrames
        PROVE  refs[f] = Cardinality({n \in Nodes : host[n] = f})
                  + Cardinality({n \in Nodes : IsLeaf(entry[n]) /\ entry[n].frame = f})
                  + (IF flt.at = "got" /\ flt.frame = f THEN 1 ELSE 0)
    BY <1>1 DEF EptInv, CountsOK, HostsOf, LeavesOf, Held
  <2>. QED BY <1>1, <2>1 DEF RefsExact, EptInv
<1>. QED BY <1>1, EptInvariance, PTL

\* The notifiers miss no entry that is older than the change they tell of.
THEOREM StaysSynchronized == Spec => []Synchronized
<1>1. ASSUME EptInv PROVE Synchronized
  <2>1. ASSUME chg = NoChange, NEW p \in Pages,
               IsLeaf(entry[Node(p, 0)]), ~entry[Node(p, 0)].raced
        PROVE  HostFrames(p) = {entry[Node(p, 0)].frame}
    BY <1>1, <2>1 DEF EptInv, EntryOK, Changing, NoChange
  <2>. QED BY <2>1 DEF Synchronized
<1>. QED BY <1>1, EptInvariance, PTL

-----------------------------------------------------------------------------
(***************************************************************************)
(* The address maps.  For every layout, the library's and the kernel's     *)
(* agree on the addresses that the kernel supports, and the kernel's two   *)
(* are inverse there.                                                      *)
(***************************************************************************)

\* The layout's bases, as integers: the rounding itself plays no role.
LEMMA Bases ==
    /\ base_map \in Nat /\ base_stack \in Nat
    /\ LG_ALIGN(mm_mmap_base) - GPA_MAP_SIZE = base_map
    /\ LG_ALIGN(mm_start_stack) - GPA_STACK_SIZE = base_stack
    /\ LG_ALIGN(mm_mmap_base) \in Int /\ LG_ALIGN(mm_start_stack) \in Int
  BY LayoutAssumption DEF base_map, base_stack, LG_ALIGN

\* dune_va_to_pa and hva_to_gpa agree on every supported address.
THEOREM MapsAgree ==
    ASSUME NEW a \in Nat, InRange(a)
    PROVE  dune_va_to_pa(a) = hva_to_gpa(a)
  BY Bases, LayoutAssumption
  DEF InRange, dune_va_to_pa, dune_stack_addr_to_pa, dune_mmap_addr_to_pa,
      hva_to_gpa, ADDR_INVAL

\* gpa_to_hva undoes hva_to_gpa on every supported address; hence no two of them
\* share a guest-physical address.
THEOREM MapsInverse ==
    ASSUME NEW a \in Nat, InRange(a)
    PROVE  gpa_to_hva(hva_to_gpa(a)) = a
  <1> DEFINE m == LG_ALIGN(mm_mmap_base)  s == LG_ALIGN(mm_start_stack)
  <1>1. /\ m \in Int /\ s \in Int /\ base_map \in Nat /\ base_stack \in Nat
        /\ m - GPA_MAP_SIZE = base_map /\ s - GPA_STACK_SIZE = base_stack
    BY Bases
  <1> HIDE DEF m, s
  <1>2. \A g \in Int : gpa_to_hva(g) =
            IF g < phys_end - GPA_STACK_SIZE - GPA_MAP_SIZE THEN g
            ELSE IF g < phys_end - GPA_STACK_SIZE
                 THEN g - (phys_end - GPA_STACK_SIZE - GPA_MAP_SIZE) + m - GPA_MAP_SIZE
            ELSE IF g < phys_end
                 THEN g - (phys_end - GPA_STACK_SIZE) + s - GPA_STACK_SIZE
            ELSE ADDR_INVAL
    BY DEF gpa_to_hva, m, s
  <1>3. hva_to_gpa(a) \in Int
    BY <1>1, LayoutAssumption DEF hva_to_gpa, ADDR_INVAL
  <1>4. QED
    BY <1>1, <1>2, <1>3, LayoutAssumption DEF InRange, hva_to_gpa, ADDR_INVAL

-----------------------------------------------------------------------------
\* Every fault on a supported address gets the page of that address.
THEOREM FaultsReachPages == Spec => []FaultReachesPage
  <1>1. \A a \in Supported : a \in Nat /\ InRange(a)
    BY LayoutAssumption DEF Supported, Addresses
  <1>2. FaultReachesPage
    BY <1>1, MapsAgree, MapsInverse DEF FaultReachesPage
  <1>3. QED
    BY <1>2, PTL

\* The notifier finds the entry that the fault has set.
THEOREM NotifiersFindEntries == Spec => []NotifierFindsEntry
  <1>1. \A a \in Supported : a \in Nat /\ InRange(a)
    BY LayoutAssumption DEF Supported, Addresses
  <1>2. NotifierFindsEntry
    BY <1>1, MapsAgree DEF NotifierFindsEntry
  <1>3. QED
    BY <1>2, PTL

-----------------------------------------------------------------------------
(***************************************************************************)
(* Loading the module leaves every CPU as it found it or in Dune's use,    *)
(* for any set of CPUs and any number of attempts.                         *)
(***************************************************************************)

\* The types, and what each phase has reached: the inductive part.
ModTypeOK ==
    /\ pc \in {"out", "check", "areas", "enable", "disable", "register", "in", "exit"}
    /\ owner \in [Cpus -> {"none", "dune", "other"}]
    /\ enabled \subseteq Online /\ area \subseteq Cpus /\ todo \subseteq Online
    /\ lost \subseteq Online
    /\ failed \in Nat /\ bitmap \in Nat /\ loads \in Nat
    /\ perf \in BOOLEAN /\ device \in BOOLEAN

Phases ==
    /\ pc \in {"out", "check"} => enabled = {} /\ area = {}
    /\ pc = "areas" => enabled = {}
    /\ pc = "enable" => /\ area = Cpus /\ enabled \cap todo = {}
                        /\ failed = 0 => Online \ todo = enabled
    /\ pc \in {"register", "in"} => area = Cpus /\ enabled = Online
    /\ pc \in {"disable", "exit"} => area = Cpus /\ enabled \subseteq todo
    /\ pc \notin {"out", "check"} => bitmap > 0
    /\ device => pc = "in"
    /\ enabled \cap lost = {}
    /\ \A c \in Cpus : (owner[c] = "dune") <=> (c \in enabled \cup lost)

ModInv == ModTypeOK /\ Phases

\* The initial states satisfy the invariant.
LEMMA InitModInv == ModuleInit => ModInv
<1> SUFFICES ASSUME ModuleInit PROVE ModInv
    OBVIOUS
<1>1. owner \in [Cpus -> {"none", "other"}] /\ \A c \in Cpus : owner[c] # "dune"
    BY DEF ModuleInit
<1>2. ModTypeOK
    BY <1>1 DEF ModuleInit, ModTypeOK
<1>3. Phases
    BY <1>1 DEF ModuleInit, Phases
<1> QED
    BY <1>2, <1>3 DEF ModInv

\* Every step keeps it: one step of the proof per action of dune_init,
\* vmx_init, vmx_exit and of the other hypervisor.
LEMMA NextModInv == ModInv /\ [ModuleNext]_modvars => ModInv'
<1> SUFFICES ASSUME ModInv, [ModuleNext]_modvars PROVE ModInv'
    OBVIOUS
<1> USE DuneModuleAssumption DEF ModInv, ModTypeOK, Phases, Goto
<1>1. CASE dune_init
    BY <1>1 DEF dune_init
<1>2. CASE CheckFails
    BY <1>2 DEF CheckFails
<1>3. CASE AllocBitmap
    BY <1>3 DEF AllocBitmap
<1>4. CASE AllocAreaFails
    BY <1>4 DEF AllocAreaFails
<1>5. CASE EnableAll
    BY <1>5 DEF EnableAll
<1>6. CASE EnableDone
    BY <1>6 DEF EnableDone
<1>7. CASE EnableFailed
    BY <1>7 DEF EnableFailed
<1>8. CASE InitFailed \/ EnableCallFails
    BY <1>8 DEF InitFailed, EnableCallFails
<1>9. CASE misc_register
    BY <1>9 DEF misc_register
<1>10. CASE RegisterFails
    BY <1>10 DEF RegisterFails
<1>11. CASE vmx_exit
    BY <1>11 DEF vmx_exit
<1>12. CASE dune_exit
    BY <1>12 DEF dune_exit
<1>13. ASSUME NEW c \in Cpus, AllocArea(c) PROVE ModInv'
    BY <1>13 DEF AllocArea
<1>14. ASSUME NEW c \in Online, vmx_enable(c) PROVE ModInv'
    BY <1>14 DEF vmx_enable
<1>15. ASSUME NEW c \in Online, vmx_disable(c) PROVE ModInv'
    BY <1>15 DEF vmx_disable, DisableOwn
<1>16. ASSUME NEW c \in Online, Other(c) PROVE ModInv'
    BY <1>16 DEF Other
<1>17. CASE UNCHANGED modvars
    BY <1>17 DEF modvars
<1> QED
    BY <1>1, <1>2, <1>3, <1>4, <1>5, <1>6, <1>7, <1>8, <1>9, <1>10, <1>11, <1>12,
       <1>13, <1>14, <1>15, <1>16, <1>17 DEF ModuleNext, LoadStep

\* The phases that dune_init and dune_exit go through agree with the CPUs, the
\* areas, the device and msr_bitmap in every reachable state.
THEOREM ModuleInvariance == ModuleSpec => []ModInv
BY InitModInv, NextModInv, PTL DEF ModuleSpec

\* Dune knows the CPUs it turned VMX on for, and keeps their VMXON areas; the
\* others in VMX mode by its doing are those a failed on_each_cpu left behind.
THEOREM CpusAreKnown == ModuleSpec => []OwnCpusKnown
<1>1. ModInv => OwnCpusKnown
    BY DEF ModInv, ModTypeOK, Phases, OwnCpusKnown
<1> QED
    BY <1>1, ModuleInvariance, PTL

\* The device exists only while every online CPU is in VMX mode, and only where
\* no earlier on_each_cpu of vmx_init failed half way.  CPUs that come online
\* later are outside: the code does not support them.
THEOREM DeviceNeedsVmx == ModuleSpec => []DeviceMeansVmx
<1>1. ModInv => DeviceMeansVmx
    BY DEF ModInv, ModTypeOK, Phases, DeviceMeansVmx
<1> QED
    BY <1>1, ModuleInvariance, PTL

\* After a failed or undone initialisation no VMXON area is left, and no CPU is
\* left in VMX mode but those of a failed on_each_cpu, which vmx_init does not
\* recover from.
THEOREM OutLeavesNothing == ModuleSpec => []OutMeansOff
<1>1. ModInv => OutMeansOff
    BY DEF ModInv, ModTypeOK, Phases, OutMeansOff
<1> QED
    BY <1>1, ModuleInvariance, PTL

\* No step of Dune takes a CPU from the other hypervisor.
THEOREM OthersAreKept == ModuleSpec => OthersKept
<1>1. ModInv /\ [ModuleNext]_modvars =>
        [\A c \in Cpus : owner[c] = "other" =>
            owner'[c] = "other" \/ (owner'[c] = "none" /\ UNCHANGED <<pc, todo>>)]_modvars
  <2> SUFFICES ASSUME ModInv, [ModuleNext]_modvars, NEW c \in Cpus, owner[c] = "other"
               PROVE  owner'[c] = "other" \/ (owner'[c] = "none" /\ UNCHANGED <<pc, todo>>)
      OBVIOUS
  <2> USE DuneModuleAssumption DEF ModInv, ModTypeOK, Phases
  <2>1. ASSUME NEW d \in Online, vmx_enable(d) PROVE owner'[c] = "other"
      BY <2>1 DEF vmx_enable
  <2>2. ASSUME NEW d \in Online, vmx_disable(d) PROVE owner'[c] = "other"
      BY <2>2 DEF vmx_disable, DisableOwn
  <2>3. ASSUME NEW d \in Online, Other(d)
        PROVE  owner'[c] = "other" \/ (owner'[c] = "none" /\ UNCHANGED <<pc, todo>>)
      BY <2>3 DEF Other
  <2>4. ASSUME NEW d \in Cpus, AllocArea(d) PROVE owner' = owner
      BY <2>4 DEF AllocArea
  <2>5. dune_init \/ dune_exit \/ CheckFails \/ AllocBitmap \/ AllocAreaFails \/ EnableAll
        \/ EnableDone \/ EnableFailed \/ EnableCallFails \/ InitFailed \/ misc_register \/ RegisterFails \/ vmx_exit
        => owner' = owner
      BY DEF dune_init, dune_exit, CheckFails, AllocBitmap, AllocAreaFails, EnableAll,
             EnableDone, EnableFailed, EnableCallFails, InitFailed, misc_register, RegisterFails, vmx_exit
  <2> QED
      BY <2>1, <2>2, <2>3, <2>4, <2>5 DEF ModuleNext, LoadStep, modvars
<1> QED
    BY <1>1, ModuleInvariance, PTL DEF ModuleSpec, OthersKept

=============================================================================
