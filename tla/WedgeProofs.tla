----------------------------- MODULE WedgeProofs -----------------------------
(***************************************************************************)
(* The rights, the memory and the results of Wedge's sthreads, for any     *)
(* number of sthreads, tags, launches and reads.                           *)
(***************************************************************************)
EXTENDS Wedge, FiniteSetTheorems, WellFoundedInduction, TLAPS

USE WedgeAssumption

-----------------------------------------------------------------------------
(***************************************************************************)
(* The inductive invariant.                                                *)
(***************************************************************************)
Sthread ==
    [state : {"ST_RUNNING", "ST_ZOMBIE", "ST_DEAD"}, key : Keys, grants : Keys,
     ret : Nat, launch : Nat, reads : Nat, page : {"clean", "used"},
     dirty : BOOLEAN, cached : BOOLEAN, missed : BOOLEAN]

Calls == [op : {"none", "create", "join"}, id : Nat, launch : Nat]

Count == Len(sthreads)

TypeInv ==
    /\ sthreads \in Seq(Sthread) /\ Count <= MaxSthreads
    /\ current \in 0..Count /\ cr3 \in 0..Count /\ running \in 0..Count
    /\ frames \in Seq(Nat) /\ \A k \in 1..Len(frames) : frames[k] <= Count
    /\ proc \in {"run", "exit", "abort", "fault"}
    /\ call \in Calls
    /\ ids \in Seq(Nat) /\ \A n \in 1..Len(ids) : ids[n] \in 1..Count

\* Who waits in dune_jump_to_user: the master, outermost, and sthreads in their
\* reads.  ks_current and the page root go together.
StackInv ==
    /\ running = Master <=> frames = <<>>
    /\ \A k \in 1..Len(frames) : frames[k] = Master <=> k = Len(frames)
    /\ cr3 = current
    /\ running = current \/ (running # Master /\ current = Master)

\* What the master does when it runs.
MasterInv ==
    /\ running = Master => call.op # "create"
    /\ call.op = "none" => call = Idle

\* Used memory is marked, or missed; an sthread that has ended has the marked
\* memory restored, and the result of its launch.
Sound(st) ==
    /\ st.grants = st.key
    /\ st.page = "used" => st.dirty \/ st.missed
    /\ st.state # "ST_RUNNING" /\ ~st.missed => st.page = "clean"
    /\ st.state = "ST_ZOMBIE" => st.ret = st.launch

SthreadInv == \A s \in 1..Count : Sound(sthreads[s])

\* Who runs has not ended, and neither has the one whose read it was scheduled
\* from, which is another: that one goes on when the current one has ended.  It
\* has no ks_current then, so that nobody ends before it faults.
LiveInv ==
    /\ running # Master => sthreads[running].state = "ST_RUNNING"
    /\ current # Master /\ frames[1] # Master =>
         frames[1] # current /\ sthreads[frames[1]].state = "ST_RUNNING"

\* Until a launch is joined twice, one to be joined is the last of its sthread,
\* which is not recycled before the join.
Owing == \A n \in owed : /\ sthreads[ids[n]].launch = n
                         /\ sthreads[ids[n]].state # "ST_DEAD"

OwedInv ==
    /\ IsFiniteSet(owed) /\ Cardinality(owed) <= AtOnce /\ owed \subseteq 1..Len(ids)
    /\ call.op = "join" => call.launch \in 1..Len(ids) /\ call.id = ids[call.launch]
    /\ ~rejoined => Owing
    /\ ~rejoined /\ call.op = "join" => call.launch \in owed

WedgeInv ==
    /\ TypeInv /\ StackInv /\ MasterInv /\ SthreadInv /\ LiveInv /\ OwedInv
    /\ JoinsOwnLaunch

-----------------------------------------------------------------------------
(***************************************************************************)
(* Sequences and maxima.                                                   *)
(***************************************************************************)

\* A nonempty set of numbers up to n has a largest one, and Max finds it.
LEMMA MaxIn ==
    ASSUME NEW n \in Nat, NEW S \in SUBSET (1..n), S # {}
    PROVE  Max(S) \in S
<1>. DEFINE T == {n - x : x \in S}
<1>1. T \subseteq Nat /\ T # {}
  <2>1. \A x \in S : n - x \in Nat /\ n - x \in T
    OBVIOUS
  <2>2. PICK x : x \in S
    OBVIOUS
  <2>3. n - x \in T
    BY <2>1, <2>2
  <2>. QED BY <2>1, <2>3
<1>2. PICK t \in T : \A u \in T : ~(<<u, t>> \in OpToRel(<, Nat))
  BY <1>1, NatLessThanWellFounded, WFMin
<1>3. PICK x \in S : t = n - x
  OBVIOUS
<1>4. ASSUME NEW y \in S PROVE x >= y
  <2>1. n - y \in T /\ n - y \in Nat /\ t \in Nat
    BY <1>1
  <2>2. ~(n - y < t)
    BY <1>2, <2>1 DEF OpToRel
  <2>. QED BY <1>3, <2>2
<1>. QED BY <1>4 DEF Max

\* Changing one sthread.
LEMMA UpdateAt ==
    ASSUME NEW list \in Seq(Sthread), NEW s \in 1..Len(list), NEW e \in Sthread,
           sthreads' = [list EXCEPT ![s] = e]
    PROVE  /\ sthreads' \in Seq(Sthread) /\ Count' = Len(list)
           /\ sthreads'[s] = e
           /\ \A k \in 1..Len(list) : k # s => sthreads'[k] = list[k]
BY DEF Count

\* dune_jump_to_user adds a frame.
LEMMA PushFrame ==
    ASSUME NEW f \in Seq(Nat), NEW x \in Nat, NEW g, g = <<x>> \o f
    PROVE  /\ g \in Seq(Nat) /\ Len(f) \in Nat /\ Len(g) = Len(f) + 1 /\ g # <<>>
           /\ g[1] = x /\ \A k \in 2..Len(g) : g[k] = f[k - 1]
<1>1. <<x>> \in Seq(Nat) /\ Len(<<x>>) = 1 /\ <<x>>[1] = x
  OBVIOUS
<1>2. g \in Seq(Nat) /\ Len(f) \in Nat /\ Len(g) = Len(f) + 1
  BY <1>1
<1>3. g[1] = x /\ \A k \in 2..Len(g) : g[k] = f[k - 1]
  BY <1>1, <1>2
<1>. QED BY <1>2, <1>3

\* dune_ret_from_user takes one away.
LEMMA PopFrame ==
    ASSUME NEW f \in Seq(Nat), f # <<>>
    PROVE  /\ Head(f) = f[1] /\ Head(f) \in Nat /\ Len(f) \in Nat /\ Len(f) > 0
           /\ Tail(f) \in Seq(Nat) /\ Len(Tail(f)) = Len(f) - 1
           /\ \A k \in 1..Len(Tail(f)) : Tail(f)[k] = f[k + 1]
           /\ Tail(f) = <<>> <=> Len(f) = 1
<1>1. /\ Head(f) = f[1] /\ Head(f) \in Nat /\ Len(f) \in Nat /\ Len(f) > 0
      /\ Tail(f) \in Seq(Nat) /\ Len(Tail(f)) = Len(f) - 1
  OBVIOUS
<1>2. \A k \in 1..Len(Tail(f)) : Tail(f)[k] = f[k + 1]
  BY <1>1
<1>3. \A t \in Seq(Nat) : t = <<>> <=> Len(t) = 0
  OBVIOUS
<1>4. Tail(f) = <<>> <=> Len(f) = 1
  BY <1>1, <1>3
<1>. QED BY <1>1, <1>2, <1>4

-----------------------------------------------------------------------------
(***************************************************************************)
(* Switches.                                                               *)
(***************************************************************************)

\* Into an sthread, from whoever runs.
LEMMA JumpFacts ==
    ASSUME TypeInv, StackInv, NEW s \in 1..Count', Count' \in Nat, Count <= Count',
           Jump(s, running)
    PROVE  /\ current' = s /\ cr3' = s /\ running' = s /\ s # Master
           /\ frames' \in Seq(Nat) /\ \A k \in 1..Len(frames)' : frames'[k] <= Count'
           /\ frames'[1] = running /\ StackInv'
<1>1. /\ current' = s /\ cr3' = s /\ running' = s /\ s # 0
      /\ frames' = <<running>> \o frames
  BY DEF Jump
<1>2. /\ frames \in Seq(Nat) /\ running \in Nat /\ running <= Count /\ Count \in Nat
      /\ \A k \in 1..Len(frames) : frames[k] \in Nat /\ frames[k] <= Count
  BY DEF TypeInv, Count
<1>3. /\ frames' \in Seq(Nat) /\ Len(frames) \in Nat /\ Len(frames') = Len(frames) + 1
      /\ frames' # <<>> /\ frames'[1] = running
      /\ \A k \in 2..Len(frames') : frames'[k] = frames[k - 1]
  BY <1>1, <1>2, PushFrame
<1>4. \A k \in 1..Len(frames') : k = 1 \/ (k \in 2..Len(frames') /\ k - 1 \in 1..Len(frames))
  BY <1>3
<1>5. \A k \in 1..Len(frames') : frames'[k] <= Count'
  <2> SUFFICES ASSUME NEW k \in 1..Len(frames') PROVE frames'[k] <= Count'
    OBVIOUS
  <2>1. frames'[k] \in Nat /\ frames'[k] <= Count
    BY <1>2, <1>3, <1>4
  <2>. QED BY <1>2, <2>1
<1>6. \A k \in 1..Len(frames') : frames'[k] = 0 <=> k = Len(frames')
  <2> SUFFICES ASSUME NEW k \in 1..Len(frames') PROVE frames'[k] = 0 <=> k = Len(frames')
    OBVIOUS
  <2>1. CASE k = 1
    <3>1. running = 0 <=> Len(frames) = 0
      BY <1>2 DEF StackInv, Master
    <3>. QED BY <1>3, <2>1, <3>1
  <2>2. CASE k # 1
    <3>1. k - 1 \in 1..Len(frames) /\ frames'[k] = frames[k - 1]
      BY <1>3, <1>4, <2>2
    <3>2. frames[k - 1] = 0 <=> k - 1 = Len(frames)
      BY <3>1 DEF StackInv, Master
    <3>. QED BY <1>3, <3>1, <3>2
  <2>. QED BY <2>1, <2>2
<1>7. StackInv'
  BY <1>1, <1>3, <1>6 DEF StackInv, Master
<1>. QED BY <1>1, <1>3, <1>5, <1>7 DEF Master

\* Back to whoever called.
LEMMA ReturnFacts ==
    ASSUME TypeInv, StackInv, MasterInv, running # Master, Count' = Count, Return
    PROVE  /\ current' = Master /\ cr3' = Master /\ running' \in 0..Count'
           /\ frames' \in Seq(Nat) /\ \A k \in 1..Len(frames)' : frames'[k] <= Count'
           /\ call' \in Calls /\ (call' = call \/ call' = Idle)
           /\ running' = frames[1] /\ StackInv' /\ MasterInv'
<1>1. /\ frames # <<>> /\ frames \in Seq(Nat) /\ Count \in Nat
      /\ \A k \in 1..Len(frames) : frames[k] \in Nat /\ frames[k] <= Count
      /\ \A k \in 1..Len(frames) : frames[k] = 0 <=> k = Len(frames)
  BY DEF TypeInv, StackInv, Count, Master
<1>2. /\ Head(frames) = frames[1] /\ Len(frames) \in Nat /\ Len(frames) > 0
      /\ Tail(frames) \in Seq(Nat) /\ Len(Tail(frames)) = Len(frames) - 1
      /\ \A k \in 1..Len(Tail(frames)) : Tail(frames)[k] = frames[k + 1]
      /\ Tail(frames) = <<>> <=> Len(frames) = 1
  BY <1>1, PopFrame
<1>3. /\ current' = 0 /\ cr3' = 0 /\ running' = frames[1] /\ frames' = Tail(frames)
      /\ call' = IF frames[1] = 0 /\ call.op = "create" THEN Idle ELSE call
  BY <1>2 DEF Return, Master
<1>4. running' \in 0..Count' /\ (running' = 0 <=> Len(frames) = 1)
  <2>1. 1 \in 1..Len(frames)
    BY <1>2
  <2>2. /\ frames[1] \in Nat /\ frames[1] <= Count
        /\ frames[1] = 0 <=> 1 = Len(frames)
    BY <1>1, <2>1
  <2>. QED BY <1>1, <1>3, <2>2
<1>5. \A k \in 1..Len(frames') : /\ frames'[k] <= Count'
                                 /\ frames'[k] = 0 <=> k = Len(frames')
  <2> SUFFICES ASSUME NEW k \in 1..Len(frames')
               PROVE  frames'[k] <= Count' /\ (frames'[k] = 0 <=> k = Len(frames'))
    OBVIOUS
  <2>1. k + 1 \in 1..Len(frames) /\ frames'[k] = frames[k + 1]
    BY <1>2, <1>3
  <2>2. k + 1 = Len(frames) <=> k = Len(frames')
    BY <1>2, <1>3
  <2>. QED BY <1>1, <2>1, <2>2
<1>6. StackInv'
  BY <1>2, <1>3, <1>4, <1>5 DEF StackInv, Master
<1>7. call' \in Calls /\ MasterInv'
  BY <1>3 DEF TypeInv, MasterInv, Calls, Idle, Master
<1>. QED BY <1>2, <1>3, <1>4, <1>5, <1>6, <1>7 DEF Master
-----------------------------------------------------------------------------
(***************************************************************************)
(* The list of sthreads.                                                   *)
(***************************************************************************)

\* A list that has the same launches in the same states.
Same(list) ==
    /\ list \in Seq(Sthread) /\ Len(list) = Count
    /\ \A k \in 1..Count : /\ Sound(list[k]) /\ list[k].launch = sthreads[k].launch
                           /\ list[k].state = sthreads[k].state

\* One more sthread of such a list changes.
LEMMA SameAfter ==
    ASSUME TypeInv, NEW list, Same(list), NEW s \in 1..Count, NEW e \in Sthread, Sound(e),
           e.launch = list[s].launch, e.state = list[s].state,
           NEW new, new = [list EXCEPT ![s] = e]
    PROVE  Same(new)
<1>1. /\ list \in Seq(Sthread) /\ Len(list) = Count /\ s \in 1..Len(list)
  BY DEF Same
<1>2. /\ new \in Seq(Sthread) /\ Len(new) = Count /\ new[s] = e
      /\ \A k \in 1..Count : k # s => new[k] = list[k]
  BY <1>1
<1>. QED BY <1>2 DEF Same

\* What does not depend on anything else that may change.
LEMMA SameKeeps ==
    ASSUME TypeInv, OwedInv, Same(sthreads'), UNCHANGED <<ids, owed, rejoined>>,
           call' = call \/ call' = Idle
    PROVE  /\ sthreads' \in Seq(Sthread) /\ Count' = Count /\ Count \in Nat
           /\ SthreadInv' /\ OwedInv'
           /\ \A k \in 1..Count : sthreads'[k].state = sthreads[k].state
<1>1. /\ sthreads' \in Seq(Sthread) /\ Count' = Count /\ Count \in Nat
      /\ \A k \in 1..Count : /\ Sound(sthreads'[k])
                             /\ sthreads'[k].launch = sthreads[k].launch
                             /\ sthreads'[k].state = sthreads[k].state
  BY DEF Same, Count, TypeInv
<1>2. SthreadInv'
  BY <1>1 DEF SthreadInv
<1>3. Owing => Owing'
  <2> SUFFICES ASSUME Owing, NEW n \in owed
               PROVE  sthreads'[ids[n]].launch = n /\ sthreads'[ids[n]].state # "ST_DEAD"
    BY DEF Owing
  <2>1. ids[n] \in 1..Count
    BY DEF OwedInv, TypeInv
  <2>. QED BY <1>1, <2>1 DEF Owing
<1>4. OwedInv'
  BY <1>3 DEF OwedInv, Idle
<1>. QED BY <1>1, <1>2, <1>4

-----------------------------------------------------------------------------
(***************************************************************************)
(* The master's steps.                                                     *)
(***************************************************************************)

\* launch_sthread of one that is new or has been joined: nobody is owed a
\* launch of it.
LEMMA LaunchKeeps ==
    ASSUME WedgeInv, running = Master, Cardinality(owed) < AtOnce,
           NEW list \in Seq(Sthread), NEW s \in 1..Len(list),
           Count <= Len(list), Len(list) <= MaxSthreads,
           \A k \in 1..Count : k # s => list[k] = sthreads[k],
           \A k \in 1..Len(list) : Sound(list[k]),
           ~rejoined => \A n \in owed : ids[n] # s,
           launch_sthread(list, s)
    PROVE  WedgeInv'
<1>. TypeInv /\ StackInv /\ MasterInv /\ SthreadInv /\ LiveInv /\ OwedInv /\ JoinsOwnLaunch
  BY DEF WedgeInv
<1>n. PICK n : n = Len(ids) + 1
  OBVIOUS
<1>1. ids \in Seq(Nat) /\ Len(ids) \in Nat /\ n \in Nat /\ Count \in Nat /\ Len(list) \in Nat
  BY <1>n DEF TypeInv, Count
<1>2. list[s] \in Sthread
  OBVIOUS
<1>e. PICK e : e = [list[s] EXCEPT !.state = "ST_RUNNING", !.launch = n, !.reads = 0]
  OBVIOUS
<1>3. /\ e \in Sthread /\ e.state = "ST_RUNNING" /\ e.launch = n
      /\ Sound(e)
  <2>1. PICK st : st = list[s]
    OBVIOUS
  <2>2. e = [st EXCEPT !.state = "ST_RUNNING", !.launch = n, !.reads = 0]
    BY <1>e, <2>1
  <2>3. st \in Sthread /\ n \in Nat /\ Sound(st)
    BY <1>1, <1>2, <2>1
  <2>4. e \in Sthread
    BY <2>2, <2>3 DEF Sthread
  <2>5. /\ e.state = "ST_RUNNING" /\ e.launch = n
        /\ e.grants = st.grants /\ e.key = st.key /\ e.page = st.page
        /\ e.dirty = st.dirty /\ e.missed = st.missed
    BY <2>2, <2>3 DEF Sthread
  <2>6. Sound(e)
    BY <2>3, <2>5 DEF Sound
  <2>. QED BY <2>4, <2>5, <2>6
<1>4. sthreads' = [list EXCEPT ![s] = e]
  <2>1. sthreads' = [list EXCEPT ![s].state = "ST_RUNNING",
                                 ![s].launch = n, ![s].reads = 0]
    BY <1>n DEF launch_sthread
  <2>. QED BY <1>2, <1>e, <2>1
<1>5. /\ Jump(s, running) /\ call' = [op |-> "create", id |-> s, launch |-> n]
      /\ ids' = Append(ids, s) /\ owed' = owed \cup {n}
      /\ proc' = proc /\ rejoined' = rejoined /\ joined' = joined
  BY <1>n DEF launch_sthread
<1>6. /\ sthreads' \in Seq(Sthread) /\ Count' = Len(list)
      /\ sthreads'[s] = e
      /\ \A k \in 1..Len(list) : k # s => sthreads'[k] = list[k]
  BY <1>3, <1>4, UpdateAt
<1>7. /\ current' = s /\ cr3' = s /\ running' = s /\ s # Master
      /\ frames' \in Seq(Nat) /\ \A k \in 1..Len(frames)' : frames'[k] <= Count'
      /\ frames'[1] = running /\ StackInv'
  BY <1>1, <1>5, <1>6, JumpFacts
<1>i. /\ ids' \in Seq(Nat) /\ Len(ids') = n /\ ids'[n] = s
      /\ \A k \in 1..Len(ids) : ids'[k] = ids[k]
  <2>1. s \in Nat
    BY <1>1
  <2>. QED BY <1>1, <1>5, <1>n, <2>1
<1>8. TypeInv'
  <2>1. s \in Nat /\ s \in 0..Count'
    BY <1>1, <1>6
  <2>2. ASSUME NEW k \in 1..Len(ids') PROVE ids'[k] \in 1..Count'
    <3>1. CASE k = n
      BY <1>6, <1>i, <3>1
    <3>2. CASE k # n
      <4>1. k \in 1..Len(ids)
        BY <1>1, <1>n, <1>i, <3>2
      <4>2. ids[k] \in 1..Count
        BY <4>1 DEF TypeInv
      <4>. QED BY <1>1, <1>6, <1>i, <4>1, <4>2
    <3>. QED BY <3>1, <3>2
  <2>3. call' \in Calls
    BY <1>1, <1>5, <2>1 DEF Calls
  <2>. QED BY <1>1, <1>5, <1>6, <1>7, <1>i, <2>1, <2>2, <2>3 DEF TypeInv
<1>9. MasterInv'
  BY <1>5, <1>7 DEF MasterInv
<1>10. SthreadInv' /\ LiveInv'
  BY <1>3, <1>6, <1>7 DEF SthreadInv, LiveInv
<1>11. OwedInv'
  <2>1. IsFiniteSet(owed') /\ Cardinality(owed') <= AtOnce
    <3>1. /\ IsFiniteSet(owed') /\ Cardinality(owed) \in Nat
          /\ Cardinality(owed') = Cardinality(owed)
             \/ Cardinality(owed') = Cardinality(owed) + 1
      BY <1>5, FS_AddElement, FS_CardinalityType DEF OwedInv
    <3>. QED BY <3>1
  <2>2. owed' \subseteq 1..Len(ids')
    <3>1. \A x \in owed : x \in 1..Len(ids)
      BY DEF OwedInv
    <3>2. Len(ids) \in Nat /\ Len(ids') = Len(ids) + 1 /\ owed' = owed \cup {Len(ids) + 1}
      BY <1>1, <1>n, <1>5, <1>i
    <3>. QED BY <3>1, <3>2
  <2>3. ASSUME ~rejoined PROVE Owing'
    <3> SUFFICES ASSUME NEW h \in owed'
                 PROVE  sthreads'[ids'[h]].launch = h /\ sthreads'[ids'[h]].state # "ST_DEAD"
      BY DEF Owing
    <3>1. CASE h = n
      BY <1>3, <1>6, <1>i, <3>1
    <3>2. CASE h # n
      <4>1. h \in owed /\ h \in 1..Len(ids) /\ ids[h] \in 1..Count /\ ids[h] # s
        BY <1>5, <2>3, <3>2 DEF OwedInv, TypeInv
      <4>2. ids'[h] = ids[h] /\ sthreads'[ids[h]] = sthreads[ids[h]]
        <5>1. ids[h] \in 1..Len(list) /\ list[ids[h]] = sthreads[ids[h]]
          BY <1>1, <4>1
        <5>. QED BY <1>6, <1>i, <4>1, <5>1
      <4>. QED BY <2>3, <4>1, <4>2 DEF OwedInv, Owing
    <3>. QED BY <3>1, <3>2
  <2>. QED BY <1>5, <2>1, <2>2, <2>3 DEF OwedInv
<1>12. JoinsOwnLaunch'
  BY <1>5 DEF JoinsOwnLaunch
<1>. QED BY <1>7, <1>8, <1>9, <1>10, <1>11, <1>12 DEF WedgeInv

\* sthread_create: a recycled sthread has been joined and keeps its grants.
LEMMA CreateKeeps ==
    ASSUME WedgeInv, NEW key \in Keys, sthread_create(key)
    PROVE  WedgeInv'
<1>. TypeInv /\ StackInv /\ MasterInv /\ SthreadInv /\ LiveInv /\ OwedInv /\ JoinsOwnLaunch
  BY DEF WedgeInv
<1>1. /\ sthreads \in Seq(Sthread) /\ Count \in Nat /\ Count <= MaxSthreads
      /\ Count = Len(sthreads) /\ DOMAIN sthreads = 1..Count
      /\ running = Master /\ Cardinality(owed) < AtOnce
  BY DEF TypeInv, Count, sthread_create
<1>2. CASE Recyclable(key) # {}
  <2>1. PICK s : s = Max(Recyclable(key))
    OBVIOUS
  <2>2. s \in 1..Count /\ sthreads[s].state = "ST_DEAD" /\ sthreads[s].key = key
    <3>1. Recyclable(key) \in SUBSET (1..Count)
      BY <1>1 DEF Recyclable
    <3>2. s \in Recyclable(key)
      BY <1>1, <1>2, <2>1, <3>1, MaxIn
    <3>. QED BY <1>1, <3>2 DEF Recyclable
  <2>3. PICK list : list = [sthreads EXCEPT ![s].key = key]
    OBVIOUS
  <2>4. /\ list = sthreads
    <3>1. sthreads[s] \in Sthread
      BY <1>1, <2>2
    <3>2. [sthreads[s] EXCEPT !.key = key] = sthreads[s]
      BY <2>2, <3>1 DEF Sthread
    <3>3. list = [sthreads EXCEPT ![s] = sthreads[s]]
      BY <1>1, <2>2, <2>3, <3>2
    <3>. QED BY <1>1, <2>2, <3>3
  <2>5. launch_sthread(list, s)
    BY <1>2, <2>1, <2>3 DEF sthread_create
  <2>6. ~rejoined => \A n \in owed : ids[n] # s
    BY <2>2 DEF OwedInv, Owing
  <2>7. \A k \in 1..Len(list) : Sound(list[k])
    BY <1>1, <2>4 DEF SthreadInv
  <2>. QED BY <1>1, <2>2, <2>4, <2>5, <2>6, <2>7, LaunchKeeps
<1>3. CASE Recyclable(key) = {} /\ kmalloc
  <2>1. PICK list : list = Append(sthreads, create_new_sthread(key))
    OBVIOUS
  <2>2. create_new_sthread(key) \in Sthread /\ Sound(create_new_sthread(key))
    BY DEF create_new_sthread, Sthread, Sound
  <2>3. /\ list \in Seq(Sthread) /\ Len(list) = Count + 1
        /\ \A k \in 1..Count : list[k] = sthreads[k]
        /\ list[Count + 1] = create_new_sthread(key)
    BY <1>1, <2>1, <2>2
  <2>4. launch_sthread(list, Count + 1)
    BY <1>1, <1>3, <2>1 DEF sthread_create
  <2>5. /\ Count + 1 \in 1..Len(list) /\ Len(list) <= MaxSthreads /\ Count <= Len(list)
    BY <1>1, <1>3, <2>3 DEF kmalloc
  <2>6. \A k \in 1..Len(list) : Sound(list[k])
    <3> SUFFICES ASSUME NEW k \in 1..Len(list) PROVE Sound(list[k])
      OBVIOUS
    <3>1. CASE k = Count + 1
      BY <2>2, <2>3, <3>1
    <3>2. CASE k # Count + 1
      <4>1. k \in 1..Count
        BY <1>1, <2>3, <3>2
      <4>. QED BY <2>3, <4>1 DEF SthreadInv
    <3>. QED BY <3>1, <3>2
  <2>7. \A n \in owed : ids[n] # Count + 1
    <3>1. \A n \in owed : ids[n] \in 1..Count
      BY DEF OwedInv, TypeInv
    <3>. QED BY <1>1, <3>1
  <2>. QED BY <1>1, <2>3, <2>4, <2>5, <2>6, <2>7, LaunchKeeps
<1>4. CASE Recyclable(key) = {} /\ ~kmalloc
  <2>1. /\ proc' = "exit"
        /\ UNCHANGED <<sthreads, current, cr3, running, frames, call, ghosts>>
    BY <1>4 DEF sthread_create
  <2>. QED BY <2>1 DEF WedgeInv, TypeInv, StackInv, MasterInv, SthreadInv, LiveInv,
       OwedInv, Owing, JoinsOwnLaunch, Count, ghosts
<1>. QED BY <1>2, <1>3, <1>4

-----------------------------------------------------------------------------
(***************************************************************************)
(* The sthreads' steps.                                                    *)
(***************************************************************************)

\* A step that changes no more than what one sthread has written.
LEMMA QuietKeeps ==
    ASSUME WedgeInv, Same(sthreads'),
           UNCHANGED <<current, cr3, running, frames, call, proc, ids, owed, rejoined, joined>>
    PROVE  WedgeInv'
<1>. TypeInv /\ StackInv /\ MasterInv /\ SthreadInv /\ LiveInv /\ OwedInv /\ JoinsOwnLaunch
  BY DEF WedgeInv
<1>1. /\ sthreads' \in Seq(Sthread) /\ Count' = Count /\ Count \in Nat
      /\ SthreadInv' /\ OwedInv'
      /\ \A k \in 1..Count : sthreads'[k].state = sthreads[k].state
  BY SameKeeps
<1>2. TypeInv'
  BY <1>1 DEF TypeInv
<1>3. StackInv' /\ MasterInv' /\ JoinsOwnLaunch'
  BY DEF StackInv, MasterInv, JoinsOwnLaunch
<1>4. LiveInv'
  <2>1. running # Master => running \in 1..Count
    BY <1>1 DEF TypeInv, Master
  <2>2. ASSUME current # Master, frames[1] # Master PROVE frames[1] \in 1..Count
    <3>1. running # Master /\ frames # <<>> /\ frames \in Seq(Nat)
      BY <2>2 DEF StackInv, TypeInv
    <3>2. 1 \in 1..Len(frames) /\ frames[1] \in Nat
      BY <3>1
    <3>. QED BY <1>1, <2>2, <3>2 DEF TypeInv, Master
  <2>. QED BY <1>1, <2>1, <2>2 DEF LiveInv
<1>. QED BY <1>1, <1>2, <1>3, <1>4 DEF WedgeInv

\* The list as it is.
LEMMA SameNow == ASSUME WedgeInv PROVE Same(sthreads)
BY DEF WedgeInv, TypeInv, SthreadInv, Same, Count

\* A write marks its page, or the processor misses it.
LEMMA WriteKeeps ==
    ASSUME WedgeInv, NEW s \in Ids, Write(s)
    PROVE  WedgeInv'
<1>. TypeInv /\ StackInv /\ MasterInv /\ SthreadInv /\ LiveInv /\ OwedInv /\ JoinsOwnLaunch
  BY DEF WedgeInv
<1>1. PICK caches \in BOOLEAN :
        sthreads' = [sthreads EXCEPT ![s].page = "used",
                        ![s].dirty = @ \/ ~sthreads[s].cached,
                        ![s].missed = @ \/ (sthreads[s].cached /\ ~sthreads[s].dirty),
                        ![s].cached = @ \/ caches]
  BY DEF Write
<1>2. /\ UNCHANGED <<current, cr3, running, frames, call, proc, ids, owed, rejoined, joined>>
      /\ s \in 1..Count /\ running = s /\ cr3 = s /\ s # Master
      /\ sthreads \in Seq(Sthread) /\ DOMAIN sthreads = 1..Count
  BY DEF Write, Executing, Ids, TypeInv, Count, ghosts, Master
<1>3. PICK st, d, m, c : /\ st = sthreads[s] /\ d = (st.dirty \/ ~st.cached)
                         /\ m = (st.missed \/ (st.cached /\ ~st.dirty))
                         /\ c = (st.cached \/ caches)
  OBVIOUS
<1>4. PICK e : e = [st EXCEPT !.page = "used", !.dirty = d, !.missed = m, !.cached = c]
  OBVIOUS
<1>5. st \in Sthread /\ st.state = "ST_RUNNING" /\ st.grants = st.key
  <2>1. sthreads[s] \in Sthread
    BY <1>2 DEF Count
  <2>2. Sound(sthreads[s]) /\ sthreads[s].state = "ST_RUNNING"
    BY <1>2 DEF SthreadInv, LiveInv
  <2>. QED BY <1>3, <2>1, <2>2 DEF Sound
<1>6. d \in BOOLEAN /\ m \in BOOLEAN /\ c \in BOOLEAN /\ (d \/ m)
  <2>1. st.dirty \in BOOLEAN /\ st.missed \in BOOLEAN /\ st.cached \in BOOLEAN
    BY <1>5 DEF Sthread
  <2>. QED BY <1>3, <2>1
<1>7. /\ e \in Sthread /\ e.grants = st.grants /\ e.key = st.key /\ e.page = "used"
      /\ e.dirty = d /\ e.missed = m /\ e.state = st.state /\ e.launch = st.launch
  BY <1>4, <1>5, <1>6 DEF Sthread
<1>8. Sound(e)
  BY <1>5, <1>6, <1>7 DEF Sound
<1>9. sthreads' = [sthreads EXCEPT ![s] = e]
  BY <1>1, <1>2, <1>3, <1>4, <1>5
<1>10. Same(sthreads')
  BY <1>2, <1>3, <1>7, <1>8, <1>9, SameNow, SameAfter
<1>. QED BY <1>2, <1>10, QuietKeeps

\* The processor drops its entry: nothing else changes.
LEMMA EvictKeeps ==
    ASSUME WedgeInv, NEW s \in Ids, Evict(s)
    PROVE  WedgeInv'
<1>. TypeInv /\ SthreadInv
  BY DEF WedgeInv
<1>1. /\ UNCHANGED <<current, cr3, running, frames, call, proc, ids, owed, rejoined, joined>>
      /\ sthreads' = [sthreads EXCEPT ![s].cached = FALSE]
      /\ s \in 1..Count /\ sthreads \in Seq(Sthread) /\ DOMAIN sthreads = 1..Count
  BY DEF Evict, Ids, TypeInv, Count, ghosts
<1>2. PICK st : st = sthreads[s]
  OBVIOUS
<1>3. PICK e : e = [st EXCEPT !.cached = FALSE]
  OBVIOUS
<1>4. st \in Sthread /\ Sound(st)
  <2>1. sthreads[s] \in Sthread
    BY <1>1 DEF Count
  <2>. QED BY <1>1, <1>2, <2>1 DEF SthreadInv
<1>5. /\ e \in Sthread /\ e.grants = st.grants /\ e.key = st.key /\ e.page = st.page
      /\ e.dirty = st.dirty /\ e.missed = st.missed /\ e.state = st.state
      /\ e.launch = st.launch /\ e.ret = st.ret
  BY <1>3, <1>4 DEF Sthread
<1>6. Sound(e)
  BY <1>4, <1>5 DEF Sound
<1>7. sthreads' = [sthreads EXCEPT ![s] = e]
  BY <1>1, <1>2, <1>3
<1>8. Same(sthreads')
  BY <1>1, <1>2, <1>5, <1>6, <1>7, SameNow, SameAfter
<1>. QED BY <1>1, <1>8, QuietKeeps

\* What a saved read leaves: a page the host has written is marked, or missed.
LEMMA SavedReads ==
    ASSUME NEW st \in Sthread, Sound(st), st.state = "ST_RUNNING", NEW e \in SavedRead(st)
    PROVE  e \in Sthread /\ Sound(e) /\ e.launch = st.launch /\ e.state = st.state
<1>1. CASE e = st
  BY <1>1
<1>2. CASE e # st
  <2>1. PICK m : m = (st.missed \/ ~st.dirty)
    OBVIOUS
  <2>2. e = [st EXCEPT !.page = "used", !.missed = m]
    BY <1>2, <2>1 DEF SavedRead
  <2>3. st.dirty \in BOOLEAN /\ st.missed \in BOOLEAN /\ st.grants = st.key
    BY DEF Sthread, Sound
  <2>4. m \in BOOLEAN /\ (st.dirty \/ m)
    BY <2>1, <2>3
  <2>5. /\ e \in Sthread /\ e.grants = st.grants /\ e.key = st.key /\ e.page = "used"
        /\ e.dirty = st.dirty /\ e.missed = m /\ e.state = st.state /\ e.launch = st.launch
    BY <2>2, <2>4 DEF Sthread
  <2>6. Sound(e)
    BY <2>3, <2>4, <2>5 DEF Sound
  <2>. QED BY <2>5, <2>6
<1>. QED BY <1>1, <1>2

\* schedule: the sthread that goes on has not ended and is not the current one.
LEMMA SwitchKeeps ==
    ASSUME WedgeInv, NEW list, Same(list), Schedulable # {}, schedule(list, running),
           running = current,
           UNCHANGED <<call, proc, ids, owed, rejoined, joined>>
    PROVE  WedgeInv'
<1>. TypeInv /\ StackInv /\ MasterInv /\ SthreadInv /\ LiveInv /\ OwedInv /\ JoinsOwnLaunch
  BY DEF WedgeInv
<1>1. Count \in Nat /\ DOMAIN sthreads = 1..Count /\ sthreads \in Seq(Sthread)
  BY DEF TypeInv, Count
<1>2. PICK x : x = Max(Schedulable)
  OBVIOUS
<1>3. x \in 1..Count /\ sthreads[x].state = "ST_RUNNING" /\ x # current
  <2>1. Schedulable \in SUBSET (1..Count)
    BY <1>1 DEF Schedulable
  <2>2. x \in Schedulable
    BY <1>1, <1>2, <2>1, MaxIn
  <2>. QED BY <1>1, <2>2 DEF Schedulable
<1>4. PICK e \in SavedRead(list[x]) : sthreads' = [list EXCEPT ![x] = e]
  BY <1>2 DEF schedule
<1>5. Jump(x, running)
  BY <1>2 DEF schedule
<1>6. list[x] \in Sthread /\ Sound(list[x]) /\ list[x].state = "ST_RUNNING"
  BY <1>3 DEF Same
<1>7. e \in Sthread /\ Sound(e) /\ e.launch = list[x].launch /\ e.state = list[x].state
  BY <1>4, <1>6, SavedReads
<1>8. Same(sthreads')
  BY <1>3, <1>4, <1>7, SameAfter
<1>9. /\ sthreads' \in Seq(Sthread) /\ Count' = Count
      /\ SthreadInv' /\ OwedInv'
      /\ \A k \in 1..Count : sthreads'[k].state = sthreads[k].state
  BY <1>8, SameKeeps
<1>10. /\ current' = x /\ cr3' = x /\ running' = x /\ x # Master
       /\ frames' \in Seq(Nat) /\ \A k \in 1..Len(frames)' : frames'[k] <= Count'
       /\ frames'[1] = running /\ StackInv'
  BY <1>1, <1>3, <1>5, <1>9, JumpFacts
<1>11. TypeInv'
  <2>1. call' \in Calls
    BY DEF TypeInv
  <2>. QED BY <1>1, <1>3, <1>9, <1>10, <2>1 DEF TypeInv
<1>12. MasterInv' /\ JoinsOwnLaunch'
  BY <1>10 DEF MasterInv, JoinsOwnLaunch
<1>13. LiveInv'
  <2>1. running # Master => running \in 1..Count
    <3>1. running \in 0..Count
      BY DEF TypeInv
    <3>. QED BY <1>1, <3>1 DEF Master
  <2>. QED BY <1>3, <1>9, <1>10, <2>1 DEF LiveInv
<1>. QED BY <1>9, <1>10, <1>11, <1>12, <1>13 DEF WedgeInv

\* dune_ret_from_user: the one that goes on has not ended, or is the master.
LEMMA BackKeeps ==
    ASSUME WedgeInv, running # Master, current = running, Return,
           sthreads' \in Seq(Sthread), Count' = Count,
           SthreadInv', OwedInv',
           \A k \in 1..Count : k # current => sthreads'[k].state = sthreads[k].state,
           UNCHANGED <<proc, ids, owed, rejoined, joined>>
    PROVE  WedgeInv'
<1>. TypeInv /\ StackInv /\ MasterInv /\ LiveInv /\ JoinsOwnLaunch
  BY DEF WedgeInv
<1>1. /\ current' = Master /\ cr3' = Master /\ running' \in 0..Count'
      /\ frames' \in Seq(Nat) /\ \A k \in 1..Len(frames)' : frames'[k] <= Count'
      /\ call' \in Calls /\ (call' = call \/ call' = Idle)
      /\ running' = frames[1] /\ StackInv' /\ MasterInv'
  BY ReturnFacts
<1>2. TypeInv'
  <2>1. Count \in Nat
    BY DEF TypeInv, Count
  <2>. QED BY <1>1, <2>1 DEF TypeInv, Master
<1>3. LiveInv'
  <2>1. running' # Master => running' \in 1..Count
    BY <1>1 DEF TypeInv, Master, Count
  <2>. QED BY <1>1, <2>1 DEF LiveInv
<1>4. JoinsOwnLaunch'
  BY DEF JoinsOwnLaunch
<1>. QED BY <1>1, <1>2, <1>3, <1>4 DEF WedgeInv

\* A read: the switch to another sthread that has not ended, or back.
LEMMA ReadKeeps ==
    ASSUME WedgeInv, NEW s \in Ids, Read(s)
    PROVE  WedgeInv'
<1>. TypeInv /\ StackInv /\ MasterInv /\ SthreadInv /\ LiveInv /\ OwedInv /\ JoinsOwnLaunch
  BY DEF WedgeInv
<1>1. /\ UNCHANGED <<proc, ids, owed, rejoined, joined>>
      /\ s \in 1..Count /\ sthreads \in Seq(Sthread) /\ DOMAIN sthreads = 1..Count
      /\ current # Master /\ running = s /\ running # Master
  BY DEF Read, Executing, Ids, TypeInv, Count, ghosts, Master
<1>2. running = current
  BY <1>1 DEF StackInv
<1>3. PICK st, list : st = sthreads[s] /\ list = [sthreads EXCEPT ![s].reads = @ + 1]
  OBVIOUS
<1>4. PICK e : e = [st EXCEPT !.reads = st.reads + 1]
  OBVIOUS
<1>5. st \in Sthread /\ Sound(st)
  <2>1. sthreads[s] \in Sthread
    BY <1>1 DEF Count
  <2>. QED BY <1>1, <1>3, <2>1 DEF SthreadInv
<1>6. /\ e \in Sthread /\ e.grants = st.grants /\ e.key = st.key /\ e.page = st.page
      /\ e.dirty = st.dirty /\ e.missed = st.missed /\ e.state = st.state
      /\ e.launch = st.launch /\ e.ret = st.ret
  BY <1>4, <1>5 DEF Sthread
<1>7. Sound(e)
  BY <1>5, <1>6 DEF Sound
<1>8. list = [sthreads EXCEPT ![s] = e]
  BY <1>1, <1>3, <1>4
<1>9. Same(list)
  BY <1>1, <1>3, <1>6, <1>7, <1>8, SameNow, SameAfter
<1>10. CASE Schedulable # {}
  <2>1. schedule(list, running) /\ call' = call
    BY <1>1, <1>3, <1>10 DEF Read
  <2>. QED BY <1>1, <1>2, <1>9, <1>10, <2>1, SwitchKeeps
<1>11. CASE Schedulable = {}
  <2>1. sthreads' = list /\ Return
    BY <1>3, <1>11 DEF Read
  <2>2. call' = call \/ call' = Idle
    BY <2>1 DEF Return
  <2>3. Same(sthreads')
    BY <1>9, <2>1
  <2>4. /\ sthreads' \in Seq(Sthread) /\ Count' = Count
        /\ SthreadInv' /\ OwedInv'
        /\ \A k \in 1..Count : sthreads'[k].state = sthreads[k].state
    BY <1>1, <2>2, <2>3, SameKeeps
  <2>. QED BY <1>1, <1>2, <2>1, <2>4, BackKeeps
<1>. QED BY <1>10, <1>11

\* recycle restores the page if the processor marked it.
LEMMA Recycled ==
    ASSUME NEW st \in Sthread, NEW r, r = recycle(st), Sound(st)
    PROVE  /\ r \in Sthread /\ r.grants = r.key /\ r.launch = st.launch
           /\ r.missed \/ r.page = "clean"
           /\ r.page = "used" => r.dirty \/ r.missed
<1>0. /\ st.dirty \in BOOLEAN /\ st.missed \in BOOLEAN
      /\ st.page \in {"clean", "used"}
      /\ st.grants = st.key /\ (st.page = "used" => st.dirty \/ st.missed)
  BY DEF Sthread, Sound
<1>1. CASE st.dirty
  <2>1. r = [st EXCEPT !.page = "clean", !.dirty = FALSE, !.missed = FALSE]
    BY <1>1 DEF recycle
  <2>2. r \in Sthread
    BY <2>1 DEF Sthread
  <2>3. r.page = "clean" /\ r.grants = st.grants /\ r.key = st.key /\ r.launch = st.launch
    BY <2>1 DEF Sthread
  <2>. QED BY <1>0, <2>2, <2>3
<1>2. CASE ~st.dirty
  <2>1. r = st
    BY <1>2 DEF recycle
  <2>. QED BY <1>0, <1>2, <2>1
<1>. QED BY <1>1, <1>2

\* An sthread ends: it is the current one, and its result is that of its launch.
LEMMA ExitKeeps ==
    ASSUME WedgeInv, NEW s \in Ids, Exit(s)
    PROVE  WedgeInv'
<1>. TypeInv /\ StackInv /\ MasterInv /\ SthreadInv /\ LiveInv /\ OwedInv /\ JoinsOwnLaunch
  BY DEF WedgeInv
<1>1. /\ UNCHANGED <<proc, ids, owed, rejoined, joined>> /\ Return
      /\ s \in 1..Count /\ sthreads \in Seq(Sthread) /\ DOMAIN sthreads = 1..Count
      /\ current = s /\ running = s /\ running # Master
      /\ sthreads' = [sthreads EXCEPT ![s] =
           [recycle(sthreads[s]) EXCEPT !.state = "ST_ZOMBIE", !.ret = sthreads[s].launch]]
  <2>1. running = s /\ current # Master /\ s \in DOMAIN sthreads
    BY DEF Exit, Executing
  <2>2. current = s /\ running # Master
    BY <2>1 DEF StackInv
  <2>3. sthreads \in Seq(Sthread) /\ DOMAIN sthreads = 1..Count
    BY DEF TypeInv, Count
  <2>4. UNCHANGED <<proc, ids, owed, rejoined, joined>> /\ Return
    BY DEF Exit, ghosts
  <2>5. sthreads' = [sthreads EXCEPT ![s] =
          [recycle(sthreads[s]) EXCEPT !.state = "ST_ZOMBIE", !.ret = sthreads[s].launch]]
    BY <2>2 DEF Exit
  <2>. QED BY <2>1, <2>2, <2>3, <2>4, <2>5
<1>2. PICK st, r : st = sthreads[s] /\ r = recycle(st)
  OBVIOUS
<1>3. PICK e : e = [r EXCEPT !.state = "ST_ZOMBIE", !.ret = st.launch]
  OBVIOUS
<1>4. st \in Sthread /\ Sound(st) /\ st.launch \in Nat
  <2>1. sthreads[s] \in Sthread
    BY <1>1 DEF Count
  <2>. QED BY <1>1, <1>2, <2>1 DEF SthreadInv, Sthread
<1>5. /\ r \in Sthread /\ r.grants = r.key /\ r.launch = st.launch
      /\ r.missed \/ r.page = "clean"
      /\ r.page = "used" => r.dirty \/ r.missed
  BY <1>2, <1>4, Recycled
<1>6. /\ e \in Sthread /\ e.grants = r.grants /\ e.key = r.key /\ e.page = r.page
      /\ e.dirty = r.dirty /\ e.missed = r.missed /\ e.state = "ST_ZOMBIE"
      /\ e.launch = r.launch /\ e.ret = st.launch
  BY <1>3, <1>4, <1>5 DEF Sthread
<1>7. Sound(e)
  BY <1>5, <1>6 DEF Sound
<1>8. sthreads' = [sthreads EXCEPT ![s] = e]
  BY <1>1, <1>2, <1>3
<1>9. /\ sthreads' \in Seq(Sthread) /\ Count' = Count /\ sthreads'[s] = e
      /\ \A k \in 1..Count : k # s => sthreads'[k] = sthreads[k]
  <2>1. s \in 1..Len(sthreads) /\ Count = Len(sthreads)
    BY <1>1 DEF Count
  <2>2. e \in Sthread /\ sthreads \in Seq(Sthread)
    BY <1>1, <1>6
  <2>3. /\ sthreads' \in Seq(Sthread) /\ Count' = Len(sthreads) /\ sthreads'[s] = e
        /\ \A k \in 1..Len(sthreads) : k # s => sthreads'[k] = sthreads[k]
    BY ONLY <1>8, <2>1, <2>2, UpdateAt
  <2>. QED BY <2>1, <2>3
<1>10. SthreadInv'
  BY <1>7, <1>9 DEF SthreadInv
<1>11. Owing => Owing'
  <2> SUFFICES ASSUME Owing, NEW n \in owed
               PROVE  sthreads'[ids[n]].launch = n /\ sthreads'[ids[n]].state # "ST_DEAD"
    BY <1>1 DEF Owing
  <2>1. ids[n] \in 1..Count /\ sthreads[ids[n]].launch = n
    BY DEF OwedInv, TypeInv, Owing
  <2>2. CASE ids[n] = s
    BY <1>2, <1>5, <1>6, <1>9, <2>1, <2>2
  <2>3. CASE ids[n] # s
    BY <1>9, <2>1, <2>3 DEF Owing
  <2>. QED BY <2>2, <2>3
<1>12. OwedInv'
  <2>1. call' = call \/ call' = Idle
    BY <1>1 DEF Return
  <2>. QED BY <1>1, <1>11, <2>1 DEF OwedInv, Idle
<1>. QED BY <1>1, <1>9, <1>10, <1>12, BackKeeps

-----------------------------------------------------------------------------
(***************************************************************************)
(* Joining.                                                                *)
(***************************************************************************)

\* The join waits: an sthread that has not ended runs.
LEMMA ScheduleKeeps ==
    ASSUME WedgeInv, JoinSchedule
    PROVE  WedgeInv'
<1>1. UNCHANGED <<call, ids, owed, rejoined, joined>> /\ running = Master
  BY DEF JoinSchedule, AtJoin, ghosts
<1>2. running = current
  BY <1>1 DEF WedgeInv, StackInv
<1>3. CASE Schedulable # {}
  <2>1. schedule(sthreads, running) /\ proc' = proc
    BY <1>1, <1>3 DEF JoinSchedule
  <2>. QED BY <1>1, <1>2, <1>3, <2>1, SameNow, SwitchKeeps
<1>4. CASE Schedulable = {}
  <2>1. proc' = "abort" /\ UNCHANGED <<sthreads, current, cr3, running, frames>>
    BY <1>4 DEF JoinSchedule
  <2>. QED BY <1>1, <2>1 DEF WedgeInv, TypeInv, StackInv, MasterInv, SthreadInv, LiveInv,
       OwedInv, Owing, JoinsOwnLaunch, Count
<1>. QED BY <1>3, <1>4

\* The join returns: the launch it is for is the only one owed of its sthread,
\* and the last.
LEMMA JoinKeeps ==
    ASSUME WedgeInv, JoinReturn
    PROVE  WedgeInv'
<1>. TypeInv /\ StackInv /\ MasterInv /\ SthreadInv /\ LiveInv /\ OwedInv /\ JoinsOwnLaunch
  BY DEF WedgeInv
<1>1. PICK s, n : s = call.id /\ n = call.launch
  OBVIOUS
<1>3. /\ UNCHANGED <<current, cr3, running, frames, proc, ids, rejoined>> /\ call' = Idle
      /\ running = Master /\ call.op = "join" /\ sthreads[s].state = "ST_ZOMBIE"
      /\ sthreads' = [sthreads EXCEPT ![s].state = "ST_DEAD"]
      /\ owed' = owed \ {n} /\ joined' = <<n, sthreads[s].ret>>
  BY <1>1 DEF JoinReturn, AtJoin
<1>4. /\ n \in 1..Len(ids) /\ s = ids[n] /\ s \in 1..Count
      /\ ~rejoined => n \in owed
      /\ sthreads \in Seq(Sthread) /\ Count = Len(sthreads)
  BY <1>1, <1>3 DEF OwedInv, TypeInv, Count
<1>6. PICK st : st = sthreads[s]
  OBVIOUS
<1>7. PICK e : e = [st EXCEPT !.state = "ST_DEAD"]
  OBVIOUS
<1>8. st \in Sthread /\ Sound(st) /\ st.state = "ST_ZOMBIE"
  BY <1>3, <1>4, <1>6 DEF SthreadInv
<1>9. /\ e \in Sthread /\ e.grants = st.grants /\ e.key = st.key /\ e.page = st.page
      /\ e.dirty = st.dirty /\ e.missed = st.missed /\ e.state = "ST_DEAD"
  BY <1>7, <1>8 DEF Sthread
<1>10. Sound(e)
  BY <1>8, <1>9 DEF Sound
<1>11. sthreads' = [sthreads EXCEPT ![s] = e]
  BY <1>3, <1>4, <1>6, <1>7
<1>12. /\ sthreads' \in Seq(Sthread) /\ Count' = Count /\ sthreads'[s] = e
       /\ \A k \in 1..Count : k # s => sthreads'[k] = sthreads[k]
  <2>1. e \in Sthread /\ sthreads \in Seq(Sthread) /\ s \in 1..Len(sthreads)
    BY <1>4, <1>9
  <2>2. /\ sthreads' \in Seq(Sthread) /\ Count' = Len(sthreads) /\ sthreads'[s] = e
        /\ \A k \in 1..Len(sthreads) : k # s => sthreads'[k] = sthreads[k]
    BY ONLY <1>11, <2>1, UpdateAt
  <2>. QED BY <1>4, <2>2
<1>13. JoinsOwnLaunch'
  <2>1. sthreads[s].ret = sthreads[s].launch
    BY <1>6, <1>8 DEF Sound
  <2>2. ~rejoined => sthreads[s].launch = n
    BY <1>4 DEF OwedInv, Owing
  <2>. QED BY <1>3, <2>1, <2>2 DEF JoinsOwnLaunch
<1>14. TypeInv'
  BY <1>3, <1>12 DEF TypeInv, Calls, Idle
<1>15. StackInv' /\ MasterInv' /\ LiveInv'
  BY <1>3 DEF StackInv, MasterInv, LiveInv, Idle
<1>16. SthreadInv'
  BY <1>10, <1>12 DEF SthreadInv
<1>17. OwedInv'
  <2>1. IsFiniteSet(owed') /\ Cardinality(owed') <= AtOnce
    <3>1. /\ IsFiniteSet(owed) /\ owed' \subseteq owed /\ Cardinality(owed) <= AtOnce
      BY <1>3 DEF OwedInv
    <3>2. IsFiniteSet(owed') /\ Cardinality(owed') <= Cardinality(owed)
      BY <3>1, FS_Subset
    <3>3. Cardinality(owed) \in Nat /\ Cardinality(owed') \in Nat
      BY <3>1, <3>2, FS_CardinalityType
    <3>. QED BY <3>1, <3>2, <3>3
  <2>2. ASSUME ~rejoined PROVE Owing'
    <3> SUFFICES ASSUME NEW g \in owed'
                 PROVE  sthreads'[ids[g]].launch = g /\ sthreads'[ids[g]].state # "ST_DEAD"
      BY <1>3 DEF Owing
    <3>1. g \in owed /\ g # n /\ n \in owed /\ ids[g] \in 1..Count
      BY <1>3, <1>4, <2>2 DEF OwedInv, TypeInv
    <3>2. /\ sthreads[ids[g]].launch = g /\ sthreads[ids[g]].state # "ST_DEAD"
          /\ sthreads[ids[n]].launch = n
      BY <2>2, <3>1 DEF OwedInv, Owing
    <3>3. ids[g] # s
      BY <1>4, <3>1, <3>2
    <3>. QED BY <1>12, <3>1, <3>2, <3>3
  <2>. QED BY <1>3, <2>1, <2>2 DEF OwedInv, Idle
<1>. QED BY <1>13, <1>14, <1>15, <1>16, <1>17 DEF WedgeInv

-----------------------------------------------------------------------------
(***************************************************************************)
(* The results.                                                            *)
(***************************************************************************)

\* The invariant holds in every state: who runs and who waits on the stack, what
\* is marked of the memory, and, until a launch is joined twice, whose result
\* each join still to come will get.
THEOREM WedgeInvariance == Spec => []WedgeInv
<1>1. Init => WedgeInv
  <2> SUFFICES ASSUME Init PROVE WedgeInv
    OBVIOUS
  <2>1. /\ sthreads = <<>> /\ Count = 0 /\ frames = <<>> /\ owed = {}
        /\ current = 0 /\ cr3 = 0 /\ running = 0 /\ proc = "run" /\ call = Idle
        /\ ids = <<>> /\ Len(ids) = 0 /\ joined = <<0, 0>> /\ Len(frames) = 0
    BY DEF Init, Count, Master
  <2>2. TypeInv
    BY <2>1 DEF TypeInv, Calls, Idle
  <2>3. StackInv /\ MasterInv /\ SthreadInv /\ LiveInv /\ JoinsOwnLaunch
    BY <2>1 DEF StackInv, MasterInv, SthreadInv, LiveInv, JoinsOwnLaunch, Idle, Master
  <2>4. OwedInv
    BY <2>1, FS_EmptySet DEF OwedInv, Owing, Idle
  <2>. QED BY <2>2, <2>3, <2>4 DEF WedgeInv
<1>2. WedgeInv /\ [Next]_vars => WedgeInv'
  <2> SUFFICES ASSUME WedgeInv, [Next]_vars PROVE WedgeInv'
    OBVIOUS
  <2>1. ASSUME NEW key \in Keys, sthread_create(key) PROVE WedgeInv'
    BY <2>1, CreateKeeps
  <2>2. ASSUME NEW s \in Ids, CallWithoutCurrent(s) PROVE WedgeInv'
    BY <2>2 DEF CallWithoutCurrent, Fault, WedgeInv, TypeInv, StackInv, MasterInv,
       SthreadInv, LiveInv, OwedInv, Owing, JoinsOwnLaunch, Count, ghosts
  <2>3. ASSUME NEW n \in 1..MaxLaunches, sthread_join(n) PROVE WedgeInv'
    <3>1. /\ UNCHANGED <<sthreads, current, cr3, running, frames, proc, ids, owed, joined>>
          /\ call' = [op |-> "join", id |-> ids[n], launch |-> n]
          /\ n \in 1..Len(ids) /\ n \in Nat
          /\ rejoined' = (rejoined \/ n \notin owed)
      BY <2>3 DEF sthread_join
    <3>2. ids[n] \in 1..Count /\ call' \in Calls
      BY <3>1 DEF WedgeInv, TypeInv, Calls, Count
    <3>3. OwedInv'
      BY <3>1 DEF WedgeInv, OwedInv, Owing
    <3>. QED BY <3>1, <3>2, <3>3 DEF WedgeInv, TypeInv, StackInv, MasterInv, SthreadInv,
         LiveInv, JoinsOwnLaunch, Count
  <2>4. CASE UNCHANGED vars
    BY <2>4 DEF vars, WedgeInv, TypeInv, StackInv, MasterInv, SthreadInv, LiveInv, OwedInv,
       Owing, JoinsOwnLaunch, Count
  <2>. QED BY <2>1, <2>2, <2>3, <2>4, WriteKeeps, EvictKeeps, ReadKeeps, ExitKeeps,
       ScheduleKeeps, JoinKeeps DEF Next
<1>. QED BY <1>1, <1>2, PTL DEF Spec

\* Only sthreads that have not ended execute, with the rights their creators
\* asked for, however deep the reads they were switched away from are nested.
THEOREM LiveOnesRun == Spec => []OnlyLiveRun
<1>1. WedgeInv => OnlyLiveRun
  <2> SUFFICES ASSUME WedgeInv PROVE OnlyLiveRun
    OBVIOUS
  <2>1. /\ sthreads \in Seq(Sthread) /\ DOMAIN sthreads = 1..Len(sthreads)
        /\ \A s \in 1..Len(sthreads) : Sound(sthreads[s])
    BY DEF WedgeInv, TypeInv, SthreadInv, Count
  <2>2. \A s \in DOMAIN sthreads :
          /\ sthreads[s].state \in {"ST_RUNNING", "ST_ZOMBIE", "ST_DEAD"}
          /\ sthreads[s].key \in Keys /\ sthreads[s].page \in {"clean", "used"}
    <3>1. \A s \in DOMAIN sthreads : sthreads[s] \in Sthread
      BY <2>1
    <3>. QED BY <3>1 DEF Sthread
  <2>3. WTypeOK
    BY <2>2 DEF WedgeInv, TypeInv, Calls, OwedInv, WTypeOK, Count
  <2>4. cr3 # Master => cr3 \in 1..Len(sthreads)
    BY DEF WedgeInv, TypeInv, Count, Master
  <2>. QED BY <2>1, <2>3, <2>4 DEF WedgeInv, LiveInv, OnlyLiveRun, Sound
<1>. QED BY <1>1, WedgeInvariance, PTL

\* Recycling hides what the earlier launches wrote, as far as the processor
\* marked it; the host kernel's writes into the buffer of a read are not marked.
THEOREM RecycledStartClean == Spec => []StartsClean
<1>1. WedgeInv => StartsClean
  <2> SUFFICES ASSUME WedgeInv PROVE StartsClean
    OBVIOUS
  <2>1. /\ DOMAIN sthreads = 1..Len(sthreads)
        /\ \A s \in 1..Len(sthreads) : Sound(sthreads[s])
    BY DEF WedgeInv, TypeInv, SthreadInv, Count
  <2>. QED BY <2>1 DEF StartsClean, Sound
<1>. QED BY <1>1, WedgeInvariance, PTL

\* As long as no launch is joined a second time, sthread_join returns the result
\* of the launch it is for, however often the st_ids are used again.
THEOREM JoinsGetOwnLaunch == Spec => []JoinsOwnLaunch
<1>1. WedgeInv => JoinsOwnLaunch
  BY DEF WedgeInv
<1>. QED BY <1>1, WedgeInvariance, PTL

=============================================================================
