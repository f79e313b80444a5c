------------------------- MODULE AtomicRcPtrProofs --------------------------
(***************************************************************************)
(* The steps of AtomicRcPtr that collect, eject and destroy keep the       *)
(* invariant too.  The theorems.                                           *)
(***************************************************************************)
EXTENDS AtomicRcPtrInvariant

\* The solver answers at once, but in a module of this size its answer may be
\* read late.
USE SMTT(30)

-----------------------------------------------------------------------------
\* Collecting and ejecting.  The thread stays where it is in its operation.
LEMMA SameCall ==
  ASSUME NEW t \in Threads, CallOK(t),
         UNCHANGED <<op, announcement, snapshot_announcements>>, rc'[t] = rc[t]
  PROVE  /\ CallOK(t)'
         /\ \A o \in Objects :
              /\ \A s \in 0..snapshot_slots : Shields(t, s, o)' => Shields(t, s, o)
              /\ (Installs(t, o)' <=> Installs(t, o)) /\ OldRef(t, o)' = OldRef(t, o)
              /\ \A Q : RcKept(t, Q, o)' = RcKept(t, Q, o)
<1>1. Snapshots(t)' = Snapshots(t)
  BY Zenon DEF Snapshots
<1>2. Held(t)' = Held(t)
  BY <1>1, Zenon DEF Held, Counted
<1>3. CallOK(t)'
  BY <1>1, <1>2, Zenon DEF CallOK
<1>4. \A o \in Objects, s \in 0..snapshot_slots : Shields(t, s, o)' => Shields(t, s, o)
  BY Zenon DEF Shields
<1>5. \A o \in Objects : (Installs(t, o)' <=> Installs(t, o)) /\ OldRef(t, o)' = OldRef(t, o)
  BY Zenon DEF Installs, OldRef
<1>6. \A o \in Objects : \A Q : RcKept(t, Q, o)' = RcKept(t, Q, o)
  BY Zenon DEF RcKept, Reserves, NeverClears
<1> QED
  BY <1>3, <1>4, <1>5, <1>6, Zenon

LEMMA ListStep ==
  ASSUME IInv, NEW t \in Threads, NEW p, NEW x, Listed(t, p, x),
         UNCHANGED <<op, announcement, snapshot_announcements, rc>>,
         cell' \in [Locations -> Ptrs], live' \subseteq Objects, ref_cnt' \in [Objects -> Nat],
         \A u \in Threads \ {t} : local'[u] = local[u], local' \in [Threads -> Local],
         DeadFields', Living', ~Ending(local[t]) \/ Draining',
         \A o \in Objects :
           /\ ref_cnt[o] = ref_cnt'[o] + Bit(o = x)
           /\ Cardinality(Cells(o)) = Cardinality(Cells(o)') + Bit(o = p)
           /\ Cardinality(Cells(o)') \in Nat
  PROVE  IInv'
<1>1. TypeOK /\ CallOK(t)
  BY Zenon DEF IInv, Calls
<1>2. TypeOK' /\ Frame(t)
  BY <1>1, TypeStep, TypeView, Zenon DEF Frame
<1>3. ASSUME NEW o \in Objects PROVE Books(t, p, x, o)
  <2>1. (Installs(t, o)' <=> Installs(t, o)) /\ OldRef(t, o)' = OldRef(t, o)
        /\ \A Q : RcKept(t, Q, o)' = RcKept(t, Q, o)
    BY <1>1, SameCall, Zenon
  <2>2. ref_cnt'[o] \in Nat /\ rc[t][o] \in Nat /\ OldRef(t, o) \in Nat
    BY <1>1, TypeView, Zenon DEF OldRef, Bit
  <2>3. \A Q : RcKept(t, Q, o) \in Nat
    BY <2>2, Zenon DEF RcKept
  <2> QED
    BY <2>1, <2>2, <2>3 DEF Books, Bit
<1>4. CallOK(t)' /\ \A o \in Objects, s \in 0..snapshot_slots : Shields(t, s, o)' => Shields(t, s, o)
  BY <1>1, SameCall, Zenon
<1> QED
  BY <1>2, <1>3, <1>4, BookStep, Zenon

\* Only the lists of the thread change.
LEMMA CollectKeeps ==
  ASSUME IInv, NEW t \in Threads, Listed(t, null, null), local' \in [Threads -> Local],
         \A u \in Threads \ {t} : local'[u] = local[u], ~Ending(local[t]) \/ Draining',
         UNCHANGED <<cell, op, announcement, snapshot_announcements, live, ref_cnt, rc>>
  PROVE  IInv'
<1>1. /\ cell' \in [Locations -> Ptrs] /\ live' \subseteq Objects /\ ref_cnt' \in [Objects -> Nat]
      /\ DeadFields' /\ Living'
  BY TypeView, Zenon DEF IInv, DeadFields, Living
<1>2. ASSUME NEW o \in Objects
      PROVE  /\ ref_cnt[o] = ref_cnt'[o] + Bit(o = null)
             /\ Cardinality(Cells(o)) = Cardinality(Cells(o)') + Bit(o = null)
             /\ Cardinality(Cells(o)') \in Nat
  <2>1. Cardinality(Cells(o)') = Cardinality(Cells(o)) /\ Cardinality(Cells(o)) \in Nat
    BY CellsSame, Numbers, Zenon DEF IInv, Countable
  <2>2. ref_cnt[o] \in Nat /\ o # null
    BY TypeView, ManagerAssumption, Zenon DEF IInv
  <2> QED
    BY <2>1, <2>2 DEF Bit
<1> QED
  BY <1>1, <1>2, ListStep

\* The scan reads a slot: what it has not read yet it will find announced, as
\* long as the slots that protect o go on protecting it.
LEMMA ScanStepKeeps ==
  ASSUME IInv, NEW t \in Threads, ScanStep(t), UNCHANGED <<live, ref_cnt, rc>> PROVE IInv'
<1>1. PICK m, p, k : /\ m = local[t] /\ p = SlotAt(m.at) /\ k = m.at
                     /\ m.phase = "scan" /\ k <= ScanLength
  BY Zenon DEF ScanStep
<1>2. PICK n : n = [m EXCEPT !.announced = Announce(m.announced, p), !.at = m.at + 1]
  BY Zenon
<1>3. TypeOK /\ Locals /\ LocalOK(m) /\ m \in Local /\ k \in 1..ScanLength
  BY <1>1, SlotView DEF IInv, Locals, LocalOK, Local
<1>4. local' = [local EXCEPT ![t] = n]
  BY <1>1, <1>2, Zenon DEF ScanStep
<1>5. SlotThread(k) \in Threads /\ SlotNumber(k) \in 0..snapshot_slots
  BY <1>3, SlotView, Zenon
<1>6. p = IF SlotNumber(k) = 0 THEN announcement[SlotThread(k)]
          ELSE snapshot_announcements[SlotThread(k)][SlotNumber(k)]
  BY <1>1, Zenon DEF SlotAt, SlotThread, SlotNumber
<1>7. p \in Ptrs
  <2>1. SlotNumber(k) # 0 => SlotNumber(k) \in Slots
    BY <1>5, ManagerAssumption DEF Slots
  <2> QED
    BY <1>3, <1>5, <1>6, <2>1, TypeView, Zenon
<1>8. \A o \in Objects : k \in Protecting(o) => p = o
  BY <1>5, <1>6, Zenon DEF Protecting, Shields
<1>9. /\ n \in Local /\ n.phase = "scan" /\ n.at = m.at + 1
      /\ n.announced = Announce(m.announced, p)
      /\ n.deferred = m.deferred /\ n.deferred_destructs = m.deferred_destructs
  <2>1. Announce(m.announced, p) \in [Objects -> Nat] /\ m.at + 1 \in Nat
    BY <1>3, <1>7, ManagerAssumption DEF Local, Announce, Ptrs
  <2> HIDE DEF Announce
  <2> QED
    BY <1>1, <1>2, <1>3, <2>1, Zenon DEF Local
<1>10. /\ LocalOK(n) /\ \A e \in Entries : Total(n, e) = Total(m, e)
       /\ \A e \in Entries, Q \in SlotSets :
            (m.at \in Q => p = e[1]) => KeptOf(n, Q, e) >= KeptOf(m, Q, e)
  BY <1>1, <1>3, <1>7, <1>9, ScanKeeps, Zenon
<1>11. local' \in [Threads -> Local] /\ local'[t] = n /\ \A u \in Threads \ {t} : local'[u] = local[u]
  BY <1>3, <1>4, <1>9, TypeView, Zenon
<1>12. ~Ending(local[t]) /\ ~Ending(local'[t])
  BY <1>1, <1>9, <1>11, Zenon DEF Ending
<1>13. Listed(t, null, null)
  <2>1. ASSUME NEW o \in Objects
        PROVE  /\ o # null /\ Total(n, Strong(o)) = Total(m, Strong(o)) /\ Total(m, Strong(o)) \in Nat
               /\ \A Q \in SlotSets : /\ KeptOf(m, Q, Strong(o)) \in Nat
                                      /\ Q \subseteq Protecting(o) =>
                                           KeptOf(n, Q, Strong(o)) >= KeptOf(m, Q, Strong(o))
    <3>1. o # null /\ Strong(o) \in Entries /\ Strong(o)[1] = o
      BY StrongView, ManagerAssumption, Zenon
    <3> QED
      BY <1>1, <1>3, <1>8, <1>10, <3>1, LocalView, Zenon
  <2> QED
    BY <1>1, <1>10, <1>11, <1>12, <2>1 DEF Listed, Bit
<1> QED
  BY <1>11, <1>12, <1>13, CollectKeeps, Zenon DEF ScanStep

LEMMA ScanDoneKeeps ==
  ASSUME IInv, NEW t \in Threads, ScanDone(t), UNCHANGED <<live, ref_cnt, rc>> PROVE IInv'
<1>1. /\ TypeOK /\ Locals /\ LocalOK(local[t]) /\ local[t].phase = "scan" /\ local[t].at > ScanLength
      /\ local' = [local EXCEPT ![t] = Filter(local[t])]
  BY Zenon DEF IInv, Locals, ScanDone
<1>2. Strong(null) \notin Entries
  BY ManagerAssumption, Zenon DEF Strong, Entries
<1>3. local'[t] = Filter(local[t]) /\ \A u \in Threads \ {t} : local'[u] = local[u]
  BY <1>1, TypeView, Zenon
<1>4. Retired(local[t], local'[t], Strong(null))
  BY <1>1, <1>2, <1>3, FilterRetires, Zenon
<1>5. Listed(t, null, null)
  BY <1>1, <1>4, RetiredListed, Zenon DEF Ptrs
<1>6. local' \in [Threads -> Local]
  BY <1>1, <1>3, <1>4, TypeView, Zenon DEF Retired, LocalOK
<1> QED
  BY <1>1, <1>3, <1>5, <1>6, CollectKeeps, Zenon DEF ScanDone, Ending

-----------------------------------------------------------------------------
\* decrement_ref_cnt of x by t, whose local state is m: it gives up a reference
\* to x and, when it destroys x, retires the reference p that the member holds.
Decremented(t, x, m, p) ==
  /\ Retired(m, local'[t], Strong(p)) /\ local' \in [Threads -> Local]
  /\ \A u \in Threads \ {t} : local'[u] = local[u]
  /\ cell' \in [Locations -> Ptrs] /\ \A l \in Roots : cell'[l] = cell[l]
  /\ live' \subseteq Objects /\ ref_cnt' \in [Objects -> Nat]
  /\ DeadFields' /\ Living'
  /\ \A o \in Objects : /\ ref_cnt[o] = ref_cnt'[o] + Bit(o = x)
                        /\ Cardinality(Cells(o)) = Cardinality(Cells(o)') + Bit(o = p)
                        /\ Cardinality(Cells(o)') \in Nat

LEMMA RefCntStep ==
  ASSUME TypeOK, NEW x \in Objects, ref_cnt[x] > 0, ref_cnt' = [ref_cnt EXCEPT ![x] = @ - 1]
  PROVE  /\ ref_cnt' \in [Objects -> Nat] /\ ref_cnt'[x] = ref_cnt[x] - 1
         /\ \A o \in Objects : ref_cnt[o] = ref_cnt'[o] + Bit(o = x)
BY TypeView DEF Bit

LEMMA DecrementStep ==
  ASSUME TypeOK, Living, DeadFields, NEW t \in Threads, NEW x \in Objects, ref_cnt[x] > 0,
         NEW m, LocalOK(m), DecrementRefCnt(t, x, m)
  PROVE  \E p \in Ptrs : Decremented(t, x, m, p)
<1>1. /\ ref_cnt' \in [Objects -> Nat] /\ ref_cnt'[x] = ref_cnt[x] - 1 /\ ref_cnt[x] \in Nat
      /\ \A o \in Objects : ref_cnt[o] = ref_cnt'[o] + Bit(o = x)
  BY RefCntStep, TypeView, Zenon DEF DecrementRefCnt
<1>2. Strong(null) \notin Entries /\ null \in Ptrs /\ null \notin Objects
  BY ManagerAssumption, Zenon DEF Strong, Entries, Ptrs
<1>3. /\ cell \in [Locations -> Ptrs] /\ local \in [Threads -> Local] /\ live \subseteq Objects
      /\ m \in Local
  BY TypeView, LocalView, Zenon
<1>4. \A o \in Objects : /\ Bit(o = null) = 0 /\ Cardinality(Cells(o)) \in Nat
                         /\ ref_cnt[o] \in Nat /\ ref_cnt'[o] \in Nat
  <2>1. ASSUME NEW o \in Objects PROVE Cardinality(Cells(o)) \in Nat
    <3>1. IsFiniteSet(Cells(o))
      BY ManagerAssumption, FS_Subset, Zenon DEF Cells
    <3> QED
      BY <3>1, FS_CardinalityType, Zenon
  <2> QED
    BY <1>1, <1>2, <2>1, TypeView, Zenon DEF Bit
<1>5. CASE /\ ref_cnt[x] # 1 /\ UNCHANGED <<live, cell>>
           /\ local' = [local EXCEPT ![t] = FinishCollecting(m)]
  <2>1. local'[t] = FinishCollecting(m) /\ \A u \in Threads \ {t} : local'[u] = local[u]
    BY <1>3, <1>5, Zenon
  <2>2. Retired(m, local'[t], Strong(null))
    BY <1>2, <2>1, FinishRetires, Zenon
  <2>3. local' \in [Threads -> Local]
    BY <1>3, <1>5, <2>1, <2>2, Zenon DEF Retired, LocalOK
  <2>4. Living' /\ DeadFields'
    BY <1>1, <1>4, <1>5 DEF Living, DeadFields, Bit
  <2>5. \A o \in Objects : Cardinality(Cells(o)) = Cardinality(Cells(o)') + Bit(o = null)
                           /\ Cardinality(Cells(o)') \in Nat
    BY <1>4, <1>5, CellsSame
  <2>6. Decremented(t, x, m, null)
    BY <1>1, <1>3, <1>5, <2>1, <2>2, <2>3, <2>4, <2>5, Zenon DEF Decremented
  <2> QED
    BY <1>2, <2>6, Zenon
<1>6. CASE ref_cnt[x] = 1 /\ Destroy(t, x, m)
  <2>1. PICK p : p = IF x \in Fields THEN cell[x] ELSE null
    BY Zenon
  <2>2. p \in Ptrs
    BY <1>2, <1>3, <2>1, Zenon DEF Fields
  <2>3. PICK k : k = RetireRef(m, p)
    BY Zenon
  <2>4. Retired(m, k, Strong(p))
    BY <2>2, <2>3, RetireRetires, ClientAssumption, Zenon DEF RetireRef, Strong
  <2>5. local' = [local EXCEPT ![t] = FinishCollecting(k)] /\ live' = live \ {x}
    BY <1>6, <2>1, <2>3, Zenon DEF Destroy
  <2>6. local'[t] = FinishCollecting(k) /\ \A u \in Threads \ {t} : local'[u] = local[u]
    BY <1>3, <2>5, Zenon
  <2>7. Retired(k, local'[t], Strong(null))
    BY <1>2, <2>4, <2>6, FinishRetires DEF Retired
  <2>8. Retired(m, local'[t], Strong(p))
    BY <1>2, <1>3, <2>4, <2>7, RetiredNothing, Zenon
  <2>9. local' \in [Threads -> Local]
    BY <1>3, <2>5, <2>6, <2>8, Zenon DEF Retired, LocalOK
  <2>10. Living'
    BY <1>1, <1>4, <1>6, <2>5 DEF Living, Bit
  <2>11. CASE x \in Fields
    <3>1. cell' = [cell EXCEPT ![x] = null] /\ x \in Locations
      BY <1>6, <2>11, Zenon DEF Destroy, Fields
    <3>2. DeadFields'
      BY <1>2, <1>3, <2>5, <3>1, Zenon DEF DeadFields, Fields
    <3>3. cell' \in [Locations -> Ptrs] /\ \A l \in Roots : cell'[l] = cell[l]
      BY <1>2, <1>3, <3>1, Zenon DEF Roots
    <3>4. ASSUME NEW o \in Objects
          PROVE  /\ Cardinality(Cells(o)) = Cardinality(Cells(o)') + Bit(o = p)
                 /\ Cardinality(Cells(o)') \in Nat
      <4>1. /\ Cardinality(Cells(o)) \in Nat /\ Cardinality(Cells(o)') \in Nat
            /\ Cardinality(Cells(o)') = Cardinality(Cells(o)) + Bit(null = o) - Bit(cell[x] = o)
        BY <3>1, CellsStep, Zenon DEF Bit
      <4> QED
        BY <1>2, <2>1, <2>11, <4>1 DEF Bit
    <3>5. Decremented(t, x, m, p)
      BY <1>1, <1>3, <2>5, <2>6, <2>8, <2>9, <2>10, <3>2, <3>3, <3>4, Zenon DEF Decremented
    <3> QED
      BY <2>2, <3>5, Zenon
  <2>12. CASE x \notin Fields
    <3>1. cell' = cell /\ p = null
      BY <1>6, <2>1, <2>12, Zenon DEF Destroy
    <3>2. DeadFields'
      BY <2>5, <2>12, <3>1, Zenon DEF DeadFields, Fields
    <3>3. \A o \in Objects : Cardinality(Cells(o)) = Cardinality(Cells(o)') + Bit(o = p)
                             /\ Cardinality(Cells(o)') \in Nat
      BY <1>4, <3>1, CellsSame
    <3>4. Decremented(t, x, m, p)
      BY <1>1, <1>3, <2>5, <2>6, <2>8, <2>9, <2>10, <3>1, <3>2, <3>3, Zenon DEF Decremented
    <3> QED
      BY <2>2, <3>4, Zenon
  <2> QED
    BY <2>11, <2>12, Zenon
<1> QED
  BY <1>5, <1>6, Zenon DEF DecrementRefCnt

LEMMA EjectKeeps ==
  ASSUME IInv, NEW t \in Threads, Eject(t) PROVE IInv'
<1>1. PICK e \in Ejectable(t) : DecrementRefCnt(t, e[1], Without(local[t], e))
  BY Zenon DEF Eject
<1>2. PICK x, m, k : x = e[1] /\ m = local[t] /\ k = Without(m, e)
  BY Zenon
<1>3. /\ e \in Entries /\ x \in Objects /\ e = Strong(x)
      /\ m.phase \in {"eject", "drain"} /\ m.deferred[e] > 0 /\ LocalOK(m) /\ m \in Local
  BY <1>1, <1>2, StrongView, Zenon DEF Ejectable, IInv, Locals, LocalOK
<1>4. /\ k \in Local /\ k.phase = m.phase /\ k.announced = m.announced
      /\ k.deferred_destructs = m.deferred_destructs
      /\ \A d \in Entries : m.deferred[d] = k.deferred[d] + Bit(d = e) /\ k.deferred[d] \in Nat
  <2>1. PICK l : l = TakeFrom(m.deferred, e)
    BY Zenon
  <2>2. l \in [Entries -> Nat] /\ \A d \in Entries : m.deferred[d] = l[d] + Bit(d = e) /\ l[d] \in Nat
    BY <1>3, <2>1 DEF TakeFrom, Bit, Local
  <2>3. k = [m EXCEPT !.deferred = l]
    BY <1>2, <2>1, Zenon DEF Without
  <2> QED
    BY <1>3, <2>2, <2>3, Zenon DEF Local
<1>5. LocalOK(k)
  BY <1>3, <1>4, Zenon DEF LocalOK
<1>6. ASSUME NEW d \in Entries
      PROVE  /\ Total(m, d) = Total(k, d) + Bit(d = e) /\ Total(k, d) \in Nat
             /\ \A Q \in SlotSets : KeptOf(k, Q, d) = KeptOf(m, Q, d) /\ KeptOf(m, Q, d) \in Nat
  <2>1. m.deferred_destructs[d] \in Nat /\ Bit(d = e) \in Nat
    BY <1>3, Zenon DEF Local, Bit
  <2>2. \A Q \in SlotSets : KeptOf(k, Q, d) = KeptOf(m, Q, d)
    BY <1>3, <1>4, Zenon DEF KeptOf
  <2> QED
    BY <1>3, <1>4, <1>5, <2>1, <2>2, LocalView DEF Total
<1>7. ref_cnt[x] > 0
  <2>1. Deferred(t, x) > 0 /\ Deferred(t, x) \in Nat
    BY <1>2, <1>3, <1>6, Numbers DEF IInv, Countable, Bit
  <2>2. RefsOf(t, x) > 0
    BY <1>3, <2>1, Numbers DEF IInv, Countable, RefsOf
  <2> QED
    BY <1>3, <2>2, Alive DEF IInv
<1>8. PICK p \in Ptrs : Decremented(t, x, k, p)
  BY <1>1, <1>2, <1>3, <1>5, <1>7, DecrementStep, Zenon DEF IInv
<1>9. PICK n : n = local'[t]
  BY Zenon
<1>10. Retired(k, n, Strong(p))
  BY <1>8, <1>9, Zenon DEF Decremented
<1>11. Ending(n) => Ending(m)
  BY <1>4, <1>10, Zenon DEF Retired, Ending
<1>12. Listed(t, p, x)
  <2>1. ASSUME NEW o \in Objects
        PROVE  /\ Total(n, Strong(o)) + Bit(o = x) = Total(m, Strong(o)) + Bit(o = p)
               /\ \A Q \in SlotSets : \/ KeptOf(n, Q, Strong(o)) >= KeptOf(m, Q, Strong(o)) + Bit(o = p)
                                      \/ KeptOf(n, Q, Strong(o)) > Cardinality(Q)
    <3>1. Strong(o) \in Entries /\ (Strong(o) = e <=> o = x) /\ (Strong(o) = Strong(p) <=> o = p)
      BY <1>3, StrongView, Zenon
    <3>2. /\ Total(m, Strong(o)) = Total(k, Strong(o)) + Bit(o = x) /\ Total(k, Strong(o)) \in Nat
          /\ \A Q \in SlotSets : KeptOf(k, Q, Strong(o)) = KeptOf(m, Q, Strong(o))
      BY <1>6, <3>1, Zenon DEF Bit
    <3>3. /\ Total(n, Strong(o)) = Total(k, Strong(o)) + Bit(o = p)
          /\ \A Q \in SlotSets : \/ KeptOf(n, Q, Strong(o)) >= KeptOf(k, Q, Strong(o)) + Bit(o = p)
                                 \/ KeptOf(n, Q, Strong(o)) > Cardinality(Q)
      BY <1>10, <3>1, Zenon DEF Retired, Bit
    <3>4. Bit(o = x) \in Nat /\ Bit(o = p) \in Nat
      BY Zenon DEF Bit
    <3> QED
      BY <3>2, <3>3, <3>4
  <2> QED
    BY <1>2, <1>9, <1>10, <1>11, <2>1, Zenon DEF Listed, Retired
<1>13. ~Ending(m) \/ Draining'
  <2> SUFFICES ASSUME Ending(m) PROVE Draining'
    BY Zenon
  <2>1. m.phase = "drain" /\ \A l \in Roots : cell[l] = null
    BY <1>2, <1>3, Zenon DEF IInv, Draining, Ending
  <2>2. \A u \in Threads : /\ Ending(local[u]) /\ op[u].pc = "idle" /\ Held(u) = {}
                           /\ u # 1 => local[u].deferred = NoEntries
    BY <1>2, Zenon DEF IInv, Draining
  <2>3. t = 1
    <3>1. m.deferred # NoEntries
      BY <1>3 DEF NoEntries
    <3> QED
      BY <1>2, <2>2, <3>1, Zenon
  <2>4. n.phase = "drain"
    BY <1>4, <1>10, <2>1, Zenon DEF Retired, Ending
  <2>5. \A u \in Threads : Ending(local'[u]) /\ (u # 1 => local'[u].deferred = NoEntries)
    BY <1>8, <1>9, <2>2, <2>3, <2>4 DEF Decremented, Ending
  <2>6. \A u \in Threads : op'[u].pc = "idle" /\ Held(u)' = {}
    <3>1. \A u \in Threads : Held(u)' = Held(u)
      BY Zenon DEF Eject, Held, Counted, Snapshots
    <3> QED
      BY <2>2, <3>1, Zenon DEF Eject
  <2>7. \A l \in Roots : cell'[l] = null
    BY <1>8, <2>1, Zenon DEF Decremented
  <2> QED
    BY <1>9, <2>3, <2>4, <2>5, <2>6, <2>7, Zenon DEF Draining, Roots
<1> QED
  BY <1>2, <1>8, <1>12, <1>13, ListStep DEF Decremented, Eject

\* rc_ptr::clear.
LEMMA ClearRcKeeps ==
  ASSUME IInv, NEW t \in Threads, ClearRc(t) PROVE IInv'
<1>1. PICK x \in Counted(t) : GivesUp(t, x) /\ DecrementRefCnt(t, x, local[t])
  BY Zenon DEF ClearRc
<1>2. /\ At(t, "idle") /\ ~NeverClears(t) /\ UNCHANGED <<announcement, snapshot_announcements, op>>
      /\ TypeOK /\ Locals /\ LocalOK(local[t]) /\ x \in Objects /\ rc[t][x] > 0
  BY Zenon DEF ClearRc, CanCall, NeverClears, Counted, IInv, Locals
<1>3. ref_cnt[x] > 0
  BY HeldLives, Zenon DEF IInv, Held
<1>4. PICK p \in Ptrs : Decremented(t, x, local[t], p)
  BY <1>1, <1>2, <1>3, DecrementStep, Zenon DEF IInv
<1>5. Listed(t, p, null)
  BY <1>2, <1>4, RetiredListed, Zenon DEF Decremented
<1>6. /\ rc' \in [Threads -> [Objects -> Nat]] /\ \A u \in Threads \ {t} : rc'[u] = rc[u]
      /\ \A o \in Objects : rc'[t][o] = rc[t][o] - Bit(o = x)
  BY <1>1, <1>2, RcStep
<1>7. TypeOK' /\ Frame(t) /\ DeadFields' /\ Living'
  BY <1>2, <1>4, <1>6, TypeStep, TypeView, Zenon DEF Frame, Decremented
<1>8. ASSUME NEW o \in Objects PROVE Books(t, p, null, o)
  <2>1. /\ ~Installs(t, o) /\ ~Installs(t, o)' /\ OldRef(t, o) = 0 /\ OldRef(t, o)' = 0
        /\ \A Q : RcKept(t, Q, o) = 0 /\ RcKept(t, Q, o)' = 0
    BY <1>2, AtOnce, Zenon
  <2>2. /\ ref_cnt[o] = ref_cnt'[o] + Bit(o = x) /\ Cardinality(Cells(o)') \in Nat
        /\ Cardinality(Cells(o)) = Cardinality(Cells(o)') + Bit(o = p)
        /\ ref_cnt'[o] \in Nat /\ rc[t][o] \in Nat /\ rc'[t][o] = rc[t][o] - Bit(o = x) /\ o # null
    BY <1>2, <1>4, <1>6, TypeView, ManagerAssumption DEF Decremented
  <2> QED
    BY <2>1, <2>2 DEF Books, Bit
<1> QED
  BY <1>2, <1>5, <1>7, <1>8, AtOnce, BookStep, Zenon

-----------------------------------------------------------------------------
\* The destructor of the manager.  Nothing is protected, so only the counts
\* and the lists matter.
LEMMA NothingProtected ==
  ASSUME TypeOK, Calls, \A t \in Threads : op[t].pc = "idle" /\ Held(t) = {}
  PROVE  Guarded
<1>1. ASSUME NEW o \in Objects, NEW i \in Protecting(o) PROVE FALSE
  <2>1. PICK t, s : t = SlotThread(i) /\ s = SlotNumber(i)
    BY Zenon
  <2>2. t \in Threads /\ s \in 0..snapshot_slots /\ Shields(t, s, o)
    BY <2>1, SlotView, Zenon DEF Protecting
  <2>3. op[t].pc = "idle" /\ Held(t) = {} /\ o # null
    BY <2>2, ManagerAssumption, Zenon
  <2>4. s # 0
    BY <2>2, <2>3, Zenon DEF Shields
  <2>5. s \in Slots \ {op[t].slot} /\ snapshot_announcements[t][s] = o
    BY <2>2, <2>4, ManagerAssumption DEF Shields, Slots
  <2>6. o \in Snapshots(t)
    BY <2>3, <2>5, Zenon DEF Snapshots
  <2> QED
    BY <2>3, <2>6, Zenon DEF Held
<1> QED
  BY <1>1, Zenon DEF Guarded, SlotSets

\* The thread and the references it has are as before, but for what is deferred.
LEMMA SameReferences ==
  ASSUME TypeOK, Exact, UNCHANGED <<cell, op, rc, ref_cnt>>,
         \A o \in Objects : SumFunction([t \in Threads |-> RefsOf(t, o)'])
                              = SumFunction([t \in Threads |-> RefsOf(t, o)])
  PROVE  Exact'
<1> SUFFICES ASSUME NEW o \in Objects PROVE (ref_cnt[o] + Uncounted(o) = References(o))'
  BY Zenon DEF Exact
<1>1. Uncounted(o)' = Uncounted(o)
  BY Zenon DEF Uncounted
<1>2. References(o) = Cardinality(Cells(o)) + SumFunction([t \in Threads |-> RefsOf(t, o)])
  BY Zenon DEF References, Cells, RefsOf, OldRef, Bit
<1>3. References(o)' = Cardinality(Cells(o)') + SumFunction([t \in Threads |-> RefsOf(t, o)'])
  BY Zenon DEF References, Cells, RefsOf, OldRef, Bit
<1>4. References(o)' = References(o)
  BY <1>2, <1>3, CellsSame, Zenon
<1> QED
  BY <1>1, <1>4, Zenon DEF Exact

\* Of thread t only the lists change, and it holds nothing.
LEMMA DrainStep ==
  ASSUME IInv, UNCHANGED <<cell, op, announcement, snapshot_announcements, live, ref_cnt, rc>>,
         local' \in [Threads -> Local], \A t \in Threads : LocalOK(local'[t]),
         \A t \in Threads : op[t].pc = "idle" /\ Held(t) = {}, Draining',
         \A o \in Objects : SumFunction([t \in Threads |-> RefsOf(t, o)'])
                              = SumFunction([t \in Threads |-> RefsOf(t, o)])
  PROVE  IInv'
<1>1. TypeOK /\ Calls
  BY Zenon DEF IInv
<1>2. TypeOK' /\ Locals' /\ DeadFields' /\ Living'
  BY <1>1, TypeStep, TypeView, Zenon DEF IInv, Locals, LocalOK, DeadFields, Living
<1>3. \A t \in Threads : CallOK(t)' /\ Held(t)' = Held(t)
  <2>1. \A t \in Threads : CallOK(t)'
    BY <1>1, SameCall, Zenon DEF Calls
  <2> QED
    BY <2>1, Zenon DEF Held, Counted, Snapshots
<1>4. Calls' /\ Exact'
  BY <1>1, <1>3, SameReferences, Zenon DEF IInv, Calls
<1>5. (TypeOK /\ Calls /\ (\A t \in Threads : op[t].pc = "idle" /\ Held(t) = {}) => Guarded)'
  BY NothingProtected, PTL
<1>6. (\A t \in Threads : op[t].pc = "idle" /\ Held(t) = {})'
  BY <1>3, Zenon
<1> QED
  BY <1>2, <1>4, <1>5, <1>6, Zenon DEF IInv

LEMMA ExitKeeps ==
  ASSUME IInv, Exit PROVE IInv'
<1>1. /\ TypeOK /\ \A l \in Roots : cell[l] = null
      /\ UNCHANGED <<cell, op, announcement, snapshot_announcements, live, ref_cnt, rc>>
  BY Zenon DEF Exit, DrainStart, IInv
<1>2. \A t \in Threads : /\ op[t].pc = "idle" /\ Held(t) = {} /\ LocalOK(local[t])
                         /\ local[t].phase = "off" /\ local[t].deferred = NoEntries
  BY Zenon DEF Exit, DrainStart, At, Held, IInv, Locals, LocalOK
<1>3. ASSUME NEW t \in Threads
      PROVE  /\ local'[t] \in Local /\ LocalOK(local'[t])
             /\ local'[t].phase = "drain" /\ local'[t].deferred = local[t].deferred
             /\ local'[t].deferred_destructs = local[t].deferred_destructs
  <2>1. PICK m : m = local[t]
    BY Zenon
  <2>2. m \in Local /\ m.announced = EmptyBag
    BY <1>2, <2>1, Zenon DEF LocalOK
  <2>3. local'[t] = [m EXCEPT !.phase = "drain"]
    BY <2>1, Zenon DEF Exit, DrainStart
  <2>4. /\ local'[t] \in Local /\ local'[t].phase = "drain" /\ local'[t].deferred = m.deferred
        /\ local'[t].deferred_destructs = m.deferred_destructs /\ local'[t].announced = m.announced
    BY <2>2, <2>3, Zenon DEF Local
  <2> QED
    BY <2>1, <2>2, <2>4, Zenon DEF LocalOK
<1>4. local' \in [Threads -> Local]
  BY <1>3, Zenon DEF Exit, DrainStart
<1>5. Draining'
  <2>1. \A t \in Threads : Held(t)' = Held(t)
    BY <1>1, Zenon DEF Held, Counted, Snapshots
  <2> QED
    BY <1>1, <1>2, <1>3, <2>1, ThreadsFinite, Zenon DEF Draining, Ending, Roots
<1>6. \A o \in Objects : [t \in Threads |-> RefsOf(t, o)'] = [t \in Threads |-> RefsOf(t, o)]
  <2>1. \A o \in Objects, t \in Threads : RefsOf(t, o)' = RefsOf(t, o)
    BY <1>1, <1>3, Zenon DEF RefsOf, Deferred, OldRef
  <2> QED
    BY <2>1, Zenon
<1> QED
  BY <1>1, <1>2, <1>3, <1>4, <1>5, <1>6, DrainStep, Zenon

\* One turn of the loop of the destructor takes the lists of all threads.
LEMMA DrainBatchKeeps ==
  ASSUME IInv, DrainBatch, UNCHANGED <<live, ref_cnt, rc>> PROVE IInv'
<1>1. /\ TypeOK /\ Locals /\ Countable /\ 1 \in Threads /\ local[1].phase = "drain"
      /\ local[1].deferred = NoEntries
      /\ UNCHANGED <<cell, op, announcement, snapshot_announcements, live, ref_cnt, rc>>
  BY Numbers, ThreadsFinite, Zenon DEF DrainBatch, IInv
<1>2. /\ \A l \in Roots : cell[l] = null
      /\ \A t \in Threads : /\ op[t].pc = "idle" /\ Held(t) = {} /\ Ending(local[t])
                            /\ local[t].deferred = NoEntries /\ LocalOK(local[t])
  BY <1>1, Zenon DEF Draining, Ending, IInv, Locals
<1> DEFINE size(e) == SumFunction([u \in Threads |-> local[u].deferred_destructs[e]])
           batch == [e \in Entries |-> size(e)]
<1>3. \A e \in Entries : size(e) \in Nat
  <2> TAKE e \in Entries
  <2> DEFINE f == [u \in Threads |-> local[u].deferred_destructs[e]]
  <2>1. f \in [Threads -> Nat]
    BY <1>1, TypeView DEF Local
  <2> HIDE DEF f
  <2>2. SumFunction(f) \in Nat
    BY <2>1, ThreadsFinite, SumUpdate, Zenon
  <2> QED
    BY <2>2, Zenon DEF f
<1>4. batch \in [Entries -> Nat] /\ \A e \in Entries : batch[e] = size(e)
  <2> HIDE DEF size
  <2> QED
    BY <1>3, Zenon
<1>5. NoEntries \in [Entries -> Nat] /\ \A e \in Entries : NoEntries[e] = 0
  BY Zenon DEF NoEntries
<1> HIDE DEF batch
<1>6. ASSUME NEW t \in Threads
      PROVE  /\ local'[t] \in Local /\ LocalOK(local'[t]) /\ local'[t].phase = local[t].phase
             /\ local'[t].deferred_destructs = NoEntries
             /\ local'[t].deferred = IF t = 1 THEN batch ELSE NoEntries
  <2>1. PICK m : m = local[t]
    BY Zenon
  <2>2. PICK l : l = IF t # 1 THEN m.deferred ELSE batch
    BY Zenon
  <2>3. m \in Local /\ m.announced = EmptyBag /\ l \in [Entries -> Nat] /\ m.phase # "off" /\ m.phase # "scan"
    BY <1>2, <1>4, <2>1, <2>2, Zenon DEF LocalOK, Ending, Local
  <2>4. local'[t] = [m EXCEPT !.deferred_destructs = NoEntries, !.deferred = l]
    BY <2>1, <2>2, Zenon DEF DrainBatch, batch
  <2>5. /\ local'[t] \in Local /\ local'[t].phase = m.phase /\ local'[t].deferred = l
        /\ local'[t].deferred_destructs = NoEntries /\ local'[t].announced = m.announced
    BY <1>5, <2>3, <2>4, Zenon DEF Local
  <2> QED
    BY <1>2, <2>1, <2>2, <2>3, <2>5, Zenon DEF LocalOK
<1>7. local' \in [Threads -> Local]
  BY <1>6, Zenon DEF DrainBatch
<1>8. Draining'
  <2>1. \A t \in Threads : Held(t)' = Held(t)
    BY <1>1, Zenon DEF Held, Counted, Snapshots
  <2> QED
    BY <1>1, <1>2, <1>6, <2>1 DEF Draining, Ending, Roots
<1>9. ASSUME NEW o \in Objects
      PROVE  SumFunction([t \in Threads |-> RefsOf(t, o)']) = SumFunction([t \in Threads |-> RefsOf(t, o)])
  <2> DEFINE f == [t \in Threads |-> RefsOf(t, o)']
             g == [t \in Threads |-> RefsOf(t, o)]
             h == [u \in Threads |-> local[u].deferred_destructs[Strong(o)]]
  <2>1. Strong(o) \in Entries
    BY StrongView, Zenon
  <2>2. \A t \in Threads : rc[t][o] = 0 /\ OldRef(t, o) = 0 /\ OldRef(t, o)' = 0
    <3>1. \A t \in Threads : rc[t][o] \in Nat /\ ~(rc[t][o] > 0)
      BY <1>1, <1>2, Zenon DEF Countable, Held, Counted
    <3> QED
      BY <1>1, <1>2, <3>1 DEF OldRef, Bit
  <2>3. ASSUME NEW t \in Threads
        PROVE  /\ local[t].deferred_destructs[Strong(o)] \in Nat
               /\ RefsOf(t, o) = local[t].deferred_destructs[Strong(o)]
    <3>1. local[t].deferred_destructs[Strong(o)] \in Nat /\ local[t].deferred[Strong(o)] = 0
      BY <1>1, <1>2, <1>5, <2>1, TypeView DEF Local
    <3> QED
      BY <2>2, <3>1 DEF RefsOf, Deferred, Strong
  <2>4. g = h
    BY <2>3, Zenon
  <2>5. ASSUME NEW t \in Threads
        PROVE  RefsOf(t, o)' = IF t = 1 THEN batch[Strong(o)] ELSE 0
    <3>1. /\ local'[t].deferred_destructs[Strong(o)] = 0
          /\ local'[t].deferred[Strong(o)] = IF t = 1 THEN batch[Strong(o)] ELSE 0
      BY <1>5, <1>6, <2>1, Zenon
    <3>2. batch[Strong(o)] \in Nat
      BY <1>4, <2>1, Zenon
    <3> QED
      BY <1>1, <2>2, <3>1, <3>2 DEF RefsOf, Deferred, Strong
  <2>6. f \in [Threads -> Nat] /\ f[1] = batch[Strong(o)] /\ \A u \in Threads \ {1} : f[u] = 0
    BY <1>1, <1>4, <2>1, <2>5
  <2>7. SumFunction(h) = batch[Strong(o)]
    BY <1>4, <2>1, Zenon
  <2> HIDE DEF f, g, h
  <2>8. SumFunction(f) = f[1]
    BY <1>1, <2>6, ThreadsFinite, SumOfOne, Zenon
  <2> QED
    BY <2>4, <2>6, <2>7, <2>8, Zenon DEF f, g
<1> QED
  BY <1>1, <1>2, <1>6, <1>7, <1>8, <1>9, DrainStep, Zenon

LEMMA DrainDoneKeeps ==
  ASSUME IInv, DrainDone, UNCHANGED <<live, ref_cnt, rc>> PROVE IInv'
<1>1. /\ TypeOK /\ Locals /\ 1 \in Threads /\ local[1].phase = "drain"
      /\ local[1].deferred = NoEntries /\ NothingDeferred
      /\ local' = [local EXCEPT ![1].phase = "drained"]
      /\ UNCHANGED <<cell, op, announcement, snapshot_announcements, live, ref_cnt, rc>>
  BY ThreadsFinite, Zenon DEF DrainDone, IInv
<1>2. /\ \A l \in Roots : cell[l] = null
      /\ \A t \in Threads : /\ op[t].pc = "idle" /\ Held(t) = {} /\ Ending(local[t])
                            /\ local[t].deferred = NoEntries /\ LocalOK(local[t])
  BY <1>1, Zenon DEF Draining, Ending, IInv, Locals
<1>3. PICK m, n : m = local[1] /\ n = [m EXCEPT !.phase = "drained"]
  BY Zenon
<1>4. /\ n \in Local /\ n.phase = "drained" /\ n.deferred = m.deferred
      /\ n.deferred_destructs = m.deferred_destructs /\ n.announced = m.announced
  BY <1>1, <1>2, <1>3 DEF LocalOK, Local
<1>5. /\ local' \in [Threads -> Local] /\ local'[1] = n
      /\ \A t \in Threads \ {1} : local'[t] = local[t]
  BY <1>1, <1>3, <1>4, TypeView, Zenon
<1>6. \A t \in Threads : LocalOK(local'[t])
  BY <1>1, <1>2, <1>3, <1>4, <1>5, Zenon DEF LocalOK
<1>7. Draining'
  <2>1. \A t \in Threads : Held(t)' = Held(t)
    BY <1>1, Zenon DEF Held, Counted, Snapshots
  <2>2. NothingDeferred'
    BY <1>1, <1>3, <1>4, <1>5, Zenon DEF NothingDeferred
  <2> QED
    BY <1>1, <1>2, <1>3, <1>4, <1>5, <2>1, <2>2 DEF Draining, Ending, Roots
<1>8. \A o \in Objects : [t \in Threads |-> RefsOf(t, o)'] = [t \in Threads |-> RefsOf(t, o)]
  <2>1. \A o \in Objects, t \in Threads : RefsOf(t, o)' = RefsOf(t, o)
    BY <1>1, <1>3, <1>4, <1>5, Zenon DEF RefsOf, Deferred, OldRef
  <2> QED
    BY <2>1, Zenon
<1> QED
  BY <1>1, <1>2, <1>5, <1>6, <1>7, <1>8, DrainStep, Zenon

-----------------------------------------------------------------------------
LEMMA Begin == Init => IInv
<1> SUFFICES ASSUME Init PROVE IInv
  BY Zenon
<1>1. /\ cell = [l \in Locations |-> null] /\ op = [t \in Threads |-> Idle]
      /\ announcement = [t \in Threads |-> null]
      /\ snapshot_announcements = [t \in Threads |-> [s \in Slots |-> null]]
      /\ local = [t \in Threads |-> InitialLocal] /\ live = {}
      /\ ref_cnt = [o \in Objects |-> 0] /\ rc = [t \in Threads |-> EmptyBag]
  BY Zenon DEF Init, ManagerInit
<1>2. EmptyBag \in [Objects -> Nat] /\ NoEntries \in [Entries -> Nat] /\ null \in Ptrs
      /\ (\A o \in Objects : EmptyBag[o] = 0) /\ (\A e \in Entries : NoEntries[e] = 0)
  BY Zenon DEF EmptyBag, NoEntries, Ptrs
<1>3. /\ InitialLocal \in Local /\ LocalOK(InitialLocal) /\ InitialLocal.phase = "off"
      /\ InitialLocal.deferred = NoEntries /\ InitialLocal.deferred_destructs = NoEntries
  BY <1>2, Zenon DEF InitialLocal, Local, LocalOK
<1>4. TypeOK /\ Locals
  BY <1>1, <1>2, <1>3, IdleRecord, TypeView, Zenon DEF Locals
<1>5. /\ \A t \in Threads : op[t].pc = "idle" /\ op[t].loc = null /\ op[t].slot = 0 /\ Held(t) = {}
      /\ Calls
  <2>1. \A t \in Threads : op[t].pc = "idle" /\ op[t].loc = null /\ op[t].slot = 0
    BY <1>1, IdleRecord, Zenon
  <2>2. \A t \in Threads : Snapshots(t) = {} /\ Counted(t) = {}
    BY <1>1, <1>2 DEF Snapshots, Counted
  <2> QED
    BY <1>1, <2>1, <2>2, ManagerAssumption, Zenon DEF Held, Calls, CallOK, Acquiring, Protect
<1>6. DeadFields /\ Living /\ Draining
  BY <1>1, <1>3, ThreadsFinite DEF DeadFields, Fields, Living, Draining, Ending
<1>7. Guarded
  BY <1>4, <1>5, NothingProtected, Zenon
<1>8. ASSUME NEW o \in Objects PROVE ref_cnt[o] + Uncounted(o) = References(o)
  <2> DEFINE f == [t \in Threads |-> RefsOf(t, o)]
  <2>1. Cells(o) = {}
    BY <1>1, ManagerAssumption, Zenon DEF Cells
  <2>2. {t \in Threads : op[t].pc \in {"store_inc", "cas_inc"} /\ op[t].ptr = o} = {}
    BY <1>5, Zenon
  <2>3. \A t \in Threads : RefsOf(t, o) = 0
    BY <1>1, <1>2, <1>3, <1>5, StrongView DEF RefsOf, Deferred, OldRef, Bit, Strong
  <2>4. f \in [Threads -> Nat] /\ \A t \in Threads : f[t] = 0
    BY <2>3
  <2>5. References(o) = Cardinality(Cells(o)) + SumFunction(f)
    BY Zenon DEF References, Cells, RefsOf, OldRef, Bit
  <2> HIDE DEF f
  <2>6. SumFunction(f) = 0
    BY <2>4, ThreadsFinite, SumOfOne
  <2> QED
    BY <1>1, <2>1, <2>2, <2>5, <2>6, FS_EmptySet, Zenon DEF Uncounted
<1> QED
  BY <1>4, <1>5, <1>6, <1>7, <1>8, Zenon DEF IInv, Exact

LEMMA Stutter ==
  ASSUME IInv, UNCHANGED vars PROVE IInv'
<1>1. /\ TypeOK /\ Locals /\ Draining /\ 1 \in Threads /\ local' = local
      /\ UNCHANGED <<cell, op, announcement, snapshot_announcements, live, ref_cnt, rc>>
  BY ThreadsFinite, Zenon DEF IInv, vars
<1>2. Listed(1, null, null) /\ local' \in [Threads -> Local]
  BY <1>1, NothingRetired, TypeView, Zenon
<1>3. Draining'
  <2>1. \A t \in Threads : Held(t)' = Held(t)
    BY <1>1, Zenon DEF Held, Counted, Snapshots
  <2>2. NothingDeferred' <=> NothingDeferred
    BY <1>1, Zenon DEF NothingDeferred
  <2> QED
    BY <1>1, <2>1, <2>2, Zenon DEF Draining, Ending, Roots
<1> QED
  BY <1>1, <1>2, <1>3, CollectKeeps, Zenon

LEMMA Step ==
  ASSUME ExchangedNeverCleared, IInv, [Next]_vars PROVE IInv'
<1>1. ASSUME NEW t \in Threads, ManagerStep(t), UNCHANGED <<live, ref_cnt, rc>> PROVE IInv'
  <2>1. CASE AcquireLoad(t) \/ AcquireAnnounce(t) \/ AcquireCheck(t) \/ Release(t)
    BY <1>1, <2>1, AcquireLoadKeeps, AcquireAnnounceKeeps, AcquireCheckKeeps, ReleaseKeeps, Zenon
  <2>2. CASE ProtectLoad(t) \/ ProtectNull(t) \/ ProtectAnnounce(t) \/ ProtectCheck(t)
    BY <1>1, <2>2, ProtectLoadKeeps, ProtectNullKeeps, ProtectAnnounceKeeps, ProtectCheckKeeps, Zenon
  <2>3. CASE ScanStep(t) \/ ScanDone(t)
    BY <1>1, <2>3, ScanStepKeeps, ScanDoneKeeps, Zenon
  <2> QED
    BY <1>1, <2>1, <2>2, <2>3, Zenon DEF ManagerStep
<1>2. ASSUME NEW t \in Threads, Proceed(t) PROVE IInv'
  <2>1. CASE Drain /\ UNCHANGED <<live, ref_cnt, rc>>
    BY <2>1, DrainBatchKeeps, DrainDoneKeeps, Zenon DEF Drain
  <2>2. CASE Eject(t) \/ LoadIncrement(t) \/ StoreIncrement(t)
    BY <2>2, EjectKeeps, LoadIncrementKeeps, StoreIncrementKeeps, Zenon
  <2>3. CASE CasExchange(t) \/ CasIncrement(t)
    BY <2>3, CasExchangeKeeps, CasIncrementKeeps, Zenon
  <2> QED
    BY <1>1, <1>2, <2>1, <2>2, <2>3, Zenon DEF Proceed
<1>3. ASSUME NEW t \in Threads, Call(t) PROVE IInv'
  <2>1. CASE MakeShared(t) \/ CopyToRc(t) \/ ClearRc(t) \/ ClearSnapshot(t)
    BY <2>1, MakeSharedKeeps, CopyToRcKeeps, ClearRcKeeps, ClearSnapshotKeeps, Zenon
  <2>2. CASE Load(t) \/ GetSnapshot(t) \/ StoreRc(t) \/ StoreSnapshot(t)
    BY <2>2, LoadKeeps, GetSnapshotKeeps, StoreRcKeeps, StoreSnapshotKeeps, Zenon
  <2>3. CASE CompareAndSwap(t) \/ CompareAndSwapMove(t) \/ Exchange(t)
    BY <2>3, CompareAndSwapKeeps, CompareAndSwapMoveKeeps, ExchangeKeeps, Zenon
  <2> QED
    BY <1>3, <2>1, <2>2, <2>3, Zenon DEF Call
<1>4. CASE Exited \/ UNCHANGED vars
  BY <1>4, Stutter, Zenon DEF Exited
<1> QED
  BY <1>2, <1>3, <1>4, ExitKeeps, Zenon DEF Next

\* The counts, the lists and the announcements fit together in every state.
THEOREM Inductive ==
  ASSUME ExchangedNeverCleared PROVE Spec => []IInv
<1>1. IInv /\ [Next]_vars => IInv'
  BY Step, Zenon
<1> QED
  BY <1>1, Begin, PTL DEF Spec

\* The variables keep their types: in particular no reference count, which the
\* code keeps in an unsigned word, is decremented below zero.
THEOREM TypeCorrect ==
  ASSUME ExchangedNeverCleared PROVE Spec => []TypeOK
<1>1. IInv => TypeOK
  BY Zenon DEF IInv
<1> QED
  BY <1>1, Inductive, PTL

LEMMA UsesLive == IInv => NoUseAfterFree
<1> SUFFICES ASSUME IInv, NEW t \in Threads, NEW o \in Uses(t) PROVE o \in live
  BY Zenon DEF NoUseAfterFree
<1>1. TypeOK /\ Locals /\ Calls /\ CallOK(t) /\ Exact /\ Living /\ Guarded
  BY Zenon DEF IInv, Calls
<1>2. CASE o \in Held(t) \/ o \in {op[t].loc} \cap Objects
  BY <1>1, <1>2, HeldLives, Zenon DEF CallOK
<1>3. CASE op[t].pc \in {"load_inc", "store_inc", "cas_inc"} /\ o = op[t].ptr
  <2>1. o \in Objects
    BY <1>1, <1>3, TypeView DEF CallOK, Snapshots, Ptrs
  <2>2. HasSlot(t, Protecting(o))
    BY <1>1, <1>3, <2>1, Protected, Zenon DEF CallOK, Installs
  <2> QED
    BY <1>1, <2>1, <2>2, Alive, Zenon DEF HasSlot
<1>4. CASE o \in Objects /\ Deferred(t, o) > 0
  <2>1. RefsOf(t, o) > 0
    BY <1>1, <1>4, Numbers DEF Countable, RefsOf
  <2> QED
    BY <1>1, <1>4, <2>1, Alive
<1> QED
  BY <1>2, <1>3, <1>4, Zenon DEF Uses

\* No thread dereferences, counts or retires an object that is destroyed, for
\* any number of threads, slots, objects and atomic_rc_ptrs.
THEOREM NeverUsedAfterFree ==
  ASSUME ExchangedNeverCleared PROVE Spec => []NoUseAfterFree
BY Inductive, UsesLive, PTL

\* At every moment the count of an object is the number of references to it
\* less the ones on their way, and the object exists as long as its count says.
THEOREM CountsAreExact ==
  ASSUME ExchangedNeverCleared PROVE Spec => []CountIsExact
<1>1. IInv => CountIsExact
  BY Zenon DEF IInv, Exact, Living, CountIsExact
<1> QED
  BY <1>1, Inductive, PTL

LEMMA DrainedEmpty == IInv => DrainLeavesNothing
<1> SUFFICES ASSUME IInv, local[1].phase = "drained"
             PROVE  NothingDeferred /\ \A o \in live : \E l \in Fields \cap live : cell[l] = o
  BY Zenon DEF DrainLeavesNothing
<1>1. TypeOK /\ Countable /\ NothingDeferred
  BY Numbers, Zenon DEF IInv, Draining
<1>2. /\ \A l \in Roots : cell[l] = null
      /\ \A t \in Threads : op[t].pc = "idle" /\ Held(t) = {} /\ local[t].deferred = NoEntries
  BY ThreadsFinite, Zenon DEF IInv, Draining, Ending
<1>3. ASSUME NEW o \in live PROVE \E l \in Fields \cap live : cell[l] = o
  <2> DEFINE f == [t \in Threads |-> RefsOf(t, o)]
  <2>1. o \in Objects /\ Strong(o) \in Entries /\ o # null
    BY <1>1, TypeView, StrongView, ManagerAssumption, Zenon
  <2>2. \A t \in Threads : RefsOf(t, o) = 0
    <3>1. \A t \in Threads : Deferred(t, o) = 0
      BY <1>1, <1>2, <2>1 DEF NothingDeferred, Deferred, Strong, NoEntries
    <3>2. \A t \in Threads : rc[t][o] = 0
      BY <1>1, <1>2, <2>1 DEF Countable, Held, Counted
    <3> QED
      BY <1>2, <3>1, <3>2 DEF RefsOf, OldRef, Bit
  <2>3. f \in [Threads -> Nat] /\ \A t \in Threads : f[t] = 0
    BY <2>2
  <2>4. References(o) = Cardinality(Cells(o)) + SumFunction(f)
    BY Zenon DEF References, Cells, RefsOf, OldRef, Bit
  <2> HIDE DEF f
  <2>5. SumFunction(f) = 0
    BY <2>3, ThreadsFinite, SumOfOne
  <2>6. Cells(o) # {}
    <3>1. References(o) > 0
      <4>1. ref_cnt[o] > 0 /\ ref_cnt[o] \in Nat /\ ref_cnt[o] + Uncounted(o) = References(o)
        BY <1>1, <2>1, TypeView, Zenon DEF IInv, Living, Exact
      <4>2. Uncounted(o) \in Nat
        BY ThreadsFinite, FS_Subset, FS_CardinalityType, Zenon DEF Uncounted
      <4> QED
        BY <4>1, <4>2
    <3> QED
      BY <2>4, <2>5, <3>1, FS_EmptySet
  <2>7. PICK l \in Locations : cell[l] = o
    BY <2>6, Zenon DEF Cells
  <2>8. l \in Fields
    BY <1>2, <2>1, <2>7, Zenon DEF Roots, Fields
  <2>9. l \in live
    BY <2>1, <2>7, <2>8, Zenon DEF IInv, DeadFields
  <2> QED
    BY <2>7, <2>8, <2>9, Zenon
<1> QED
  BY <1>1, <1>3, Zenon

\* When ~acquire_retire returns nothing is deferred, however long the chains of
\* objects that its decrements destroy, and only cycles are left.
THEOREM DrainIsComplete ==
  ASSUME ExchangedNeverCleared PROVE Spec => []DrainLeavesNothing
BY Inductive, DrainedEmpty, PTL

-----------------------------------------------------------------------------
\* The lists of every thread, between two steps.
Limited == local \in [Threads -> Local] /\ \A t \in Threads : LocalOK(local[t]) /\ Bounded(local[t])

\* A step in which only the list of one thread changes.
LEMMA LimitedStep ==
  ASSUME Limited, NEW t \in Threads, NEW n, LocalOK(n), Bounded(n), local' = [local EXCEPT ![t] = n]
  PROVE  Limited'
<1>1. n \in Local
  BY Zenon DEF LocalOK
<1>2. /\ local' \in [Threads -> Local] /\ local'[t] = n
      /\ \A u \in Threads \ {t} : local'[u] = local[u]
  BY <1>1, Zenon DEF Limited
<1>3. ASSUME NEW u \in Threads PROVE LocalOK(local'[u]) /\ Bounded(local'[u])
  <2>1. CASE u = t
    BY <1>2, <2>1, Zenon
  <2>2. CASE u # t
    BY <1>2, <2>2, Zenon DEF Limited
  <2> QED BY <2>1, <2>2, Zenon
<1> QED BY <1>2, <1>3, Zenon DEF Limited, LocalOK, Bounded, ScanLength, threshold

\* decrement_ref_cnt, of an eject or of rc_ptr::clear.
LEMMA DecrementLimited ==
  ASSUME Limited, NEW t \in Threads, NEW o, NEW m, LocalOK(m), Bounded(m), m.phase # "scan",
         DecrementRefCnt(t, o, m)
  PROVE  Limited'
<1>1. CASE local' = [local EXCEPT ![t] = FinishCollecting(m)]
  BY <1>1, FinishBounded, LimitedStep, Zenon
<1>2. CASE Destroy(t, o, m)
  <2>1. PICK p : local' = [local EXCEPT ![t] = FinishCollecting(RetireRef(m, p))]
    BY <1>2, Zenon DEF Destroy
  <2>2. LocalOK(RetireRef(m, p)) /\ Bounded(RetireRef(m, p))
    BY RetireBounded, Zenon DEF RetireRef
  <2> QED BY <2>1, <2>2, FinishBounded, LimitedStep, Zenon
<1> QED BY <1>1, <1>2, Zenon DEF DecrementRefCnt

\* ~acquire_retire ends the collections and takes the lists.
LEMMA DrainLimited ==
  ASSUME Limited, DrainStart \/ DrainBatch \/ DrainDone PROVE Limited'
<1>1. ASSUME NEW t \in Threads, DrainStart
      PROVE  LocalOK(local'[t]) /\ Bounded(local'[t])
  <2> DEFINE m == local[t]
             n == [m EXCEPT !.phase = "drain"]
  <2>1. local'[t] = n
    BY <1>1, Zenon DEF DrainStart
  <2>2. m \in Local /\ LocalOK(m) /\ Bounded(m) /\ m.phase = "off"
    BY <1>1, Zenon DEF Limited, DrainStart, At
  <2>3. /\ n \in Local /\ n.phase = "drain" /\ n.announced = m.announced
        /\ n.deferred_destructs = m.deferred_destructs /\ n.amortized_work = m.amortized_work
    BY <2>2, Zenon DEF Local
  <2> HIDE DEF m, n
  <2> QED BY <2>1, <2>2, <2>3, Zenon DEF LocalOK, Bounded
<1>2. ASSUME NEW t \in Threads, DrainBatch
      PROVE  LocalOK(local'[t]) /\ Bounded(local'[t])
  <2> DEFINE m == local[t]
             sum == [e \in Entries |-> SumFunction([u \in Threads |-> local[u].deferred_destructs[e]])]
  <2>1. LocalOK(m)
    BY <1>2, Zenon DEF Limited
  <2>2. PICK all : all = IF t # 1 THEN m.deferred ELSE sum
    BY Zenon
  <2>3. all \in [Entries -> Nat]
    <3>1. ASSUME NEW e \in Entries PROVE sum[e] \in Nat
      <4> DEFINE g == [u \in Threads |-> local[u].deferred_destructs[e]]
      <4>0. \A u \in Threads : local[u].deferred_destructs \in [Entries -> Nat]
        BY Zenon DEF Limited, Local
      <4>1. g \in [Threads -> Nat]
        BY <4>0, Zenon
      <4> HIDE DEF g
      <4>2. SumFunction(g) \in Nat
        BY <4>1, ThreadsFinite, Sizes, Zenon DEF BagSize
      <4> QED BY <4>2, Zenon DEF g
    <3>2. m.deferred \in [Entries -> Nat]
      BY Zenon DEF Limited, Local
    <3> QED BY <2>2, <3>1, <3>2, Zenon
  <2>4. PICK n : n = [m EXCEPT !.deferred_destructs = NoEntries, !.deferred = all]
    BY Zenon
  <2>5. local'[t] = n /\ local[1].phase = "drain"
    BY <1>2, <2>2, <2>4, Zenon DEF DrainBatch
  <2>6. m \in Local /\ Bounded(m) /\ NoEntries \in [Entries -> Nat]
    BY Zenon DEF Limited, NoEntries
  <2>7. /\ n \in Local /\ n.phase = m.phase /\ n.at = m.at /\ n.announced = m.announced
        /\ n.deferred_destructs = NoEntries /\ n.deferred = all /\ n.amortized_work = m.amortized_work
    <3> HIDE DEF m
    <3> QED BY <2>3, <2>4, <2>6, Zenon DEF Local
  <2>8. LocalOK(n)
    BY <2>1, <2>2, <2>5, <2>7, Zenon DEF LocalOK
  <2>9. BagSize(NoEntries) = 0 /\ m.amortized_work \in Nat
    BY <2>6, Finite, Sizes, Zenon DEF Local, NoEntries
  <2>10. 0 <= m.amortized_work + 2 * ScanLength
    BY <2>9, Finite
  <2> HIDE DEF m
  <2> QED BY <2>5, <2>6, <2>7, <2>8, <2>9, <2>10, Zenon DEF Bounded
<1>3. ASSUME DrainDone PROVE Limited'
  <2> DEFINE m == local[1]
             n == [m EXCEPT !.phase = "drained"]
  <2>1. 1 \in Threads /\ m \in Local /\ LocalOK(m) /\ Bounded(m) /\ m.phase = "drain"
    BY <1>3, ThreadsFinite, Zenon DEF Limited, DrainDone
  <2>2. local' = [local EXCEPT ![1] = n]
    BY <1>3, Zenon DEF DrainDone
  <2>3. /\ n \in Local /\ n.phase = "drained" /\ n.announced = m.announced
        /\ n.deferred_destructs = m.deferred_destructs /\ n.amortized_work = m.amortized_work
    BY <2>1, Zenon DEF Local
  <2> HIDE DEF m, n
  <2>4. LocalOK(n) /\ Bounded(n)
    BY <2>1, <2>3, Zenon DEF LocalOK, Bounded
  <2> QED BY <2>1, <2>2, <2>4, LimitedStep, Zenon
<1>4. ASSUME DrainStart \/ DrainBatch PROVE Limited'
  <2>1. DOMAIN local' = Threads /\ local' = [t \in Threads |-> local'[t]]
    BY <1>4, Zenon DEF DrainStart, DrainBatch
  <2>2. \A t \in Threads : LocalOK(local'[t]) /\ Bounded(local'[t])
    BY <1>1, <1>2, <1>4, Zenon
  <2>3. local' \in [Threads -> Local]
    BY <2>1, <2>2, Zenon DEF LocalOK
  <2> QED BY <2>2, <2>3, Zenon DEF Limited, LocalOK, Bounded, ScanLength, threshold
<1> QED BY <1>3, <1>4, Zenon

\* Every step of the pointers and the manager.
LEMMA NextLimited == Limited /\ [Next]_vars => Limited'
<1> SUFFICES ASSUME Limited, [Next]_vars PROVE Limited'
  BY Zenon
<1>0. ASSUME UNCHANGED local PROVE Limited'
  BY <1>0, Zenon DEF Limited, LocalOK, Bounded, ScanLength, threshold
<1>1. ASSUME NEW t \in Threads PROVE LocalOK(local[t]) /\ Bounded(local[t]) /\ local[t] \in Local
  BY <1>1, Zenon DEF Limited
<1>2. ASSUME NEW t \in Threads, local[t].phase # "scan",
             \E p : local' = [local EXCEPT ![t] = RetireRef(@, p)]
      PROVE  Limited'
  <2>1. PICK p : local' = [local EXCEPT ![t] = RetireRef(@, p)]
    BY <1>2, Zenon
  <2>2. local' = [local EXCEPT ![t] = RetireRef(local[t], p)]
    BY <2>1, Zenon
  <2> QED BY <1>1, <1>2, <2>2, RetireBounded, LimitedStep, Zenon DEF RetireRef
<1>3. ASSUME NEW t \in Threads, ScanStep(t) PROVE Limited'
  <2>1. PICK m, p : m = local[t] /\ p = SlotAt(m.at)
    BY Zenon
  <2>2. PICK n : n = [m EXCEPT !.announced = Announce(@, p), !.at = @ + 1]
    BY Zenon
  <2>3. m.phase = "scan" /\ m.at <= ScanLength /\ local' = [local EXCEPT ![t] = n]
    BY <1>3, <2>1, <2>2, Zenon DEF ScanStep
  <2>4. LocalOK(n) /\ Bounded(n)
    BY <1>1, <2>1, <2>2, <2>3, ScanBounded, Zenon
  <2> QED BY <2>3, <2>4, LimitedStep, Zenon
<1>4. ASSUME NEW t \in Threads, ScanDone(t) PROVE Limited'
  <2>1. OneKind
    BY StrongView, Zenon DEF OneKind
  <2> QED BY <1>1, <1>4, <2>1, FilterBounded, LimitedStep, Zenon DEF ScanDone
<1>5. ASSUME NEW t \in Threads, Eject(t) PROVE Limited'
  <2>1. PICK e \in Ejectable(t) : DecrementRefCnt(t, e[1], Without(local[t], e))
    BY <1>5, Zenon DEF Eject
  <2>2. PICK m, n : m = local[t] /\ n = Without(m, e)
    BY Zenon
  <2>3. e \in Entries /\ m.phase \in {"eject", "drain"} /\ m.deferred[e] > 0
    BY <2>2, Zenon DEF Ejectable
  <2>4. m \in Local /\ LocalOK(m) /\ Bounded(m)
    BY <1>1, <2>2, Zenon
  <2>5. TakeFrom(m.deferred, e) \in [Entries -> Nat]
    BY <2>3, <2>4 DEF TakeFrom, Local
  <2>6. /\ n \in Local /\ n.phase = m.phase /\ n.announced = m.announced
        /\ n.deferred_destructs = m.deferred_destructs /\ n.amortized_work = m.amortized_work
    BY <2>2, <2>4, <2>5, Zenon DEF Without, Local
  <2>7. LocalOK(n) /\ Bounded(n) /\ n.phase # "scan"
    BY <2>3, <2>4, <2>6, Zenon DEF LocalOK, Bounded
  <2> QED BY <2>1, <2>2, <2>7, DecrementLimited, Zenon
<1>6. ASSUME NEW t \in Threads, ClearRc(t) PROVE Limited'
  <2>1. PICK o : DecrementRefCnt(t, o, local[t]) /\ local[t].phase # "scan"
    BY <1>6, Zenon DEF ClearRc, CanCall, At
  <2> QED BY <1>1, <2>1, DecrementLimited, Zenon
<1>7. ASSUME NEW t \in Threads, Proceed(t) PROVE Limited'
  <2>1. CASE ManagerStep(t)
    BY <1>0, <1>3, <1>4, <2>1, Zenon
       DEF ManagerStep, AcquireLoad, AcquireAnnounce, AcquireCheck, Release,
           ProtectLoad, ProtectNull, ProtectAnnounce, ProtectCheck
  <2>2. CASE Drain
    BY <2>2, DrainLimited, Zenon DEF Drain
  <2>3. CASE LoadIncrement(t) \/ CasIncrement(t)
    BY <1>0, <2>3, Zenon DEF LoadIncrement, CasIncrement
  <2>4. CASE StoreIncrement(t)
    BY <1>2, <2>4, Zenon DEF StoreIncrement, At
  <2>5. CASE CasExchange(t)
    BY <1>0, <1>2, <2>5, Zenon DEF CasExchange, At
  <2> QED BY <1>5, <1>7, <2>1, <2>2, <2>3, <2>4, <2>5, Zenon DEF Proceed
<1>8. ASSUME NEW t \in Threads, Call(t) PROVE Limited'
  <2>1. CASE \/ MakeShared(t) \/ CopyToRc(t) \/ ClearSnapshot(t) \/ Load(t) \/ GetSnapshot(t)
             \/ StoreSnapshot(t) \/ CompareAndSwap(t) \/ Exchange(t)
    BY <1>0, <2>1, Zenon DEF MakeShared, CopyToRc, ClearSnapshot, Load, GetSnapshot,
       StoreSnapshot, CompareAndSwap, Exchange
  <2>2. CASE StoreRc(t)
    BY <1>2, <2>2, Zenon DEF StoreRc, CanCall, At
  <2>3. CASE CompareAndSwapMove(t)
    BY <1>2, <2>3, Zenon DEF CompareAndSwapMove, CanCall, At
  <2> QED BY <1>6, <1>8, <2>1, <2>2, <2>3, Zenon DEF Call
<1>9. CASE Exit
  BY <1>9, DrainLimited, Zenon DEF Exit
<1>10. CASE Exited \/ UNCHANGED vars
  BY <1>0, <1>10, Zenon DEF Exited, vars
<1> QED BY <1>7, <1>8, <1>9, <1>10, Zenon DEF Next

\* Between two collections a thread holds back no more than the work that it has
\* not paid for and two decrements per announcement slot, for any number of
\* threads and slots and whatever the client does: the list of
\* work_toward_deferred_decrements is bounded.
THEOREM GarbageBounded == Spec => []GarbageIsBounded
<1>1. Init => Limited
  <2> SUFFICES ASSUME Init PROVE Limited
    BY Zenon
  <2> DEFINE m == InitialLocal
  <2>1. EmptyBag \in [Objects -> Nat] /\ NoEntries \in [Entries -> Nat]
    BY DEF EmptyBag, NoEntries
  <2>2. /\ m \in Local /\ m.phase = "off" /\ m.amortized_work = 0 /\ m.announced = EmptyBag
        /\ m.deferred_destructs = NoEntries /\ m.deferred = NoEntries
    BY <2>1 DEF InitialLocal, Local
  <2>3. BagSize(NoEntries) = 0
    BY <2>1, Finite, Sizes, Zenon DEF NoEntries
  <2>4. local = [t \in Threads |-> m]
    BY Zenon DEF Init, ManagerInit
  <2> HIDE DEF m
  <2>5. LocalOK(m) /\ Bounded(m)
    BY <2>2, <2>3, Finite DEF LocalOK, Bounded
  <2> QED BY <2>2, <2>4, <2>5, Zenon DEF Limited
<1>2. Limited => GarbageIsBounded
  BY Zenon DEF Limited, Bounded, GarbageIsBounded
<1> QED BY <1>1, <1>2, NextLimited, PTL DEF Spec
=============================================================================
