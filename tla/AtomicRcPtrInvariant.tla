------------------------ MODULE AtomicRcPtrInvariant ------------------------
(***************************************************************************)
(* Deferred reference counting is safe and exact for any number of         *)
(* threads, objects, atomic_rc_ptrs and snapshot slots, when no thread     *)
(* clears rc_ptrs it may have got from an exchange: the invariant, and the *)
(* steps of the pointer operations, which keep it.                         *)
(***************************************************************************)
EXTENDS AtomicRcPtr, AcquireRetireProofs

-----------------------------------------------------------------------------
\* The invariant.

\* The solver answers at once, but in a module of this size its answer may be
\* read late.
USE SMTT(30)

\* What the proofs ask of the client: a thread that exchanges puts what it gets
\* into an atomic_rc_ptr again.  An rc_ptr that came from an exchange can be the
\* last reference to an object that another thread has just announced, and
\* rc_ptr::clear does not look at the announcements.
ExchangedNeverCleared == \A t \in Threads : ~("exchange" \in Ops[t] /\ "clear" \in Ops[t])

NeverClears(t) == "clear" \notin Ops[t]

Strong(o) == <<o, "decrement_strong_count">>

\* Slot s of thread t holds o and its check has succeeded, or was not needed.
Shields(t, s, o) ==
  IF s = 0 THEN announcement[t] = o /\ op[t].pc \in {"load_inc", "cas", "cas_inc", "release"}
  ELSE snapshot_announcements[t][s] = o /\ s # op[t].slot

\* The slots that protect o.
Protecting(o) == {i \in 1..ScanLength : Shields(SlotThread(i), SlotNumber(i), o)}

HasSlot(t, Q) == \E i \in Q : SlotThread(i) = t

\* The thread has put o into an atomic_rc_ptr and not counted it yet.
Installs(t, o) == op[t].pc \in {"store_inc", "cas_inc"} /\ op[t].ptr = o

\* The thread is in an operation that reserved an rc_ptr of its own.
Reserves(t, Q) ==
  /\ op[t].pc \in {"cas", "cas_inc", "release"}
  /\ \E i \in Q : SlotThread(i) = t /\ SlotNumber(i) = 0

\* References to o that the thread will not give up as long as the slots in Q
\* hold o: in its lists, in rc_ptrs, and in the old of a store.
RcKept(t, Q, o) == IF NeverClears(t) \/ Reserves(t, Q) THEN rc[t][o] ELSE 0
OldRef(t, o) == Bit(op[t].pc = "store_inc" /\ op[t].old = o)
KeptBy(t, Q, o) == KeptOf(local[t], Q, Strong(o)) + RcKept(t, Q, o) + OldRef(t, o)

\* All references to o that the thread has.
RefsOf(t, o) == rc[t][o] + Deferred(t, o) + OldRef(t, o)

Cells(o) == {l \in Locations : cell[l] = o}
Lasting(Q, o) == Cardinality(Cells(o)) + SumFunction([t \in Threads |-> KeptBy(t, Q, o)])
Covered(Q, o) == {t \in Threads : Installs(t, o) /\ HasSlot(t, Q)}

\* However many of the slots that protect o are given up, those that are left
\* keep a reference for each thread of theirs that has not counted o yet, and
\* one more.
Guarded ==
  \A o \in Objects : \A Q \in SlotSets :
    Q \subseteq Protecting(o) => Lasting(Q, o) > Cardinality(Covered(Q, o))

Exact == \A o \in Objects : ref_cnt[o] + Uncounted(o) = References(o)

Locals == \A t \in Threads : LocalOK(local[t])

Acquiring == {"acquire_load", "acquire_announce", "acquire_check"}
Protect == {"protect_load", "protect_null", "protect_announce", "protect_check"}

\* What a thread knows inside its operation.
CallOK(t) ==
  /\ op[t].loc \in Objects => op[t].loc \in Held(t)
  /\ op[t].pc \in Acquiring \cup Protect \cup {"cas"} => op[t].loc \in Locations
  /\ op[t].pc \in {"idle", "release", "store_inc", "cas_inc"} => op[t].loc = null
  /\ op[t].pc \in Protect <=> op[t].slot # 0
  /\ op[t].pc \in Acquiring => op[t].then = "load_inc"
  /\ op[t].pc \in Protect => op[t].then = "idle"
  /\ op[t].pc \in Protect \cup {"idle", "store_inc"} => announcement[t] = null
  /\ op[t].pc = "acquire_check" => announcement[t] = op[t].ptr
  /\ op[t].pc = "protect_check" => /\ op[t].ptr \in Objects
                                   /\ snapshot_announcements[t][op[t].slot] = op[t].ptr
  /\ op[t].pc = "protect_announce" => op[t].ptr \in Objects
  /\ op[t].pc = "load_inc" => op[t].ptr \in Objects /\ announcement[t] = op[t].ptr
  /\ op[t].pc = "store_inc" => op[t].ptr \in Snapshots(t)
  /\ op[t].pc \in {"cas", "cas_inc"} => /\ announcement[t] \in {null, op[t].ptr}
                                        /\ op[t].ptr \in Snapshots(t) \cup {announcement[t]}
  /\ op[t].pc = "cas_inc" => op[t].ptr \in Objects

Calls == \A t \in Threads : CallOK(t)

\* The member of a destroyed object is empty.
DeadFields == \A l \in Fields \ live : cell[l] = null

\* The destructor of the manager runs alone, and nobody holds anything.
Draining ==
  /\ (\E t \in Threads : Ending(local[t])) =>
       /\ \A l \in Roots : cell[l] = null
       /\ \A t \in Threads : /\ Ending(local[t]) /\ op[t].pc = "idle" /\ Held(t) = {}
                             /\ t # 1 => local[t].deferred = NoEntries
  /\ local[1].phase = "drained" => NothingDeferred /\ local[1].deferred = NoEntries

Living == \A o \in Objects : o \in live <=> ref_cnt[o] > 0

IInv == TypeOK /\ Locals /\ Calls /\ DeadFields /\ Draining /\ Exact /\ Living /\ Guarded

-----------------------------------------------------------------------------
OpRecords ==
  [pc : ManagerPCs \cup PCs, then : {"idle"} \cup PCs, loc : Locations \cup {null},
   ptr : Ptrs, old : Ptrs, slot : 0..snapshot_slots]

LEMMA TypeView ==
  TypeOK <=> /\ cell \in [Locations -> Ptrs] /\ op \in [Threads -> OpRecords]
             /\ announcement \in [Threads -> Ptrs]
             /\ snapshot_announcements \in [Threads -> [Slots -> Ptrs]]
             /\ local \in [Threads -> Local]
             /\ live \subseteq Objects /\ ref_cnt \in [Objects -> Nat]
             /\ rc \in [Threads -> [Objects -> Nat]]
BY Zenon DEF TypeOK, ManagerTypeOK, OpRecords

LEMMA StrongView ==
  /\ \A o \in Objects : Strong(o) \in Entries /\ Strong(o)[1] = o
  /\ \A e \in Entries : e[1] \in Objects /\ e = Strong(e[1])
  /\ \A o, p : Strong(o) = Strong(p) <=> o = p
BY ClientAssumption DEF Strong, Entries

\* What is counted are numbers, and what is kept is part of what there is.
Countable ==
  \A o \in Objects :
    /\ IsFiniteSet(Cells(o)) /\ Cardinality(Cells(o)) \in Nat
    /\ \A t \in Threads :
         /\ RefsOf(t, o) \in Nat /\ Deferred(t, o) = Total(local[t], Strong(o))
         /\ rc[t][o] \in Nat /\ OldRef(t, o) \in Nat /\ Total(local[t], Strong(o)) \in Nat
         /\ \A Q \in SlotSets : /\ KeptBy(t, Q, o) \in Nat /\ KeptBy(t, Q, o) <= RefsOf(t, o)
                                /\ RcKept(t, Q, o) \in Nat
                                /\ KeptOf(local[t], Q, Strong(o)) \in Nat

LEMMA Numbers == TypeOK /\ Locals => Countable
<1> SUFFICES ASSUME TypeOK, Locals, NEW o \in Objects
    PROVE  /\ IsFiniteSet(Cells(o)) /\ Cardinality(Cells(o)) \in Nat
           /\ \A t \in Threads :
                /\ RefsOf(t, o) \in Nat /\ Deferred(t, o) = Total(local[t], Strong(o))
                /\ rc[t][o] \in Nat /\ OldRef(t, o) \in Nat /\ Total(local[t], Strong(o)) \in Nat
                /\ \A Q \in SlotSets : /\ KeptBy(t, Q, o) \in Nat /\ KeptBy(t, Q, o) <= RefsOf(t, o)
                                       /\ RcKept(t, Q, o) \in Nat
                                       /\ KeptOf(local[t], Q, Strong(o)) \in Nat
  BY Zenon DEF Countable
<1>1. IsFiniteSet(Cells(o)) /\ Cardinality(Cells(o)) \in Nat
  <2>1. Cells(o) \subseteq Locations
    BY Zenon DEF Cells
  <2> QED
    BY <2>1, ManagerAssumption, FS_Subset, FS_CardinalityType, Zenon
<1>2. ASSUME NEW t \in Threads
      PROVE  /\ RefsOf(t, o) \in Nat /\ Deferred(t, o) = Total(local[t], Strong(o))
             /\ rc[t][o] \in Nat /\ OldRef(t, o) \in Nat /\ Total(local[t], Strong(o)) \in Nat
             /\ \A Q \in SlotSets : /\ KeptBy(t, Q, o) \in Nat /\ KeptBy(t, Q, o) <= RefsOf(t, o)
                                    /\ RcKept(t, Q, o) \in Nat
                                    /\ KeptOf(local[t], Q, Strong(o)) \in Nat
  <2>1. rc[t][o] \in Nat /\ OldRef(t, o) \in Nat
    BY TypeView, Zenon DEF OldRef, Bit
  <2>2. Deferred(t, o) = Total(local[t], Strong(o)) /\ Total(local[t], Strong(o)) \in Nat
    <3>1. Total(local[t], Strong(o)) \in Nat
      BY StrongView, LocalView, Zenon DEF Locals
    <3> QED
      BY <3>1, StrongView, KeptView, LocalView, Zenon DEF Locals, Deferred, Total, Strong
  <2>3. ASSUME NEW Q \in SlotSets
        PROVE  /\ KeptBy(t, Q, o) \in Nat /\ KeptBy(t, Q, o) <= RefsOf(t, o)
               /\ RcKept(t, Q, o) \in Nat /\ KeptOf(local[t], Q, Strong(o)) \in Nat
    <3> DEFINE m == local[t]
               e == Strong(o)
    <3>1. m \in Local /\ e \in Entries /\ Q \in SUBSET (1..ScanLength)
      BY LocalView, StrongView, Zenon DEF Locals, SlotSets
    <3>2. KeptOf(m, Q, e) \in Nat /\ KeptOf(m, Q, e) <= Total(m, e)
      <4> HIDE DEF m, e
      <4>1. /\ m.deferred[e] \in Nat /\ m.deferred_destructs[e] \in Nat
            /\ Cap(m, Q, e[1]) \in Nat /\ KeptOf(m, Q, e) \in Nat
            /\ m.phase # "scan" => KeptOf(m, Q, e) = m.deferred_destructs[e]
            /\ m.phase = "scan" =>
                 KeptOf(m, Q, e) = m.deferred_destructs[e]
                   + (IF m.deferred[e] <= Cap(m, Q, e[1]) THEN m.deferred[e] ELSE Cap(m, Q, e[1]))
        BY <3>1, KeptView, Zenon
      <4> QED
        BY <4>1 DEF Total
    <3>3. RcKept(t, Q, o) \in Nat /\ RcKept(t, Q, o) <= rc[t][o]
      BY <2>1 DEF RcKept
    <3> QED
      BY <2>1, <2>2, <3>2, <3>3 DEF KeptBy, RefsOf
  <2> QED
    BY <2>1, <2>2, <2>3 DEF RefsOf
<1> QED
  BY <1>1, <1>2, Zenon

-----------------------------------------------------------------------------
\* A step of thread t changes nothing that belongs to another thread.
Frame(t) ==
  \A u \in Threads \ {t} :
    /\ op'[u] = op[u] /\ local'[u] = local[u] /\ rc'[u] = rc[u]
    /\ announcement'[u] = announcement[u]
    /\ snapshot_announcements'[u] = snapshot_announcements[u]

LEMMA OthersSame ==
  ASSUME NEW t \in Threads, NEW u \in Threads \ {t}, Frame(t)
  PROVE  /\ CallOK(u) => CallOK(u)'
         /\ Held(u)' = Held(u)
         /\ LocalOK(local[u]) => LocalOK(local[u])'
         /\ \A o : /\ RefsOf(u, o)' = RefsOf(u, o)
                   /\ Installs(u, o)' <=> Installs(u, o)
                   /\ \A Q : KeptBy(u, Q, o)' = KeptBy(u, Q, o)
                   /\ \A s : Shields(u, s, o)' <=> Shields(u, s, o)
<1>1. /\ op'[u] = op[u] /\ local'[u] = local[u] /\ rc'[u] = rc[u]
      /\ announcement'[u] = announcement[u]
      /\ snapshot_announcements'[u] = snapshot_announcements[u]
  BY Zenon DEF Frame
<1>2. Snapshots(u)' = Snapshots(u)
  BY <1>1, Zenon DEF Snapshots
<1>3. Held(u)' = Held(u)
  BY <1>1, <1>2, Zenon DEF Held, Counted
<1>4. CallOK(u) => CallOK(u)'
  BY <1>1, <1>2, <1>3, Zenon DEF CallOK
<1>5. LocalOK(local[u]) => LocalOK(local[u])'
  BY <1>1, Zenon DEF LocalOK
<1>6. \A o : /\ RefsOf(u, o)' = RefsOf(u, o)
             /\ Installs(u, o)' <=> Installs(u, o)
  BY <1>1, Zenon DEF RefsOf, Deferred, OldRef, Installs
<1>7. \A o, Q : KeptBy(u, Q, o)' = KeptBy(u, Q, o)
  BY <1>1, Zenon DEF KeptBy, KeptOf, RcKept, OldRef, Reserves
<1>8. \A o, s : Shields(u, s, o)' <=> Shields(u, s, o)
  BY <1>1, Zenon DEF Shields
<1> QED
  BY <1>3, <1>4, <1>5, <1>6, <1>7, <1>8, Zenon

-----------------------------------------------------------------------------
\* The counts after a step of t differ from those before by what t and the
\* atomic_rc_ptrs have more or less.
LEMMA Ledger ==
  ASSUME TypeOK, Locals, TypeOK', Locals', NEW t \in Threads, Frame(t), NEW o \in Objects
  PROVE  /\ References(o) \in Nat /\ References(o)' \in Nat /\ RefsOf(t, o) <= References(o)
         /\ References(o)' = References(o) + Cardinality(Cells(o)') - Cardinality(Cells(o))
                             + RefsOf(t, o)' - RefsOf(t, o)
         /\ Uncounted(o) \in Nat /\ Uncounted(o)' \in Nat
         /\ Uncounted(o)' = Uncounted(o) + Bit(Installs(t, o)') - Bit(Installs(t, o))
         /\ \A Q \in SlotSets :
              /\ Lasting(Q, o) \in Nat /\ Lasting(Q, o)' \in Nat
              /\ KeptBy(t, Q, o)' <= Lasting(Q, o)'
              /\ Lasting(Q, o)' = Lasting(Q, o) + Cardinality(Cells(o)') - Cardinality(Cells(o))
                                  + KeptBy(t, Q, o)' - KeptBy(t, Q, o)
              /\ Cardinality(Covered(Q, o)) \in Nat /\ Cardinality(Covered(Q, o)') \in Nat
              /\ Cardinality(Covered(Q, o)') =
                   Cardinality(Covered(Q, o)) + Bit(Installs(t, o)' /\ HasSlot(t, Q))
                                              - Bit(Installs(t, o) /\ HasSlot(t, Q))
<1>1. Countable /\ Countable'
  <2>1. (TypeOK /\ Locals => Countable)'
    BY Numbers, PTL
  <2> QED
    BY <2>1, Numbers, Zenon
<1>2. /\ References(o) \in Nat /\ References(o)' \in Nat /\ RefsOf(t, o) <= References(o)
      /\ References(o)' = References(o) + Cardinality(Cells(o)') - Cardinality(Cells(o))
                          + RefsOf(t, o)' - RefsOf(t, o)
  <2> DEFINE f == [u \in Threads |-> RefsOf(u, o)]
             g == [u \in Threads |-> RefsOf(u, o)']
  <2>1. f \in [Threads -> Nat] /\ g \in [Threads -> Nat] /\ f[t] = RefsOf(t, o) /\ g[t] = RefsOf(t, o)'
    BY <1>1, Zenon DEF Countable
  <2>2. \A u \in Threads \ {t} : f[u] = g[u]
    BY OthersSame, Zenon
  <2>3. /\ References(o) = Cardinality(Cells(o)) + SumFunction(f)
        /\ References(o)' = Cardinality(Cells(o)') + SumFunction(g)
    BY Zenon DEF References, Cells, RefsOf, OldRef, Bit
  <2> HIDE DEF f, g
  <2>4. SumFunction(f) \in Nat /\ SumFunction(g) \in Nat /\ f[t] <= SumFunction(f)
        /\ SumFunction(g) = SumFunction(f) + g[t] - f[t]
    BY <2>1, <2>2, SumUpdate, ThreadsFinite, Zenon
  <2>5. Cardinality(Cells(o)) \in Nat /\ Cardinality(Cells(o)') \in Nat
    BY <1>1, Zenon DEF Countable
  <2>6. RefsOf(t, o) \in Nat /\ RefsOf(t, o)' \in Nat
    BY <1>1, Zenon DEF Countable
  <2> QED
    BY <2>1, <2>3, <2>4, <2>5, <2>6
<1>3. /\ Uncounted(o) \in Nat /\ Uncounted(o)' \in Nat
      /\ Uncounted(o)' = Uncounted(o) + Bit(Installs(t, o)') - Bit(Installs(t, o))
  <2> DEFINE S == {u \in Threads : Installs(u, o)}
             T == {u \in Threads : Installs(u, o)'}
  <2>1. Uncounted(o) = Cardinality(S) /\ Uncounted(o)' = Cardinality(T)
    BY Zenon DEF Uncounted, Installs
  <2>2. S \ {t} = T \ {t} /\ (t \in S <=> Installs(t, o)) /\ (t \in T <=> Installs(t, o)')
    BY OthersSame, Zenon
  <2>3. IsFiniteSet(S)
    BY ThreadsFinite, FS_Subset, Zenon
  <2> HIDE DEF S, T
  <2>4. /\ Cardinality(S) \in Nat /\ Cardinality(T) \in Nat
        /\ Cardinality(T) = Cardinality(S) + Bit(t \in T) - Bit(t \in S)
    BY <2>2, <2>3, SetStep
  <2> QED
    BY <2>1, <2>2, <2>4, Zenon DEF Bit
<1>4. ASSUME NEW Q \in SlotSets
      PROVE  /\ Lasting(Q, o) \in Nat /\ Lasting(Q, o)' \in Nat
             /\ KeptBy(t, Q, o)' <= Lasting(Q, o)'
             /\ Lasting(Q, o)' = Lasting(Q, o) + Cardinality(Cells(o)') - Cardinality(Cells(o))
                                 + KeptBy(t, Q, o)' - KeptBy(t, Q, o)
  <2> DEFINE f == [u \in Threads |-> KeptBy(u, Q, o)]
             g == [u \in Threads |-> KeptBy(u, Q, o)']
  <2>1. f \in [Threads -> Nat] /\ g \in [Threads -> Nat]
        /\ f[t] = KeptBy(t, Q, o) /\ g[t] = KeptBy(t, Q, o)'
    BY <1>1, Zenon DEF Countable
  <2>2. \A u \in Threads \ {t} : f[u] = g[u]
    BY OthersSame, Zenon
  <2>3. /\ Lasting(Q, o) = Cardinality(Cells(o)) + SumFunction(f)
        /\ Lasting(Q, o)' = Cardinality(Cells(o)') + SumFunction(g)
    BY Zenon DEF Lasting
  <2> HIDE DEF f, g
  <2>4. SumFunction(f) \in Nat /\ SumFunction(g) \in Nat /\ g[t] <= SumFunction(g)
        /\ SumFunction(g) = SumFunction(f) + g[t] - f[t]
    BY <2>1, <2>2, SumUpdate, ThreadsFinite
  <2>5. Cardinality(Cells(o)) \in Nat /\ Cardinality(Cells(o)') \in Nat
    BY <1>1, Zenon DEF Countable
  <2>6. KeptBy(t, Q, o) \in Nat /\ KeptBy(t, Q, o)' \in Nat
    BY <1>1, Zenon DEF Countable
  <2> QED
    BY <2>1, <2>3, <2>4, <2>5, <2>6
<1>5. ASSUME NEW Q \in SlotSets
      PROVE  /\ Cardinality(Covered(Q, o)) \in Nat /\ Cardinality(Covered(Q, o)') \in Nat
             /\ Cardinality(Covered(Q, o)') =
                  Cardinality(Covered(Q, o)) + Bit(Installs(t, o)' /\ HasSlot(t, Q))
                                             - Bit(Installs(t, o) /\ HasSlot(t, Q))
  <2> DEFINE S == Covered(Q, o)
             T == Covered(Q, o)'
  <2>1. \A u \in Threads : (u \in S <=> Installs(u, o) /\ HasSlot(u, Q))
                           /\ (u \in T <=> Installs(u, o)' /\ HasSlot(u, Q))
    BY Zenon DEF Covered, HasSlot, SlotThread
  <2>2. S \subseteq Threads /\ T \subseteq Threads
    BY Zenon DEF Covered
  <2> HIDE DEF S, T
  <2>3. S \ {t} = T \ {t} /\ IsFiniteSet(S)
    BY <2>1, <2>2, OthersSame, ThreadsFinite, FS_Subset, Zenon
  <2>4. /\ Cardinality(S) \in Nat /\ Cardinality(T) \in Nat
        /\ Cardinality(T) = Cardinality(S) + Bit(t \in T) - Bit(t \in S)
    BY <2>3, SetStep, Zenon
  <2>5. Cardinality(T) = Cardinality(Covered(Q, o)') /\ S = Covered(Q, o)
    BY Zenon DEF S, T
  <2> QED
    BY <2>1, <2>4, <2>5, Zenon DEF Bit
<1> QED
  BY <1>2, <1>3, <1>4, <1>5, Zenon

LEMMA SlotOwners ==
  ASSUME NEW Q \in SlotSets, NEW S \in SUBSET Threads, \A t \in S : HasSlot(t, Q)
  PROVE  Cardinality(S) \in Nat /\ Cardinality(Q) \in Nat /\ Cardinality(S) <= Cardinality(Q)
<1> DEFINE T == {SlotThread(i) : i \in Q}
           f == [i \in Q |-> SlotThread(i)]
<1>1. IsFiniteSet(Q)
  BY AheadFinite, Zenon DEF SlotSets
<1>2. f \in Surjection(Q, T)
  BY Zenon DEF Surjection
<1>3. S \subseteq T
  BY Zenon DEF HasSlot
<1> HIDE DEF T, f
<1>4. IsFiniteSet(T) /\ Cardinality(T) <= Cardinality(Q)
  BY <1>1, <1>2, FS_Surjection, Zenon
<1>5. IsFiniteSet(S) /\ Cardinality(S) <= Cardinality(T)
  BY <1>3, <1>4, FS_Subset, Zenon
<1> QED
  BY <1>1, <1>4, <1>5, FS_CardinalityType

\* The thread keeps as much of o as before, for the slots in Q, or it keeps
\* more than there are slots.
Firm(t, Q, o) ==
  \/ KeptOf(local'[t], Q, Strong(o)) > Cardinality(Q)
  \/ Cardinality(Cells(o)') + KeptBy(t, Q, o)' + Bit(Installs(t, o) /\ HasSlot(t, Q))
     >= Cardinality(Cells(o)) + KeptBy(t, Q, o) + Bit(Installs(t, o)' /\ HasSlot(t, Q))

LEMMA GuardStep ==
  ASSUME TypeOK, Locals, TypeOK', Locals', NEW t \in Threads, Frame(t), NEW o \in Objects,
         NEW Q \in SlotSets, Lasting(Q, o) > Cardinality(Covered(Q, o)), Firm(t, Q, o)
  PROVE  (Lasting(Q, o) > Cardinality(Covered(Q, o)))'
<1>1. /\ Lasting(Q, o) \in Nat /\ Lasting(Q, o)' \in Nat /\ KeptBy(t, Q, o)' <= Lasting(Q, o)'
      /\ Lasting(Q, o)' = Lasting(Q, o) + Cardinality(Cells(o)') - Cardinality(Cells(o))
                          + KeptBy(t, Q, o)' - KeptBy(t, Q, o)
      /\ Cardinality(Covered(Q, o)) \in Nat /\ Cardinality(Covered(Q, o)') \in Nat
      /\ Cardinality(Covered(Q, o)') =
           Cardinality(Covered(Q, o)) + Bit(Installs(t, o)' /\ HasSlot(t, Q))
                                      - Bit(Installs(t, o) /\ HasSlot(t, Q))
  BY Ledger, Zenon
<1>2. Countable /\ Countable'
  <2>1. (TypeOK /\ Locals => Countable)'
    BY Numbers, PTL
  <2> QED
    BY <2>1, Numbers, Zenon
<1>3. Cardinality(Cells(o)) \in Nat /\ Cardinality(Cells(o)') \in Nat
      /\ KeptBy(t, Q, o) \in Nat /\ KeptBy(t, Q, o)' \in Nat
  BY <1>2, Zenon DEF Countable
<1>4. CASE KeptOf(local'[t], Q, Strong(o)) > Cardinality(Q)
  <2>1. /\ KeptOf(local'[t], Q, Strong(o)) \in Nat
        /\ RcKept(t, Q, o)' \in Nat /\ OldRef(t, o)' \in Nat
    BY <1>2, Zenon DEF Countable
  <2>2. KeptBy(t, Q, o)' = KeptOf(local'[t], Q, Strong(o)) + RcKept(t, Q, o)' + OldRef(t, o)'
    BY Zenon DEF KeptBy
  <2>3. Cardinality(Covered(Q, o)') <= Cardinality(Q) /\ Cardinality(Q) \in Nat
    <3>1. Covered(Q, o)' \subseteq Threads /\ \A u \in Covered(Q, o)' : HasSlot(u, Q)
      BY Zenon DEF Covered, HasSlot, SlotThread
    <3> QED
      BY <3>1, SlotOwners, Zenon
  <2> QED
    BY <1>1, <1>4, <2>1, <2>2, <2>3
<1>5. CASE Cardinality(Cells(o)') + KeptBy(t, Q, o)' + Bit(Installs(t, o) /\ HasSlot(t, Q))
           >= Cardinality(Cells(o)) + KeptBy(t, Q, o) + Bit(Installs(t, o)' /\ HasSlot(t, Q))
  BY <1>1, <1>3, <1>5 DEF Bit
<1> QED
  BY <1>4, <1>5, Zenon DEF Firm

LEMMA NewSlots ==
  ASSUME NEW t \in Threads, Frame(t), NEW o, NEW i \in Protecting(o)'
  PROVE  /\ i \in 1..ScanLength /\ SlotNumber(i) \in 0..snapshot_slots
         /\ i \in Protecting(o) \/ (SlotThread(i) = t /\ Shields(t, SlotNumber(i), o)')
         /\ i \in Protecting(o) <=> Shields(SlotThread(i), SlotNumber(i), o)
<1>1. /\ i \in 1..ScanLength /\ Shields(SlotThread(i), SlotNumber(i), o)'
      /\ i \in Protecting(o) <=> Shields(SlotThread(i), SlotNumber(i), o)
  BY Zenon DEF Protecting, SlotThread, SlotNumber, ScanLength, Threads
<1>2. SlotThread(i) \in Threads /\ SlotNumber(i) \in 0..snapshot_slots
  BY <1>1, SlotView, Zenon
<1>3. SlotThread(i) # t => i \in Protecting(o)
  BY <1>1, <1>2, OthersSame, Zenon
<1> QED
  BY <1>1, <1>2, <1>3, Zenon

LEMMA GuardedStep ==
  ASSUME TypeOK, Locals, Guarded, TypeOK', Locals', NEW t \in Threads, Frame(t),
         \A o \in Objects, s \in 0..snapshot_slots : Shields(t, s, o)' => Shields(t, s, o),
         \A o \in Objects, Q \in SlotSets :
           Q \subseteq Protecting(o) /\ Q \subseteq Protecting(o)' => Firm(t, Q, o)
  PROVE  Guarded'
<1> SUFFICES ASSUME NEW o \in Objects, NEW Q \in SlotSets, Q \subseteq Protecting(o)'
             PROVE  (Lasting(Q, o) > Cardinality(Covered(Q, o)))'
  BY Zenon DEF Guarded, SlotSets, ScanLength
<1>1. Q \subseteq Protecting(o)
  <2> SUFFICES ASSUME NEW i \in Q PROVE i \in Protecting(o)
    BY Zenon
  <2> QED
    BY NewSlots, Zenon
<1>2. Lasting(Q, o) > Cardinality(Covered(Q, o)) /\ Firm(t, Q, o)
  BY <1>1, Zenon DEF Guarded
<1> QED
  BY <1>2, GuardStep, Zenon

-----------------------------------------------------------------------------
LEMMA Protected ==
  ASSUME TypeOK, NEW t \in Threads, CallOK(t), NEW o \in Objects,
         \/ o \in Snapshots(t)
         \/ announcement[t] = o /\ op[t].pc \in {"load_inc", "cas", "cas_inc", "release"}
         \/ Installs(t, o)
  PROVE  HasSlot(t, Protecting(o))
<1>1. \E s \in 0..snapshot_slots : Shields(t, s, o)
  <2>1. o # null /\ snapshot_slots \in Nat
    BY ManagerAssumption, Zenon
  <2>2. CASE announcement[t] = o /\ op[t].pc \in {"load_inc", "cas", "cas_inc", "release"}
    BY <2>1, <2>2 DEF Shields
  <2>3. CASE o \in Snapshots(t)
    <3>1. PICK s \in Slots \ {op[t].slot} : snapshot_announcements[t][s] = o
      BY <2>3, Zenon DEF Snapshots
    <3>2. s \in 0..snapshot_slots /\ s # 0
      BY <2>1 DEF Slots
    <3> QED
      BY <3>1, <3>2, Zenon DEF Shields
  <2>4. Installs(t, o) => o \in Snapshots(t) \/ (announcement[t] = o /\ op[t].pc = "cas_inc")
    BY Zenon DEF Installs, CallOK
  <2> QED
    BY <2>2, <2>3, <2>4, Zenon
<1>2. PICK s \in 0..snapshot_slots : Shields(t, s, o)
  BY <1>1, Zenon
<1>3. PICK i \in 1..ScanLength : SlotThread(i) = t /\ SlotNumber(i) = s
  BY SlotView, Zenon
<1> QED
  BY <1>2, <1>3, Zenon DEF Protecting, HasSlot

\* The heart of the matter: the slots that protect an object, all together, keep
\* its count above zero, and so does any reference.
LEMMA Alive ==
  ASSUME TypeOK, Locals, Calls, Exact, Living, Guarded, NEW o \in Objects
  PROVE  /\ ref_cnt[o] \in Nat /\ References(o) \in Nat
         /\ Protecting(o) # {} \/ References(o) > 0 => ref_cnt[o] > 0 /\ o \in live
         /\ \A t \in Threads : RefsOf(t, o) \in Nat /\ RefsOf(t, o) <= References(o)
<1> DEFINE Q == Protecting(o)
           S == {t \in Threads : Installs(t, o)}
           f == [u \in Threads |-> RefsOf(u, o)]
           g == [u \in Threads |-> KeptBy(u, Q, o)]
<1>1. ref_cnt[o] \in Nat /\ Uncounted(o) = Cardinality(S) /\ ref_cnt[o] + Uncounted(o) = References(o)
  BY TypeView, Zenon DEF Exact, Uncounted, Installs
<1>2. IsFiniteSet(S) /\ Cardinality(S) \in Nat
  BY ThreadsFinite, FS_Subset, FS_CardinalityType, Zenon
<1>3. Countable
  BY Numbers, Zenon
<1>4. /\ f \in [Threads -> Nat] /\ \A t \in Threads : f[t] = RefsOf(t, o)
      /\ References(o) = Cardinality(Cells(o)) + SumFunction(f)
      /\ Cardinality(Cells(o)) \in Nat
  BY <1>3, Zenon DEF Countable, References, Cells, RefsOf, OldRef, Bit
<1>5. SumFunction(f) \in Nat /\ \A t \in Threads : f[t] <= SumFunction(f)
  <2> HIDE DEF f
  <2> QED
    BY <1>4, ThreadsFinite, SumUpdate, Zenon
<1>6. S # {} => Q # {}
  BY Protected, Zenon DEF Calls, HasSlot
<1>7. ASSUME Q # {} PROVE ref_cnt[o] > 0
  <2>1. Q \in SlotSets
    BY <1>7, Zenon DEF SlotSets, Protecting
  <2>2. Lasting(Q, o) > Cardinality(Covered(Q, o))
    BY <2>1, Zenon DEF Guarded
  <2>3. Covered(Q, o) = S
    BY Protected, Zenon DEF Covered, Calls
  <2>4. g \in [Threads -> Nat] /\ \A u \in Threads : g[u] <= f[u]
    BY <1>3, <2>1, Zenon DEF Countable
  <2>5. Lasting(Q, o) = Cardinality(Cells(o)) + SumFunction(g)
    BY Zenon DEF Lasting
  <2> HIDE DEF f, g, S, Q
  <2>6. SumFunction(g) \in Nat /\ SumFunction(g) + 0 <= SumFunction(f)
    <3>1. g[1] + 0 <= f[1]
      BY <2>4, ThreadsFinite
    <3> QED
      BY <1>4, <2>4, <3>1, ThreadsFinite, SumMonotonic, Zenon
  <2> QED
    BY <1>1, <1>2, <1>4, <1>5, <2>2, <2>3, <2>5, <2>6
<1>8. ASSUME Q = {} PROVE ref_cnt[o] = References(o)
  <2>1. Cardinality(S) = 0
    BY <1>6, <1>8, FS_EmptySet, Zenon
  <2> QED
    BY <1>1, <2>1
<1>9. References(o) \in Nat
  BY <1>4, <1>5
<1>10. \A t \in Threads : RefsOf(t, o) \in Nat /\ RefsOf(t, o) <= References(o)
  <2> HIDE DEF f
  <2> QED
    BY <1>4, <1>5
<1> QED
  BY <1>1, <1>7, <1>8, <1>9, <1>10, Zenon DEF Living

\* What a thread holds is there.
LEMMA HeldLives ==
  ASSUME TypeOK, Locals, Calls, Exact, Living, Guarded, NEW t \in Threads, NEW o \in Held(t)
  PROVE  o \in Objects /\ o \in live /\ ref_cnt[o] > 0
<1>1. CASE o \in Counted(t)
  <2>1. o \in Objects /\ rc[t][o] > 0
    BY <1>1, Zenon DEF Counted
  <2>2. RefsOf(t, o) > 0
    BY <2>1, Numbers DEF Countable, RefsOf
  <2> QED
    BY <2>1, <2>2, Alive
<1>2. CASE o \in Snapshots(t)
  <2>1. o \in Objects
    BY <1>2, TypeView DEF Snapshots, Ptrs
  <2>2. Protecting(o) # {}
    BY <1>2, <2>1, Protected, Zenon DEF Calls, HasSlot
  <2> QED
    BY <2>1, <2>2, Alive, Zenon
<1> QED
  BY <1>1, <1>2, Zenon DEF Held

-----------------------------------------------------------------------------
\* The pieces of a step of one thread.
LEMMA CellsStep ==
  ASSUME TypeOK, NEW l \in Locations, NEW v, cell' = [cell EXCEPT ![l] = v], NEW o \in Objects
  PROVE  /\ Cardinality(Cells(o)) \in Nat /\ Cardinality(Cells(o)') \in Nat
         /\ Cardinality(Cells(o)') = Cardinality(Cells(o)) + Bit(v = o) - Bit(cell[l] = o)
<1> DEFINE S == Cells(o)
           T == {k \in Locations : cell'[k] = o}
<1>1. T = Cells(o)'
  BY Zenon DEF Cells
<1>2. S \ {l} = T \ {l} /\ (l \in S <=> cell[l] = o) /\ (l \in T <=> v = o)
  BY TypeView, Zenon DEF Cells
<1>3. IsFiniteSet(S)
  BY ManagerAssumption, FS_Subset, Zenon DEF Cells
<1> HIDE DEF S, T
<1>4. /\ Cardinality(S) \in Nat /\ Cardinality(T) \in Nat
      /\ Cardinality(T) = Cardinality(S) + Bit(l \in T) - Bit(l \in S)
  BY <1>2, <1>3, SetStep
<1>5. S = Cells(o)
  BY Zenon DEF S
<1> QED
  BY <1>1, <1>2, <1>4, <1>5, Zenon DEF Bit

LEMMA CellsSame ==
  ASSUME cell' = cell, NEW o
  PROVE  Cardinality(Cells(o)') = Cardinality(Cells(o))
BY Zenon DEF Cells

LEMMA DrainingStep ==
  ASSUME Draining, NEW t \in Threads, Frame(t), ~Ending(local[t]), ~Ending(local'[t])
  PROVE  Draining'
<1>1. \A u \in Threads : ~Ending(local[u])
  BY Zenon DEF Draining
<1>2. \A u \in Threads : ~Ending(local'[u])
  BY <1>1, Zenon DEF Frame, Ending
<1> QED
  BY <1>2, ThreadsFinite, Zenon DEF Draining, Ending

\* The count moves as the references do.
Balanced(t) ==
  \A o \in Objects :
    ref_cnt'[o] + Bit(Installs(t, o)') + Cardinality(Cells(o)) + RefsOf(t, o)
      = ref_cnt[o] + Bit(Installs(t, o)) + Cardinality(Cells(o)') + RefsOf(t, o)'

LEMMA ThreadStep ==
  ASSUME IInv, NEW t \in Threads, Frame(t), TypeOK', LocalOK(local[t])', CallOK(t)'
  PROVE  /\ Locals' /\ Calls'
         /\ Balanced(t) => Exact'
         /\ ~Ending(local[t]) /\ ~Ending(local'[t]) => Draining'
<1>1. Locals' /\ Calls'
  BY OthersSame, Zenon DEF IInv, Locals, Calls
<1>2. ASSUME Balanced(t), NEW o \in Objects
      PROVE  (ref_cnt[o] + Uncounted(o) = References(o))'
  <2>1. /\ References(o) \in Nat /\ References(o)' \in Nat
        /\ References(o)' = References(o) + Cardinality(Cells(o)') - Cardinality(Cells(o))
                            + RefsOf(t, o)' - RefsOf(t, o)
        /\ Uncounted(o) \in Nat /\ Uncounted(o)' \in Nat
        /\ Uncounted(o)' = Uncounted(o) + Bit(Installs(t, o)') - Bit(Installs(t, o))
    BY <1>1, Ledger, Zenon DEF IInv
  <2>2. /\ Countable /\ Countable' /\ ref_cnt[o] \in Nat /\ ref_cnt'[o] \in Nat
        /\ ref_cnt[o] + Uncounted(o) = References(o)
    <3>1. (TypeOK /\ Locals => Countable)'
      BY Numbers, PTL
    <3>2. (TypeOK => ref_cnt \in [Objects -> Nat])'
      BY TypeView, PTL
    <3> QED
      BY <1>1, <3>1, <3>2, Numbers, TypeView, Zenon DEF IInv, Exact
  <2>3. /\ Cardinality(Cells(o)) \in Nat /\ Cardinality(Cells(o)') \in Nat
        /\ RefsOf(t, o) \in Nat /\ RefsOf(t, o)' \in Nat
    BY <2>2, Zenon DEF Countable
  <2>4. ref_cnt'[o] + Bit(Installs(t, o)') + Cardinality(Cells(o)) + RefsOf(t, o)
          = ref_cnt[o] + Bit(Installs(t, o)) + Cardinality(Cells(o)') + RefsOf(t, o)'
    BY <1>2, Zenon DEF Balanced
  <2>5. Bit(Installs(t, o)) \in Nat /\ Bit(Installs(t, o)') \in Nat
    BY Zenon DEF Bit
  <2>6. ref_cnt'[o] + Uncounted(o)' = References(o)'
    BY <2>1, <2>2, <2>3, <2>4, <2>5
  <2> QED
    BY <2>6, Zenon
<1>3. Balanced(t) => Exact'
  BY <1>2, Zenon DEF Exact
<1> QED
  BY <1>1, <1>3, DrainingStep, Zenon DEF IInv

LEMMA KeptGrows ==
  ASSUME TypeOK, Locals, NEW u \in Threads, NEW o \in Objects,
         NEW Q \in SlotSets, NEW P \in SlotSets, P \subseteq Q
  PROVE  KeptBy(u, P, o) <= KeptBy(u, Q, o)
<1>1. KeptOf(local[u], P, Strong(o)) <= KeptOf(local[u], Q, Strong(o))
  BY KeptMonotonic, LocalView, StrongView, Zenon DEF Locals, SlotSets
<1>2. Countable
  BY Numbers, Zenon
<1>3. /\ KeptOf(local[u], P, Strong(o)) \in Nat /\ KeptOf(local[u], Q, Strong(o)) \in Nat
      /\ rc[u][o] \in Nat /\ OldRef(u, o) \in Nat
  BY <1>2, Zenon DEF Countable
<1>4. Reserves(u, P) => Reserves(u, Q)
  BY Zenon DEF Reserves
<1> QED
  BY <1>1, <1>3, <1>4 DEF KeptBy, RcKept

\* A slot of t that begins to protect o: what the other slots of Q keep is kept,
\* and if there are none, something else is.
LEMMA GuardNew ==
  ASSUME TypeOK, Locals, Guarded, TypeOK', Locals', NEW t \in Threads, Frame(t), cell' = cell,
         NEW o \in Objects, NEW Q \in SlotSets, Q \subseteq Protecting(o)', ~Installs(t, o)',
         KeptBy(t, Q, o)' >= KeptBy(t, Q, o), Cardinality(Cells(o)) + KeptBy(t, Q, o)' > 0
  PROVE  (Lasting(Q, o) > Cardinality(Covered(Q, o)))'
<1> DEFINE P == Q \cap Protecting(o)
           f == [u \in Threads |-> KeptBy(u, P, o)]
           g == [u \in Threads |-> KeptBy(u, Q, o)']
           S == Covered(P, o)
           T == Covered(Q, o)'
<1>1. Countable /\ Countable'
  <2>1. (TypeOK /\ Locals => Countable)'
    BY Numbers, PTL
  <2> QED
    BY <2>1, Numbers, Zenon
<1>2. /\ g \in [Threads -> Nat] /\ g[t] = KeptBy(t, Q, o)'
      /\ Lasting(Q, o)' = Cardinality(Cells(o)) + SumFunction(g)
  BY <1>1, CellsSame, Zenon DEF Countable, Lasting
<1>3. Cardinality(Cells(o)) \in Nat
  BY <1>1, Zenon DEF Countable
<1>4. SumFunction(g) \in Nat /\ g[t] <= SumFunction(g)
  <2> HIDE DEF g
  <2> QED
    BY <1>2, ThreadsFinite, SumUpdate, Zenon
<1>5. \A i \in Q : i \in P \/ SlotThread(i) = t
  BY NewSlots, Zenon
<1>6. T \subseteq Threads /\ \A u \in T : u # t /\ Installs(u, o) /\ HasSlot(u, P)
  <2>1. \A u \in T : u \in Threads /\ Installs(u, o)' /\ HasSlot(u, Q)
    BY Zenon DEF Covered, HasSlot, SlotThread
  <2> HIDE DEF T, P
  <2>2. \A u \in T : u \in Threads /\ Installs(u, o)' /\ HasSlot(u, Q) /\ u # t
    BY <2>1, Zenon
  <2> QED
    BY <1>5, <2>2, OthersSame, Zenon DEF HasSlot
<1>7. CASE P = {}
  <2>1. T = {}
    <3> HIDE DEF T, P
    <3> QED
      BY <1>6, <1>7, Zenon DEF HasSlot
  <2>2. Cardinality(Covered(Q, o)') = 0
    BY <2>1, FS_EmptySet, Zenon
  <2>3. Lasting(Q, o)' > 0
    <3> HIDE DEF f, g
    <3> QED
      BY <1>2, <1>3, <1>4
  <2>4. Lasting(Q, o)' > Cardinality(Covered(Q, o)')
    BY <2>2, <2>3, Zenon
  <2> QED
    BY <2>4, Zenon
<1>8. CASE P # {}
  <2>1. P \in SlotSets /\ P \subseteq Q
    BY <1>8, Zenon DEF SlotSets
  <2>2. Lasting(P, o) > Cardinality(S)
    BY <2>1, Zenon DEF Guarded
  <2>3. f \in [Threads -> Nat] /\ Lasting(P, o) = Cardinality(Cells(o)) + SumFunction(f)
    BY <1>1, <2>1, Zenon DEF Countable, Lasting
  <2>4. \A u \in Threads : f[u] <= g[u]
    <3> SUFFICES ASSUME NEW u \in Threads PROVE KeptBy(u, P, o) <= KeptBy(u, Q, o)'
      BY Zenon
    <3>1. KeptBy(u, P, o) <= KeptBy(u, Q, o)
      BY <2>1, KeptGrows, Zenon
    <3>2. KeptBy(u, P, o) \in Nat /\ KeptBy(u, Q, o) \in Nat /\ KeptBy(u, Q, o)' \in Nat
      BY <1>1, <2>1, Zenon DEF Countable
    <3>3. KeptBy(u, Q, o) <= KeptBy(u, Q, o)'
      <4>1. u # t => KeptBy(u, Q, o)' = KeptBy(u, Q, o)
        BY OthersSame, Zenon
      <4> HIDE DEF P, f, g
      <4> QED
        BY <3>2, <4>1
    <3> HIDE DEF P
    <3> QED
      BY <3>1, <3>2, <3>3
  <2>5. SumFunction(f) \in Nat /\ SumFunction(f) <= SumFunction(g)
    <3> HIDE DEF f, g
    <3>1. f[t] \in Nat /\ f[t] + 0 <= g[t]
      BY <1>2, <2>3, <2>4
    <3>2. SumFunction(f) \in Nat /\ SumFunction(f) + 0 <= SumFunction(g)
      BY <1>2, <2>3, <2>4, <3>1, ThreadsFinite, SumMonotonic, Zenon
    <3> QED
      BY <1>4, <3>2
  <2>6. T \subseteq S
    <3> HIDE DEF T
    <3> QED
      BY <1>6, Zenon DEF Covered
  <2>7. /\ Cardinality(S) \in Nat /\ Cardinality(T) \in Nat /\ Cardinality(T) <= Cardinality(S)
    <3>1. IsFiniteSet(S)
      BY ThreadsFinite, FS_Subset, Zenon DEF Covered
    <3> HIDE DEF S, T
    <3> QED
      BY <2>6, <3>1, FS_Subset, FS_CardinalityType, Zenon
  <2>8. Cardinality(T) = Cardinality(Covered(Q, o)')
    BY Zenon
  <2> HIDE DEF S, T, f, g, P
  <2>9. Lasting(Q, o)' > Cardinality(Covered(Q, o)')
    BY <1>2, <1>3, <1>4, <2>2, <2>3, <2>5, <2>7, <2>8
  <2> QED
    BY <2>9, Zenon
<1> QED
  BY <1>7, <1>8, Zenon

\* The thread only moves on in its operation, or changes its slots.
Quiet(t) ==
  /\ op[t].pc \notin {"store_inc", "cas", "cas_inc"} /\ op'[t].pc \notin {"store_inc", "cas_inc"}
  /\ op[t].pc = "release" => announcement'[t] = null
  /\ local[t].phase = "off"
  /\ UNCHANGED <<cell, live, ref_cnt, local, rc>>

LEMMA QuietStep ==
  ASSUME IInv, NEW t \in Threads, Frame(t), TypeOK', CallOK(t)', Quiet(t)
  PROVE  /\ TypeOK' /\ Locals' /\ Calls' /\ DeadFields' /\ Draining' /\ Exact' /\ Living'
         /\ \A o \in Objects : \A Q \in SlotSets :
              Q \subseteq Protecting(o)' => KeptBy(t, Q, o)' >= KeptBy(t, Q, o) /\ Firm(t, Q, o)
<1>1. /\ LocalOK(local[t])' /\ ~Ending(local[t]) /\ ~Ending(local'[t])
      /\ TypeOK /\ Locals /\ DeadFields /\ Living
  BY Zenon DEF IInv, Locals, LocalOK, Ending, Quiet
<1>2. Locals' /\ Calls' /\ Draining' /\ (Balanced(t) => Exact')
  BY <1>1, ThreadStep, Zenon
<1>3. Countable /\ Countable'
  <2>1. (TypeOK /\ Locals => Countable)'
    BY Numbers, PTL
  <2> QED
    BY <1>1, <1>2, <2>1, Numbers, Zenon
<1>4. \A o \in Objects : /\ ~Installs(t, o) /\ ~Installs(t, o)'
                         /\ OldRef(t, o) = 0 /\ OldRef(t, o)' = 0
                         /\ Deferred(t, o)' = Deferred(t, o)
  BY Zenon DEF Quiet, Installs, OldRef, Bit, Deferred
<1>5. Balanced(t)
  <2> SUFFICES ASSUME NEW o \in Objects
               PROVE  ref_cnt'[o] + Bit(Installs(t, o)') + Cardinality(Cells(o)) + RefsOf(t, o)
                        = ref_cnt[o] + Bit(Installs(t, o)) + Cardinality(Cells(o)') + RefsOf(t, o)'
    BY Zenon DEF Balanced
  <2>1. RefsOf(t, o)' = RefsOf(t, o)
    BY <1>4, Zenon DEF RefsOf, Quiet
  <2>2. Cardinality(Cells(o)') = Cardinality(Cells(o))
    BY CellsSame, Zenon DEF Quiet
  <2> QED
    BY <1>4, <2>1, <2>2, Zenon DEF Quiet, Bit
<1>6. ASSUME NEW o \in Objects, NEW Q \in SlotSets, Q \subseteq Protecting(o)'
      PROVE  KeptBy(t, Q, o)' >= KeptBy(t, Q, o) /\ Firm(t, Q, o)
  <2>1. ~Reserves(t, Q)
    <3> SUFFICES ASSUME NEW i \in Q, SlotThread(i) = t, SlotNumber(i) = 0, op[t].pc = "release"
                 PROVE  FALSE
      BY Zenon DEF Reserves, Quiet
    <3>1. Shields(t, 0, o)'
      BY <1>6, Zenon DEF Protecting, SlotThread, SlotNumber
    <3> QED
      BY <3>1, ManagerAssumption, Zenon DEF Shields, Quiet
  <2>2. /\ KeptOf(local[t], Q, Strong(o)) \in Nat /\ rc[t][o] \in Nat
        /\ local'[t] = local[t] /\ rc'[t] = rc[t]
    BY <1>3, Zenon DEF Countable, Quiet
  <2>3. RcKept(t, Q, o) <= RcKept(t, Q, o)' /\ RcKept(t, Q, o) \in Nat /\ RcKept(t, Q, o)' \in Nat
    <3>1. RcKept(t, Q, o) = IF NeverClears(t) THEN rc[t][o] ELSE 0
      BY <2>1, Zenon DEF RcKept
    <3>2. RcKept(t, Q, o)' \in {0, rc[t][o]} /\ (NeverClears(t) => RcKept(t, Q, o)' = rc[t][o])
      BY <2>2, Zenon DEF RcKept, NeverClears
    <3> QED
      BY <2>2, <3>1, <3>2
  <2>4. /\ KeptBy(t, Q, o) = KeptOf(local[t], Q, Strong(o)) + RcKept(t, Q, o)
        /\ KeptBy(t, Q, o)' = KeptOf(local[t], Q, Strong(o)) + RcKept(t, Q, o)'
    <3>1. KeptBy(t, Q, o) = KeptOf(local[t], Q, Strong(o)) + RcKept(t, Q, o) + OldRef(t, o)
      BY Zenon DEF KeptBy
    <3>2. KeptBy(t, Q, o)' = KeptOf(local'[t], Q, Strong(o)) + RcKept(t, Q, o)' + OldRef(t, o)'
      BY Zenon DEF KeptBy
    <3>3. OldRef(t, o) = 0 /\ OldRef(t, o)' = 0
      BY <1>4, Zenon
    <3> QED
      BY <2>2, <2>3, <3>1, <3>2, <3>3
  <2>5. Cardinality(Cells(o)') = Cardinality(Cells(o)) /\ Cardinality(Cells(o)) \in Nat
    BY <1>3, CellsSame, Zenon DEF Quiet, Countable
  <2>6. KeptBy(t, Q, o)' >= KeptBy(t, Q, o) /\ KeptBy(t, Q, o)' \in Nat /\ KeptBy(t, Q, o) \in Nat
    BY <2>2, <2>3, <2>4
  <2>7. /\ Bit(Installs(t, o) /\ HasSlot(t, Q)) = 0
        /\ Bit(Installs(t, o)' /\ HasSlot(t, Q)) = 0
    BY <1>4, Zenon DEF Bit
  <2> QED
    BY <2>5, <2>6, <2>7 DEF Firm
<1>7. DeadFields' /\ Living'
  BY <1>1, Zenon DEF DeadFields, Living, Quiet
<1> QED
  BY <1>2, <1>5, <1>6, <1>7, Zenon

-----------------------------------------------------------------------------
LEMMA TypeStep ==
  ASSUME cell' \in [Locations -> Ptrs], op' \in [Threads -> OpRecords],
         announcement' \in [Threads -> Ptrs],
         snapshot_announcements' \in [Threads -> [Slots -> Ptrs]],
         local' \in [Threads -> Local], live' \subseteq Objects, ref_cnt' \in [Objects -> Nat],
         rc' \in [Threads -> [Objects -> Nat]]
  PROVE  TypeOK'
BY Zenon DEF TypeOK, ManagerTypeOK, OpRecords

LEMMA OpStep ==
  ASSUME TypeOK, NEW t \in Threads, NEW r \in OpRecords, SetOp(t, r)
  PROVE  /\ op' \in [Threads -> OpRecords] /\ op'[t] = r
         /\ \A u \in Threads \ {t} : op'[u] = op[u]
BY TypeView, Zenon DEF SetOp

LEMMA SlotStep ==
  ASSUME TypeOK, NEW t \in Threads, NEW s \in Slots, NEW p \in Ptrs,
         snapshot_announcements' = [snapshot_announcements EXCEPT ![t][s] = p]
  PROVE  /\ snapshot_announcements' \in [Threads -> [Slots -> Ptrs]]
         /\ \A u \in Threads \ {t} : snapshot_announcements'[u] = snapshot_announcements[u]
         /\ \A r \in Slots : snapshot_announcements'[t][r] =
                               IF r = s THEN p ELSE snapshot_announcements[t][r]
BY TypeView, Zenon

LEMMA HeldStep ==
  ASSUME NEW t \in Threads, rc'[t] = rc[t],
         \A s \in Slots \ {op[t].slot} : snapshot_announcements[t][s] # null =>
           s # op'[t].slot /\ snapshot_announcements'[t][s] = snapshot_announcements[t][s]
  PROVE  Snapshots(t) \subseteq Snapshots(t)' /\ Held(t) \subseteq Held(t)'
<1>1. Snapshots(t) \subseteq Snapshots(t)'
  BY DEF Snapshots, Slots
<1> QED
  BY <1>1, Zenon DEF Held, Counted

\* A quiet step as the actions give it.
QuietTo(t, r) ==
  /\ r \in OpRecords /\ SetOp(t, r)
  /\ announcement' \in [Threads -> Ptrs]
  /\ snapshot_announcements' \in [Threads -> [Slots -> Ptrs]]
  /\ \A u \in Threads \ {t} : /\ announcement'[u] = announcement[u]
                              /\ snapshot_announcements'[u] = snapshot_announcements[u]
  /\ op[t].pc \notin {"store_inc", "cas", "cas_inc"} /\ r.pc \notin {"store_inc", "cas_inc"}
  /\ op[t].pc = "release" => announcement'[t] = null
  /\ local[t].phase = "off"
  /\ UNCHANGED <<cell, live, ref_cnt, local, rc>>

LEMMA QuietFrame ==
  ASSUME TypeOK, NEW t \in Threads, NEW r, QuietTo(t, r)
  PROVE  TypeOK' /\ Frame(t) /\ Quiet(t)
<1>1. /\ op' \in [Threads -> OpRecords] /\ op'[t] = r
      /\ \A u \in Threads \ {t} : op'[u] = op[u]
  BY OpStep, Zenon DEF QuietTo
<1>2. TypeOK'
  BY <1>1, TypeView, TypeStep, Zenon DEF QuietTo
<1>3. Frame(t)
  BY <1>1, Zenon DEF QuietTo, Frame
<1>4. Quiet(t)
  BY <1>1, Zenon DEF QuietTo, Quiet
<1> QED
  BY <1>2, <1>3, <1>4, Zenon

LEMMA QuietKeeps ==
  ASSUME IInv, NEW t \in Threads, NEW r, QuietTo(t, r), CallOK(t)',
         \A o \in Objects, s \in 0..snapshot_slots : Shields(t, s, o)' => Shields(t, s, o)
  PROVE  IInv'
<1>1. TypeOK /\ Locals /\ Guarded
  BY Zenon DEF IInv
<1>2. TypeOK' /\ Frame(t) /\ Quiet(t)
  BY <1>1, QuietFrame, Zenon
<1>3. /\ Locals' /\ Calls' /\ DeadFields' /\ Draining' /\ Exact' /\ Living'
      /\ \A o \in Objects : \A Q \in SlotSets : Q \subseteq Protecting(o)' => Firm(t, Q, o)
  BY <1>2, QuietStep, Zenon
<1>4. Guarded'
  BY <1>1, <1>2, <1>3, GuardedStep, Zenon
<1> QED
  BY <1>2, <1>3, <1>4, Zenon DEF IInv

\* A quiet step after which a slot of t may protect p.
LEMMA QuietProtects ==
  ASSUME IInv, NEW t \in Threads, NEW r, QuietTo(t, r), CallOK(t)', NEW p \in Objects,
         \A o \in Objects \ {p}, s \in 0..snapshot_slots : Shields(t, s, o)' => Shields(t, s, o),
         \A Q \in SlotSets : Q \subseteq Protecting(p)' => \/ Q \subseteq Protecting(p)
                                                         \/ Cardinality(Cells(p)) + KeptBy(t, Q, p)' > 0
  PROVE  IInv'
<1>1. TypeOK /\ Locals /\ Guarded
  BY Zenon DEF IInv
<1>2. TypeOK' /\ Frame(t) /\ Quiet(t)
  BY <1>1, QuietFrame, Zenon
<1>3. /\ Locals' /\ Calls' /\ DeadFields' /\ Draining' /\ Exact' /\ Living'
      /\ \A o \in Objects : \A Q \in SlotSets :
           Q \subseteq Protecting(o)' => KeptBy(t, Q, o)' >= KeptBy(t, Q, o) /\ Firm(t, Q, o)
  BY <1>2, QuietStep, Zenon
<1>4. ASSUME NEW o \in Objects, NEW Q \in SlotSets, Q \subseteq Protecting(o)'
      PROVE  (Lasting(Q, o) > Cardinality(Covered(Q, o)))'
  <2>1. CASE Q \subseteq Protecting(o)
    <3>1. Lasting(Q, o) > Cardinality(Covered(Q, o)) /\ Firm(t, Q, o)
      BY <1>1, <1>3, <1>4, <2>1, Zenon DEF Guarded
    <3> QED
      BY <1>1, <1>2, <1>3, <3>1, GuardStep, Zenon
  <2>2. CASE ~(Q \subseteq Protecting(o))
    <3>1. o = p
      <4> SUFFICES ASSUME o # p, NEW i \in Q PROVE i \in Protecting(o)
        BY <2>2, Zenon
      <4> QED
        BY <1>2, <1>4, NewSlots, Zenon
    <3>2. Cardinality(Cells(o)) + KeptBy(t, Q, o)' > 0
      BY <1>4, <2>2, <3>1, Zenon
    <3>3. ~Installs(t, o)' /\ cell' = cell
      BY <1>2, Zenon DEF Quiet, Installs
    <3> QED
      BY <1>1, <1>2, <1>3, <1>4, <3>2, <3>3, GuardNew, Zenon
  <2> QED
    BY <2>1, <2>2, Zenon
<1>5. Guarded'
  BY <1>4, Zenon DEF Guarded, SlotSets, ScanLength
<1> QED
  BY <1>2, <1>3, <1>5, Zenon DEF IInv

-----------------------------------------------------------------------------
\* The loops of acquire and protect_snapshot.
LEMMA AcquireLoadKeeps ==
  ASSUME IInv, NEW t \in Threads, AcquireLoad(t), UNCHANGED <<live, ref_cnt, rc>>
  PROVE  IInv'
<1> DEFINE r == [op[t] EXCEPT !.pc = "acquire_announce", !.ptr = cell[op[t].loc]]
<1>1. /\ TypeOK /\ CallOK(t) /\ op[t] \in OpRecords /\ op[t].loc \in Locations
      /\ op[t].pc = "acquire_load"
  BY TypeView, Zenon DEF IInv, Calls, CallOK, AcquireLoad, At, Acquiring
<1>2. QuietTo(t, r)
  <2>1. r \in OpRecords
    BY <1>1, TypeView, Zenon DEF OpRecords, ManagerPCs
  <2> QED
    BY <1>1, <2>1, TypeView DEF QuietTo, AcquireLoad, At
<1>3. op'[t] = r /\ UNCHANGED <<announcement, snapshot_announcements, rc>>
  BY <1>1, <1>2, OpStep, Zenon DEF QuietTo, AcquireLoad
<1>4. Held(t) \subseteq Held(t)'
  BY <1>1, <1>3, HeldStep, Zenon DEF OpRecords
<1>5. CallOK(t)'
  BY <1>1, <1>3, <1>4, Zenon DEF CallOK, Acquiring, Protect, OpRecords
<1>6. \A o \in Objects, s \in 0..snapshot_slots : Shields(t, s, o)' => Shields(t, s, o)
  BY <1>1, <1>3 DEF Shields
<1> QED
  BY <1>2, <1>5, <1>6, QuietKeeps, Zenon

LEMMA AcquireAnnounceKeeps ==
  ASSUME IInv, NEW t \in Threads, AcquireAnnounce(t), UNCHANGED <<live, ref_cnt, rc>>
  PROVE  IInv'
<1> DEFINE r == [op[t] EXCEPT !.pc = "acquire_check"]
<1>1. /\ TypeOK /\ CallOK(t) /\ op[t] \in OpRecords /\ op[t].pc = "acquire_announce"
  BY TypeView, Zenon DEF IInv, Calls, AcquireAnnounce, At
<1>2. QuietTo(t, r)
  <2>1. r \in OpRecords
    BY <1>1, Zenon DEF OpRecords, ManagerPCs
  <2>2. announcement' \in [Threads -> Ptrs] /\ \A u \in Threads \ {t} : announcement'[u] = announcement[u]
    BY <1>1, TypeView, Zenon DEF AcquireAnnounce, OpRecords
  <2> QED
    BY <1>1, <2>1, <2>2, TypeView DEF QuietTo, AcquireAnnounce, At
<1>3. /\ op'[t] = r /\ UNCHANGED <<snapshot_announcements, rc>>
      /\ announcement'[t] = op[t].ptr
  BY <1>1, <1>2, OpStep, TypeView, Zenon DEF QuietTo, AcquireAnnounce
<1>4. Held(t) \subseteq Held(t)'
  BY <1>1, <1>3, HeldStep, Zenon DEF OpRecords
<1>5. CallOK(t)'
  BY <1>1, <1>3, <1>4, Zenon DEF CallOK, Acquiring, Protect, OpRecords
<1>6. \A o \in Objects, s \in 0..snapshot_slots : Shields(t, s, o)' => Shields(t, s, o)
  BY <1>1, <1>3 DEF Shields
<1> QED
  BY <1>2, <1>5, <1>6, QuietKeeps, Zenon

\* The check succeeds: the pointer is still there, so it keeps a reference.
LEMMA AcquireCheckKeeps ==
  ASSUME IInv, NEW t \in Threads, AcquireCheck(t), UNCHANGED <<live, ref_cnt, rc>>
  PROVE  IInv'
<1> DEFINE l == op[t].loc
           p == op[t].ptr
           again == [op[t] EXCEPT !.pc = "acquire_load", !.ptr = null]
           go == [op[t] EXCEPT !.pc = "load_inc"]
<1>1. /\ TypeOK /\ Locals /\ CallOK(t) /\ op[t] \in OpRecords /\ op[t].pc = "acquire_check"
      /\ local[t].phase = "off" /\ l \in Locations /\ op[t].then = "load_inc" /\ op[t].slot = 0
      /\ announcement[t] = p /\ p \in Ptrs
  BY TypeView, Zenon DEF IInv, Calls, CallOK, AcquireCheck, At, Acquiring, Protect, OpRecords
<1>2. /\ UNCHANGED <<cell, announcement, snapshot_announcements, local, live, ref_cnt, rc>>
      /\ SetOp(t, IF cell[l] # p THEN again ELSE IF p = null THEN Idle ELSE go)
  BY <1>1, Zenon DEF AcquireCheck, Then
<1>3. /\ again \in OpRecords /\ again.pc = "acquire_load" /\ again.slot = 0
      /\ Idle \in OpRecords /\ Idle.pc = "idle" /\ Idle.slot = 0
      /\ go \in OpRecords /\ go.pc = "load_inc" /\ go.slot = 0
  BY <1>1, ManagerAssumption, Zenon DEF OpRecords, ManagerPCs, PCs, Idle, Ptrs
<1>4. ASSUME NEW r \in {again, Idle, go}, SetOp(t, r)
      PROVE  QuietTo(t, r) /\ op'[t] = r /\ Held(t) \subseteq Held(t)'
  <2>1. r \in OpRecords /\ r.pc \in {"acquire_load", "idle", "load_inc"} /\ r.slot = 0
    BY <1>3, <1>4, Zenon
  <2>2. QuietTo(t, r)
    BY <1>1, <1>2, <1>4, <2>1, TypeView, Zenon DEF QuietTo
  <2>3. op'[t] = r
    BY <1>1, <1>4, <2>1, OpStep, Zenon
  <2>4. 0 \notin Slots
    BY DEF Slots
  <2> QED
    BY <1>2, <2>1, <2>2, <2>3, <2>4, HeldStep, Zenon
<1>5. CASE cell[l] # p
  <2>1. QuietTo(t, again) /\ op'[t] = again /\ Held(t) \subseteq Held(t)'
    BY <1>2, <1>4, <1>5, Zenon
  <2>2. CallOK(t)'
    BY <1>1, <2>1, Zenon DEF CallOK, Acquiring, Protect, OpRecords
  <2>3. \A o \in Objects, s \in 0..snapshot_slots : Shields(t, s, o)' => Shields(t, s, o)
    BY <1>1, <1>2, <2>1, Zenon DEF Shields, OpRecords
  <2> QED
    BY <2>1, <2>2, <2>3, QuietKeeps, Zenon
<1>6. CASE cell[l] = p /\ p = null
  <2>1. QuietTo(t, Idle) /\ op'[t] = Idle
    BY <1>2, <1>4, <1>6, Zenon
  <2>2. CallOK(t)'
    BY <1>1, <1>2, <1>6, <2>1, ManagerAssumption DEF CallOK, Acquiring, Protect, Idle
  <2>3. \A o \in Objects, s \in 0..snapshot_slots : Shields(t, s, o)' => Shields(t, s, o)
    BY <1>1, <1>2, <2>1 DEF Shields, Idle
  <2> QED
    BY <2>1, <2>2, <2>3, QuietKeeps, Zenon
<1>7. CASE cell[l] = p /\ p # null
  <2>1. QuietTo(t, go) /\ op'[t] = go /\ Held(t) \subseteq Held(t)' /\ p \in Objects
    BY <1>1, <1>2, <1>4, <1>7, Zenon DEF Ptrs
  <2>2. CallOK(t)'
    BY <1>1, <1>2, <2>1, Zenon DEF CallOK, Acquiring, Protect, OpRecords
  <2>3. \A o \in Objects \ {p}, s \in 0..snapshot_slots : Shields(t, s, o)' => Shields(t, s, o)
    BY <1>1, <1>2, <2>1, Zenon DEF Shields, OpRecords
  <2>4. ASSUME NEW Q \in SlotSets PROVE Cardinality(Cells(p)) + KeptBy(t, Q, p)' > 0
    <3>1. IsFiniteSet(Cells(p)) /\ Cardinality(Cells(p)) \in Nat
      BY <1>1, <2>1, Numbers, Zenon DEF Countable
    <3>2. Cardinality(Cells(p)) # 0
      BY <1>1, <1>7, <3>1, FS_EmptySet DEF Cells
    <3>3. KeptBy(t, Q, p)' \in Nat
      <4>1. (TypeOK /\ Locals => Countable)'
        BY Numbers, PTL
      <4>2. TypeOK' /\ Locals'
        BY <1>1, <1>2, <2>1, QuietFrame, Zenon DEF Locals, LocalOK
      <4> QED
        BY <2>1, <4>1, <4>2 DEF Countable
    <3> QED
      BY <3>1, <3>2, <3>3
  <2> QED
    BY <2>1, <2>2, <2>3, <2>4, QuietProtects
<1> QED
  BY <1>5, <1>6, <1>7, Zenon

LEMMA IdleCall ==
  ASSUME NEW t \in Threads, op'[t].pc = "idle", op'[t].loc = null, op'[t].slot = 0,
         announcement'[t] = null
  PROVE  CallOK(t)'
BY ManagerAssumption, Zenon DEF CallOK, Acquiring, Protect

LEMMA IdleRecord == /\ Idle \in OpRecords /\ Idle.pc = "idle" /\ Idle.loc = null /\ Idle.slot = 0
                    /\ Idle.ptr = null /\ Idle.old = null /\ 0 \notin Slots
BY ManagerAssumption DEF OpRecords, Idle, ManagerPCs, Ptrs, Slots

LEMMA ReleaseKeeps ==
  ASSUME IInv, NEW t \in Threads, Release(t), UNCHANGED <<live, ref_cnt, rc>>
  PROVE  IInv'
<1>1. /\ TypeOK /\ CallOK(t) /\ op[t] \in OpRecords /\ op[t].pc = "release" /\ op[t].slot = 0
  BY TypeView, Zenon DEF IInv, Calls, CallOK, Release, At, Protect
<1>2. /\ announcement' \in [Threads -> Ptrs] /\ announcement'[t] = null
      /\ \A u \in Threads \ {t} : announcement'[u] = announcement[u]
  BY <1>1, TypeView, Zenon DEF Release, Ptrs
<1>3. QuietTo(t, Idle)
  BY <1>1, <1>2, IdleRecord, TypeView, Zenon DEF QuietTo, Release, At
<1>4. op'[t] = Idle /\ UNCHANGED snapshot_announcements
  BY <1>1, IdleRecord, OpStep, Zenon DEF Release
<1>5. CallOK(t)'
  BY <1>2, <1>4, IdleRecord, IdleCall, Zenon
<1>6. \A o \in Objects, s \in 0..snapshot_slots : Shields(t, s, o)' => Shields(t, s, o)
  BY <1>1, <1>2, <1>4, IdleRecord, ManagerAssumption, Zenon DEF Shields
<1> QED
  BY <1>3, <1>5, <1>6, QuietKeeps, Zenon

LEMMA ProtectLoadKeeps ==
  ASSUME IInv, NEW t \in Threads, ProtectLoad(t), UNCHANGED <<live, ref_cnt, rc>>
  PROVE  IInv'
<1> DEFINE p == cell[op[t].loc]
           r == [op[t] EXCEPT !.ptr = p,
                              !.pc = IF p = null THEN "protect_null" ELSE "protect_announce"]
<1>1. /\ TypeOK /\ CallOK(t) /\ op[t] \in OpRecords /\ op[t].loc \in Locations
      /\ op[t].pc = "protect_load" /\ p \in Ptrs
  BY TypeView, Zenon DEF IInv, Calls, CallOK, ProtectLoad, At, Protect
<1>2. QuietTo(t, r)
  <2>1. r \in OpRecords
    BY <1>1, Zenon DEF OpRecords, ManagerPCs
  <2>2. r.pc \in {"protect_null", "protect_announce"}
    BY <1>1, Zenon DEF OpRecords
  <2> QED
    BY <1>1, <2>1, <2>2, TypeView, Zenon DEF QuietTo, ProtectLoad, At
<1>3. op'[t] = r /\ UNCHANGED <<announcement, snapshot_announcements, rc>>
  BY <1>1, <1>2, OpStep, Zenon DEF QuietTo, ProtectLoad
<1>4. Held(t) \subseteq Held(t)'
  BY <1>1, <1>3, HeldStep, Zenon DEF OpRecords
<1>5. CallOK(t)'
  BY <1>1, <1>3, <1>4, Zenon DEF CallOK, Acquiring, Protect, OpRecords, Ptrs
<1>6. \A o \in Objects, s \in 0..snapshot_slots : Shields(t, s, o)' => Shields(t, s, o)
  BY <1>1, <1>3, Zenon DEF Shields, OpRecords
<1> QED
  BY <1>2, <1>5, <1>6, QuietKeeps, Zenon

LEMMA ProtectNullKeeps ==
  ASSUME IInv, NEW t \in Threads, ProtectNull(t), UNCHANGED <<live, ref_cnt, rc>>
  PROVE  IInv'
<1>1. /\ TypeOK /\ CallOK(t) /\ op[t] \in OpRecords /\ op[t].pc = "protect_null"
      /\ op[t].slot \in Slots /\ announcement[t] = null
  BY TypeView, ManagerAssumption DEF IInv, Calls, CallOK, ProtectNull, At, Protect, OpRecords, Slots
<1>2. /\ snapshot_announcements' \in [Threads -> [Slots -> Ptrs]]
      /\ \A u \in Threads \ {t} : snapshot_announcements'[u] = snapshot_announcements[u]
      /\ \A s \in Slots : snapshot_announcements'[t][s] =
                            IF s = op[t].slot THEN null ELSE snapshot_announcements[t][s]
  BY <1>1, SlotStep, Zenon DEF ProtectNull, Ptrs
<1>3. QuietTo(t, Idle)
  BY <1>1, <1>2, IdleRecord, TypeView, Zenon DEF QuietTo, ProtectNull, At
<1>4. op'[t] = Idle /\ UNCHANGED announcement
  BY <1>1, IdleRecord, OpStep, Zenon DEF ProtectNull
<1>5. CallOK(t)'
  BY <1>1, <1>4, IdleRecord, IdleCall, Zenon
<1>6. \A o \in Objects, s \in 0..snapshot_slots : Shields(t, s, o)' => Shields(t, s, o)
  BY <1>1, <1>2, <1>4, IdleRecord, ManagerAssumption DEF Shields, Slots
<1> QED
  BY <1>3, <1>5, <1>6, QuietKeeps, Zenon

LEMMA ProtectAnnounceKeeps ==
  ASSUME IInv, NEW t \in Threads, ProtectAnnounce(t), UNCHANGED <<live, ref_cnt, rc>>
  PROVE  IInv'
<1> DEFINE r == [op[t] EXCEPT !.pc = "protect_check"]
<1>1. /\ TypeOK /\ CallOK(t) /\ op[t] \in OpRecords /\ op[t].pc = "protect_announce"
      /\ op[t].slot \in Slots /\ announcement[t] = null /\ op[t].ptr \in Objects
  BY TypeView, ManagerAssumption
  DEF IInv, Calls, CallOK, ProtectAnnounce, At, Protect, OpRecords, Slots
<1>2. /\ snapshot_announcements' \in [Threads -> [Slots -> Ptrs]]
      /\ \A u \in Threads \ {t} : snapshot_announcements'[u] = snapshot_announcements[u]
      /\ \A s \in Slots : snapshot_announcements'[t][s] =
                            IF s = op[t].slot THEN op[t].ptr ELSE snapshot_announcements[t][s]
  BY <1>1, SlotStep, Zenon DEF ProtectAnnounce, Ptrs
<1>3. QuietTo(t, r)
  <2>1. r \in OpRecords /\ r.pc = "protect_check"
    BY <1>1, Zenon DEF OpRecords, ManagerPCs
  <2> QED
    BY <1>1, <1>2, <2>1, TypeView, Zenon DEF QuietTo, ProtectAnnounce, At
<1>4. op'[t] = r /\ UNCHANGED <<announcement, rc>>
  BY <1>1, <1>3, OpStep, Zenon DEF QuietTo, ProtectAnnounce
<1>5. Held(t) \subseteq Held(t)'
  BY <1>1, <1>2, <1>4, HeldStep, Zenon DEF OpRecords
<1>6. CallOK(t)'
  BY <1>1, <1>2, <1>4, <1>5, Zenon DEF CallOK, Acquiring, Protect, OpRecords
<1>7. \A o \in Objects, s \in 0..snapshot_slots : Shields(t, s, o)' => Shields(t, s, o)
  BY <1>1, <1>2, <1>4 DEF Shields, OpRecords, Slots
<1> QED
  BY <1>3, <1>6, <1>7, QuietKeeps, Zenon

LEMMA ProtectCheckKeeps ==
  ASSUME IInv, NEW t \in Threads, ProtectCheck(t), UNCHANGED <<live, ref_cnt, rc>>
  PROVE  IInv'
<1> DEFINE l == op[t].loc
           again == [op[t] EXCEPT !.pc = "protect_load", !.ptr = null]
<1>0. PICK p : p = op[t].ptr
  BY Zenon
<1>1. /\ TypeOK /\ Locals /\ CallOK(t) /\ op[t] \in OpRecords /\ op[t].pc = "protect_check"
      /\ local[t].phase = "off" /\ l \in Locations /\ op[t].then = "idle" /\ op[t].slot \in Slots
      /\ announcement[t] = null /\ p \in Objects /\ snapshot_announcements[t][op[t].slot] = p
  BY <1>0, TypeView, ManagerAssumption
  DEF IInv, Calls, CallOK, ProtectCheck, At, Protect, OpRecords, Slots
<1>2. /\ UNCHANGED <<cell, announcement, snapshot_announcements, local, live, ref_cnt, rc>>
      /\ SetOp(t, IF cell[l] = p THEN Idle ELSE again)
  BY <1>0, <1>1, Zenon DEF ProtectCheck, Then
<1>3. again \in OpRecords /\ again.pc = "protect_load" /\ again.slot = op[t].slot
  BY <1>1, ManagerAssumption, Zenon DEF OpRecords, ManagerPCs, Ptrs
<1>4. CASE cell[l] # p
  <2>1. QuietTo(t, again) /\ op'[t] = again
    BY <1>1, <1>2, <1>3, <1>4, OpStep, TypeView, Zenon DEF QuietTo
  <2>2. Held(t) \subseteq Held(t)'
    BY <1>2, <1>3, <2>1, HeldStep, Zenon
  <2>3. CallOK(t)'
    BY <1>1, <1>2, <2>1, <2>2, Zenon DEF CallOK, Acquiring, Protect, OpRecords
  <2>4. \A o \in Objects, s \in 0..snapshot_slots : Shields(t, s, o)' => Shields(t, s, o)
    BY <1>1, <1>2, <1>3, <2>1, Zenon DEF Shields
  <2> QED
    BY <2>1, <2>3, <2>4, QuietKeeps, Zenon
<1>5. CASE cell[l] = p
  <2>1. QuietTo(t, Idle) /\ op'[t] = Idle
    BY <1>1, <1>2, <1>5, IdleRecord, OpStep, TypeView, Zenon DEF QuietTo
  <2>2. CallOK(t)'
    BY <1>1, <1>2, <2>1, IdleRecord, IdleCall, Zenon
  <2>3. \A o \in Objects \ {p}, s \in 0..snapshot_slots : Shields(t, s, o)' => Shields(t, s, o)
    BY <1>1, <1>2, <2>1, IdleRecord, Zenon DEF Shields
  <2>4. ASSUME NEW Q \in SlotSets PROVE Cardinality(Cells(p)) + KeptBy(t, Q, p)' > 0
    <3>1. IsFiniteSet(Cells(p)) /\ Cardinality(Cells(p)) \in Nat
      BY <1>1, Numbers, Zenon DEF Countable
    <3>2. Cardinality(Cells(p)) # 0
      BY <1>1, <1>5, <3>1, FS_EmptySet DEF Cells
    <3>3. KeptBy(t, Q, p)' \in Nat
      <4>1. (TypeOK /\ Locals => Countable)'
        BY Numbers, PTL
      <4>2. TypeOK' /\ Locals'
        BY <1>1, <1>2, <2>1, QuietFrame, Zenon DEF Locals, LocalOK
      <4> QED
        BY <1>1, <4>1, <4>2, Zenon DEF Countable
    <3> QED
      BY <3>1, <3>2, <3>3
  <2> QED
    BY <1>1, <2>1, <2>2, <2>3, <2>4, QuietProtects, Zenon
<1> QED
  BY <1>4, <1>5, Zenon

-----------------------------------------------------------------------------
\* Calls that only begin an operation or give up a slot.
LEMMA IdleFacts ==
  ASSUME IInv, NEW t \in Threads, At(t, "idle")
  PROVE  /\ TypeOK /\ Locals /\ op[t] \in OpRecords /\ op[t].pc = "idle" /\ op[t].slot = 0
         /\ op[t].loc = null /\ announcement[t] = null /\ local[t].phase = "off"
         /\ \A l \in Reachable(t) : l \in Locations /\ (l \in Objects => l \in Held(t))
         /\ Held(t) \subseteq Objects /\ Counted(t) \subseteq Objects /\ Snapshots(t) \subseteq Objects
<1>1. TypeOK /\ Locals /\ CallOK(t)
  BY Zenon DEF IInv, Calls
<1>2. Snapshots(t) \subseteq Objects /\ Counted(t) \subseteq Objects
  BY <1>1, TypeView DEF Snapshots, Counted, Ptrs
<1> QED
  BY <1>1, <1>2, TypeView, Zenon DEF CallOK, At, Protect, Reachable, Roots, Fields, Held

LEMMA ClearSnapshotKeeps ==
  ASSUME IInv, NEW t \in Threads, ClearSnapshot(t)
  PROVE  IInv'
<1>1. PICK s \in Slots : ClearSlot(t, s)
  BY Zenon DEF ClearSnapshot
<1>2. /\ TypeOK /\ op[t] \in OpRecords /\ op[t].pc = "idle" /\ op[t].slot = 0
      /\ op[t].loc = null /\ announcement[t] = null /\ local[t].phase = "off"
  BY IdleFacts, Zenon DEF ClearSnapshot, CanCall
<1>3. /\ snapshot_announcements' \in [Threads -> [Slots -> Ptrs]]
      /\ \A u \in Threads \ {t} : snapshot_announcements'[u] = snapshot_announcements[u]
      /\ \A r \in Slots : snapshot_announcements'[t][r] =
                            IF r = s THEN null ELSE snapshot_announcements[t][r]
  BY <1>1, <1>2, SlotStep, Zenon DEF ClearSlot, Ptrs
<1>4. UNCHANGED <<op, announcement>> /\ SetOp(t, op[t])
  BY <1>2, TypeView, Zenon DEF ClearSnapshot, SetOp
<1>5. QuietTo(t, op[t])
  BY <1>2, <1>3, <1>4, TypeView, Zenon DEF QuietTo, ClearSnapshot
<1>6. CallOK(t)'
  BY <1>2, <1>4, IdleCall, Zenon
<1>7. \A o \in Objects, r \in 0..snapshot_slots : Shields(t, r, o)' => Shields(t, r, o)
  BY <1>2, <1>3, <1>4, ManagerAssumption DEF Shields, Slots
<1> QED
  BY <1>5, <1>6, <1>7, QuietKeeps, Zenon

LEMMA LoadKeeps ==
  ASSUME IInv, NEW t \in Threads, Load(t)
  PROVE  IInv'
<1>1. PICK l \in Reachable(t) : StartAcquire(t, l, "load_inc")
  BY Zenon DEF Load
<1> DEFINE r == [Idle EXCEPT !.pc = "acquire_load", !.loc = l, !.then = "load_inc"]
<1>2. /\ TypeOK /\ op[t].pc = "idle" /\ op[t].slot = 0 /\ announcement[t] = null
      /\ local[t].phase = "off" /\ l \in Locations /\ (l \in Objects => l \in Held(t))
  BY IdleFacts, Zenon DEF Load, CanCall
<1>3. r \in OpRecords /\ r.pc = "acquire_load" /\ r.loc = l /\ r.slot = 0 /\ r.then = "load_inc"
  <2> DEFINE k == [Idle EXCEPT !.pc = "acquire_load", !.loc = l]
  <2>1. k \in OpRecords /\ k.pc = "acquire_load" /\ k.loc = l /\ k.slot = 0
    BY <1>2, IdleRecord, Zenon DEF OpRecords, ManagerPCs
  <2>2. r = [k EXCEPT !.then = "load_inc"]
    BY Zenon
  <2> HIDE DEF r, k
  <2> QED
    BY <2>1, <2>2, Zenon DEF OpRecords, PCs
<1>4. /\ op'[t] = r /\ SetOp(t, r)
      /\ UNCHANGED <<cell, live, ref_cnt, announcement, snapshot_announcements, local, rc>>
  BY <1>1, <1>2, <1>3, OpStep, Zenon DEF StartAcquire, Load
<1> HIDE DEF r
<1>5. QuietTo(t, r)
  BY <1>2, <1>3, <1>4, TypeView, Zenon DEF QuietTo
<1>6. Held(t) \subseteq Held(t)'
  BY <1>2, <1>3, <1>4, IdleRecord, HeldStep, Zenon
<1>7. CallOK(t)'
  BY <1>2, <1>3, <1>4, <1>6, Zenon DEF CallOK, Acquiring, Protect
<1>8. \A o \in Objects, s \in 0..snapshot_slots : Shields(t, s, o)' => Shields(t, s, o)
  BY <1>2, <1>3, <1>4, Zenon DEF Shields
<1> QED
  BY <1>5, <1>7, <1>8, QuietKeeps, Zenon

LEMMA GetSnapshotKeeps ==
  ASSUME IInv, NEW t \in Threads, GetSnapshot(t)
  PROVE  IInv'
<1>1. PICK l \in Reachable(t) : StartProtect(t, l, "idle")
  BY Zenon DEF GetSnapshot
<1>2. PICK s \in Slots :
        /\ FreeSlot(t, s)
        /\ SetOp(t, [Idle EXCEPT !.pc = "protect_load", !.loc = l, !.then = "idle", !.slot = s])
  BY <1>1, Zenon DEF StartProtect
<1> DEFINE r == [Idle EXCEPT !.pc = "protect_load", !.loc = l, !.then = "idle", !.slot = s]
<1>3. /\ TypeOK /\ op[t].pc = "idle" /\ op[t].slot = 0 /\ announcement[t] = null
      /\ local[t].phase = "off" /\ l \in Locations /\ (l \in Objects => l \in Held(t))
      /\ snapshot_announcements[t][s] = null
  BY <1>2, IdleFacts, Zenon DEF GetSnapshot, CanCall, FreeSlot
<1>4. /\ r \in OpRecords /\ r.pc = "protect_load" /\ r.loc = l /\ r.slot = s /\ r.then = "idle"
      /\ s # 0
  <2>1. s \in 0..snapshot_slots /\ s # 0
    BY ManagerAssumption DEF Slots
  <2> QED
    BY <1>3, <2>1, ManagerAssumption, Zenon DEF OpRecords, Idle, ManagerPCs, Ptrs
<1>5. /\ op'[t] = r /\ SetOp(t, r)
      /\ UNCHANGED <<cell, live, ref_cnt, announcement, snapshot_announcements, local, rc>>
  BY <1>2, <1>3, <1>4, OpStep, Zenon DEF GetSnapshot
<1> HIDE DEF r
<1>6. QuietTo(t, r)
  BY <1>3, <1>4, <1>5, TypeView, Zenon DEF QuietTo
<1>7. Held(t) \subseteq Held(t)'
  BY <1>3, <1>4, <1>5, HeldStep, Zenon
<1>8. CallOK(t)'
  BY <1>3, <1>4, <1>5, <1>7, Zenon DEF CallOK, Acquiring, Protect
<1>9. \A o \in Objects, q \in 0..snapshot_slots : Shields(t, q, o)' => Shields(t, q, o)
  BY <1>3, <1>4, <1>5, Zenon DEF Shields
<1> QED
  BY <1>6, <1>8, <1>9, QuietKeeps, Zenon

\* The reservation: an announced rc_ptr is one that the thread keeps until it
\* has released the announcement.
LEMMA CompareAndSwapKeeps ==
  ASSUME IInv, NEW t \in Threads, CompareAndSwap(t)
  PROVE  IInv'
<1>1. PICK l \in Reachable(t), exp \in Held(t) \cup {null}, des \in Held(t) \cup {null} :
        /\ SetOp(t, [Idle EXCEPT !.pc = "cas", !.loc = l, !.ptr = des, !.old = exp])
        /\ \/ des \in Counted(t) \cup {null} /\ announcement' = [announcement EXCEPT ![t] = des]
           \/ des \in Snapshots(t) /\ UNCHANGED announcement
  BY Zenon DEF CompareAndSwap
<1> DEFINE r == [Idle EXCEPT !.pc = "cas", !.loc = l, !.ptr = des, !.old = exp]
<1>2. /\ TypeOK /\ Locals /\ op[t].pc = "idle" /\ op[t].slot = 0 /\ announcement[t] = null
      /\ local[t].phase = "off" /\ l \in Locations /\ (l \in Objects => l \in Held(t))
      /\ des \in Ptrs /\ exp \in Ptrs
  BY IdleFacts, Zenon DEF CompareAndSwap, CanCall, Ptrs
<1>3. r \in OpRecords /\ r.pc = "cas" /\ r.loc = l /\ r.slot = 0 /\ r.ptr = des
  <2> DEFINE k == [Idle EXCEPT !.pc = "cas", !.loc = l]
  <2>1. k \in OpRecords /\ k.pc = "cas" /\ k.loc = l /\ k.slot = 0
    BY <1>2, IdleRecord, Zenon DEF OpRecords, PCs
  <2>2. r = [k EXCEPT !.ptr = des, !.old = exp]
    BY Zenon
  <2> HIDE DEF r, k
  <2> QED
    BY <1>2, <2>1, <2>2, Zenon DEF OpRecords
<1>4. /\ op'[t] = r /\ SetOp(t, r)
      /\ UNCHANGED <<cell, live, ref_cnt, snapshot_announcements, local, rc>>
  BY <1>1, <1>2, <1>3, OpStep, Zenon DEF CompareAndSwap
<1> HIDE DEF r
<1>5. /\ announcement' \in [Threads -> Ptrs]
      /\ \A u \in Threads \ {t} : announcement'[u] = announcement[u]
      /\ \/ des \in Counted(t) \cup {null} /\ announcement'[t] = des
         \/ des \in Snapshots(t) /\ announcement'[t] = null
  BY <1>1, <1>2, TypeView, Zenon
<1>6. QuietTo(t, r)
  BY <1>2, <1>3, <1>4, <1>5, TypeView, Zenon DEF QuietTo
<1>7. Held(t) \subseteq Held(t)' /\ Snapshots(t) \subseteq Snapshots(t)'
  BY <1>2, <1>3, <1>4, IdleRecord, HeldStep, Zenon
<1>8. CallOK(t)'
  BY <1>2, <1>3, <1>4, <1>5, <1>7, Zenon DEF CallOK, Acquiring, Protect
<1>9. CASE announcement'[t] = null
  <2>1. \A o \in Objects, s \in 0..snapshot_slots : Shields(t, s, o)' => Shields(t, s, o)
    BY <1>2, <1>3, <1>4, <1>9, ManagerAssumption, Zenon DEF Shields
  <2> QED
    BY <1>6, <1>8, <2>1, QuietKeeps, Zenon
<1>10. CASE announcement'[t] # null
  <2>1. announcement'[t] = des /\ des \in Objects /\ rc[t][des] > 0
    BY <1>5, <1>10, Zenon DEF Counted
  <2>2. \A o \in Objects \ {des}, s \in 0..snapshot_slots : Shields(t, s, o)' => Shields(t, s, o)
    BY <1>2, <1>3, <1>4, <2>1, Zenon DEF Shields
  <2>3. ASSUME NEW Q \in SlotSets, Q \subseteq Protecting(des)', ~(Q \subseteq Protecting(des))
        PROVE  Cardinality(Cells(des)) + KeptBy(t, Q, des)' > 0
    <3>1. Frame(t) /\ TypeOK' /\ Locals'
      BY <1>2, <1>4, <1>6, QuietFrame, Zenon DEF Locals, LocalOK
    <3>2. PICK i \in Q : i \notin Protecting(des)
      BY <2>3, Zenon
    <3>3. SlotThread(i) = t /\ Shields(t, SlotNumber(i), des)' /\ ~Shields(t, SlotNumber(i), des)
          /\ SlotNumber(i) \in 0..snapshot_slots
      BY <2>3, <3>1, <3>2, NewSlots, Zenon
    <3>4. SlotNumber(i) = 0
      BY <1>2, <1>3, <1>4, <3>3, Zenon DEF Shields
    <3>5. Reserves(t, Q)'
      BY <1>3, <1>4, <3>3, <3>4, Zenon DEF Reserves, SlotThread, SlotNumber
    <3>6. RcKept(t, Q, des)' = rc[t][des]
      BY <1>4, <3>5, Zenon DEF RcKept
    <3>7. Countable /\ Countable'
      <4>1. (TypeOK /\ Locals => Countable)'
        BY Numbers, PTL
      <4> QED
        BY <1>2, <3>1, <4>1, Numbers, Zenon
    <3>8. /\ Cardinality(Cells(des)) \in Nat /\ rc[t][des] \in Nat
          /\ KeptOf(local'[t], Q, Strong(des)) \in Nat /\ OldRef(t, des)' \in Nat
      BY <2>1, <3>7, Zenon DEF Countable
    <3>9. KeptBy(t, Q, des)' = KeptOf(local'[t], Q, Strong(des)) + RcKept(t, Q, des)' + OldRef(t, des)'
      BY Zenon DEF KeptBy
    <3> QED
      BY <2>1, <3>6, <3>8, <3>9
  <2> QED
    BY <1>6, <1>8, <2>1, <2>2, <2>3, QuietProtects, Zenon
<1> QED
  BY <1>9, <1>10, Zenon

-----------------------------------------------------------------------------
\* Steps that move references.  In its lists thread t has one more decrement
\* of p, which it retired, and one less of x, which it ejected.
Listed(t, p, x) ==
  /\ LocalOK(local'[t])
  /\ Ending(local'[t]) => Ending(local[t])
  /\ \A o \in Objects :
       /\ Total(local'[t], Strong(o)) + Bit(o = x) = Total(local[t], Strong(o)) + Bit(o = p)
       /\ \A Q \in SlotSets : Q \subseteq Protecting(o) =>
            \/ KeptOf(local'[t], Q, Strong(o)) >= KeptOf(local[t], Q, Strong(o)) + Bit(o = p)
            \/ KeptOf(local'[t], Q, Strong(o)) > Cardinality(Q)

LEMMA RetiredListed ==
  ASSUME TypeOK, Locals, NEW t \in Threads, NEW p \in Ptrs, Retired(local[t], local'[t], Strong(p))
  PROVE  Listed(t, p, null)
<1>1. \A o \in Objects : (Strong(o) = Strong(p) <=> o = p) /\ o # null /\ Strong(o) \in Entries
  BY StrongView, ManagerAssumption, Zenon
<1>2. \A o \in Objects : Total(local[t], Strong(o)) \in Nat
  BY Numbers, Zenon DEF Countable
<1> QED
  BY <1>1, <1>2 DEF Retired, Listed, Bit, Ending

LEMMA NothingRetired ==
  ASSUME TypeOK, Locals, NEW t \in Threads, local' = local
  PROVE  Listed(t, null, null)
<1>1. Strong(null) \notin Entries
  BY ManagerAssumption, Zenon DEF Strong, Entries
<1>2. Retired(local[t], local'[t], Strong(null))
  BY <1>1, SameLists, Zenon DEF Locals
<1> QED
  BY <1>2, RetiredListed, Zenon DEF Ptrs

LEMMA RefRetired ==
  ASSUME TypeOK, Locals, NEW t \in Threads, NEW p \in Ptrs,
         local' = [local EXCEPT ![t] = RetireRef(@, p)]
  PROVE  /\ Listed(t, p, null) /\ local' \in [Threads -> Local]
         /\ \A u \in Threads \ {t} : local'[u] = local[u]
<1>1. local'[t] = Retire(local[t], p, "decrement_strong_count")
  BY TypeView, Zenon DEF RetireRef
<1>2. Retired(local[t], local'[t], Strong(p))
  BY <1>1, RetireRetires, ClientAssumption, Zenon DEF Locals, Strong
<1>3. Listed(t, p, null)
  BY <1>2, RetiredListed, Zenon
<1>4. local'[t] \in Local
  BY <1>3, Zenon DEF Listed, LocalOK
<1> QED
  BY <1>3, <1>4, TypeView, Zenon

\* The books of o.
Books(t, p, x, o) ==
  /\ ref_cnt'[o] + Bit(Installs(t, o)') + Cardinality(Cells(o)) + rc[t][o] + OldRef(t, o) + Bit(o = x)
       = ref_cnt[o] + Bit(Installs(t, o)) + Cardinality(Cells(o)') + rc'[t][o] + OldRef(t, o)' + Bit(o = p)
  /\ \A Q \in SlotSets : Q \subseteq Protecting(o) /\ Q \subseteq Protecting(o)' =>
       Cardinality(Cells(o)') + Bit(o = p) + RcKept(t, Q, o)' + OldRef(t, o)'
           + Bit(Installs(t, o) /\ HasSlot(t, Q))
         >= Cardinality(Cells(o)) + RcKept(t, Q, o) + OldRef(t, o)
              + Bit(Installs(t, o)' /\ HasSlot(t, Q))

LEMMA BookStep ==
  ASSUME IInv, NEW t \in Threads, Frame(t), TypeOK', CallOK(t)', DeadFields', Living',
         ~Ending(local[t]) \/ Draining', NEW p, NEW x, Listed(t, p, x),
         \A o \in Objects, s \in 0..snapshot_slots : Shields(t, s, o)' => Shields(t, s, o),
         \A o \in Objects : Books(t, p, x, o)
  PROVE  IInv'
<1>1. TypeOK /\ Locals /\ Guarded /\ LocalOK(local[t])'
  BY Zenon DEF IInv, Listed, LocalOK
<1>2. Locals' /\ Calls' /\ (Balanced(t) => Exact')
  BY <1>1, ThreadStep, Zenon
<1>3. Draining'
  <2>1. CASE ~Ending(local[t])
    <3>1. ~Ending(local'[t])
      BY <2>1, Zenon DEF Listed, Ending
    <3> QED
      BY <1>1, <2>1, <3>1, ThreadStep, Zenon
  <2> QED
    BY <2>1, Zenon
<1>4. Countable /\ Countable'
  <2>1. (TypeOK /\ Locals => Countable)'
    BY Numbers, PTL
  <2> QED
    BY <1>1, <1>2, <2>1, Numbers, Zenon
<1>5. ASSUME NEW o \in Objects
      PROVE  ref_cnt'[o] + Bit(Installs(t, o)') + Cardinality(Cells(o)) + RefsOf(t, o)
               = ref_cnt[o] + Bit(Installs(t, o)) + Cardinality(Cells(o)') + RefsOf(t, o)'
  <2>1. /\ Deferred(t, o) = Total(local[t], Strong(o)) /\ Total(local[t], Strong(o)) \in Nat
        /\ Deferred(t, o)' = Total(local'[t], Strong(o)) /\ Total(local'[t], Strong(o)) \in Nat
        /\ rc[t][o] \in Nat /\ rc'[t][o] \in Nat /\ OldRef(t, o) \in Nat /\ OldRef(t, o)' \in Nat
        /\ Cardinality(Cells(o)) \in Nat /\ Cardinality(Cells(o)') \in Nat
    BY <1>4, Zenon DEF Countable
  <2>2. RefsOf(t, o) = rc[t][o] + Deferred(t, o) + OldRef(t, o)
        /\ RefsOf(t, o)' = rc'[t][o] + Deferred(t, o)' + OldRef(t, o)'
    BY Zenon DEF RefsOf
  <2>3. Total(local'[t], Strong(o)) + Bit(o = x) = Total(local[t], Strong(o)) + Bit(o = p)
    BY Zenon DEF Listed
  <2>4. ref_cnt[o] \in Nat /\ ref_cnt'[o] \in Nat
    <3>1. (TypeOK => ref_cnt \in [Objects -> Nat])'
      BY TypeView, PTL
    <3> QED
      BY <1>1, <3>1, TypeView, Zenon
  <2>5. ref_cnt'[o] + Bit(Installs(t, o)') + Cardinality(Cells(o)) + rc[t][o] + OldRef(t, o) + Bit(o = x)
          = ref_cnt[o] + Bit(Installs(t, o)) + Cardinality(Cells(o)') + rc'[t][o] + OldRef(t, o)' + Bit(o = p)
    BY Zenon DEF Books
  <2>6. \A b \in {o = x, o = p, Installs(t, o), Installs(t, o)'} : Bit(b) \in Nat
    BY Zenon DEF Bit
  <2> QED
    BY <2>1, <2>2, <2>3, <2>4, <2>5, <2>6
<1>6. ASSUME NEW o \in Objects, NEW Q \in SlotSets,
             Q \subseteq Protecting(o), Q \subseteq Protecting(o)'
      PROVE  Firm(t, Q, o)
  <2>1. /\ KeptOf(local[t], Q, Strong(o)) \in Nat /\ KeptOf(local'[t], Q, Strong(o)) \in Nat
        /\ RcKept(t, Q, o) \in Nat /\ RcKept(t, Q, o)' \in Nat
        /\ OldRef(t, o) \in Nat /\ OldRef(t, o)' \in Nat
        /\ Cardinality(Cells(o)) \in Nat /\ Cardinality(Cells(o)') \in Nat
    BY <1>4, Zenon DEF Countable
  <2>2. /\ KeptBy(t, Q, o) = KeptOf(local[t], Q, Strong(o)) + RcKept(t, Q, o) + OldRef(t, o)
        /\ KeptBy(t, Q, o)' = KeptOf(local'[t], Q, Strong(o)) + RcKept(t, Q, o)' + OldRef(t, o)'
    BY Zenon DEF KeptBy
  <2>3. \/ KeptOf(local'[t], Q, Strong(o)) >= KeptOf(local[t], Q, Strong(o)) + Bit(o = p)
        \/ KeptOf(local'[t], Q, Strong(o)) > Cardinality(Q)
    BY <1>6, Zenon DEF Listed
  <2>4. Cardinality(Cells(o)') + Bit(o = p) + RcKept(t, Q, o)' + OldRef(t, o)'
            + Bit(Installs(t, o) /\ HasSlot(t, Q))
          >= Cardinality(Cells(o)) + RcKept(t, Q, o) + OldRef(t, o)
               + Bit(Installs(t, o)' /\ HasSlot(t, Q))
    BY <1>6, Zenon DEF Books
  <2>5. \A b \in {o = p, Installs(t, o) /\ HasSlot(t, Q), Installs(t, o)' /\ HasSlot(t, Q)} :
          Bit(b) \in Nat
    BY Zenon DEF Bit
  <2> QED
    BY <2>1, <2>2, <2>3, <2>4, <2>5 DEF Firm
<1>7. Exact'
  BY <1>2, <1>5, Zenon DEF Balanced
<1>8. Guarded'
  BY <1>1, <1>2, <1>6, GuardedStep, Zenon
<1> QED
  BY <1>2, <1>3, <1>7, <1>8, Zenon DEF IInv

LEMMA RcStep ==
  ASSUME TypeOK, NEW t \in Threads, NEW x \in Objects,
         \/ Owns(t, x)
         \/ GivesUp(t, x) /\ rc[t][x] > 0
  PROVE  /\ rc' \in [Threads -> [Objects -> Nat]] /\ \A u \in Threads \ {t} : rc'[u] = rc[u]
         /\ Owns(t, x) => \A o \in Objects : rc'[t][o] = rc[t][o] + Bit(o = x)
         /\ GivesUp(t, x) => \A o \in Objects : rc'[t][o] = rc[t][o] - Bit(o = x)
<1>1. rc \in [Threads -> [Objects -> Nat]]
  BY TypeView, Zenon
<1>2. CASE Owns(t, x)
  BY <1>1, <1>2 DEF Owns, GivesUp, AddTo, TakeFrom, Bit
<1>3. CASE GivesUp(t, x) /\ rc[t][x] > 0
  BY <1>1, <1>3 DEF Owns, GivesUp, AddTo, TakeFrom, Bit
<1> QED
  BY <1>2, <1>3, Zenon

\* A thread writes only to the members of objects that are there.
LEMMA WriteAlive ==
  ASSUME IInv, NEW t \in Threads, NEW l \in Locations, l \in Objects => l \in Held(t), NEW v,
         cell' = [cell EXCEPT ![l] = v], live' = live
  PROVE  DeadFields'
<1>1. l \in Objects => l \in live
  BY HeldLives, Zenon DEF IInv
<1>2. cell \in [Locations -> Ptrs]
  BY TypeView, Zenon DEF IInv
<1> QED
  BY <1>1, <1>2, Zenon DEF IInv, DeadFields, Fields

LEMMA AddRefStep ==
  ASSUME TypeOK, Living, NEW p \in Objects, ref_cnt[p] > 0, AddRef(p), live' = live
  PROVE  /\ ref_cnt' \in [Objects -> Nat] /\ Living'
         /\ \A o \in Objects : ref_cnt'[o] = ref_cnt[o] + Bit(o = p)
BY TypeView DEF AddRef, Living, Bit

\* A call that is over at once.
LEMMA AtOnce ==
  ASSUME IInv, NEW t \in Threads, At(t, "idle"),
         UNCHANGED <<op, announcement, snapshot_announcements>>
  PROVE  /\ CallOK(t)' /\ ~Ending(local[t])
         /\ \A o \in Objects :
              /\ \A s \in 0..snapshot_slots : Shields(t, s, o)' => Shields(t, s, o)
              /\ ~Installs(t, o) /\ ~Installs(t, o)' /\ OldRef(t, o) = 0 /\ OldRef(t, o)' = 0
              /\ \A Q : /\ RcKept(t, Q, o) = IF NeverClears(t) THEN rc[t][o] ELSE 0
                        /\ RcKept(t, Q, o)' = IF NeverClears(t) THEN rc'[t][o] ELSE 0
<1>1. /\ op[t].pc = "idle" /\ op[t].slot = 0 /\ op[t].loc = null /\ announcement[t] = null
      /\ local[t].phase = "off"
  BY IdleFacts, Zenon
<1>2. CallOK(t)' /\ ~Ending(local[t])
  BY <1>1, IdleCall, Zenon DEF Ending
<1>3. \A Q : ~Reserves(t, Q) /\ ~Reserves(t, Q)'
  BY <1>1, Zenon DEF Reserves
<1> QED
  BY <1>1, <1>2, <1>3, Zenon DEF Shields, Installs, OldRef, RcKept, Bit, NeverClears

\* store(rc_ptr), store(nullptr), and compare_and_swap(rc_ptr&&).
LEMMA MoveKeeps ==
  ASSUME IInv, NEW t \in Threads, At(t, "idle"), NEW l \in Reachable(t),
         NEW new \in Counted(t) \cup {null}, cell' = [cell EXCEPT ![l] = new],
         NEW p, p = cell[l], local' = [local EXCEPT ![t] = RetireRef(@, p)],
         IF new = null THEN UNCHANGED rc ELSE GivesUp(t, new),
         UNCHANGED <<live, ref_cnt, announcement, snapshot_announcements, op>>
  PROVE  IInv'
<1>1. /\ TypeOK /\ Locals /\ Living /\ l \in Locations /\ (l \in Objects => l \in Held(t))
      /\ new \in Ptrs /\ p \in Ptrs
  BY IdleFacts, TypeView, Zenon DEF IInv, Ptrs
<1>2. /\ Listed(t, p, null) /\ local' \in [Threads -> Local]
      /\ \A u \in Threads \ {t} : local'[u] = local[u]
  BY <1>1, RefRetired, Zenon
<1>3. /\ rc' \in [Threads -> [Objects -> Nat]] /\ \A u \in Threads \ {t} : rc'[u] = rc[u]
      /\ \A o \in Objects : rc'[t][o] = rc[t][o] - Bit(o = new)
  <2>1. CASE new = null
    BY <1>1, <2>1, TypeView, ManagerAssumption DEF Bit
  <2>2. CASE new # null
    BY <1>1, <2>2, RcStep DEF Counted
  <2> QED
    BY <2>1, <2>2, Zenon
<1>4. cell' \in [Locations -> Ptrs]
  BY <1>1, TypeView, Zenon
<1>5. TypeOK' /\ Frame(t)
  BY <1>1, <1>2, <1>3, <1>4, TypeStep, TypeView, Zenon DEF Frame
<1>6. DeadFields' /\ Living'
  BY <1>1, WriteAlive, Zenon DEF Living
<1>7. ASSUME NEW o \in Objects PROVE Books(t, p, null, o)
  <2>1. /\ Cardinality(Cells(o)) \in Nat /\ Cardinality(Cells(o)') \in Nat
        /\ Cardinality(Cells(o)') = Cardinality(Cells(o)) + Bit(new = o) - Bit(p = o)
    BY <1>1, CellsStep, Zenon DEF Bit
  <2>2. o # null /\ ref_cnt[o] \in Nat /\ rc[t][o] \in Nat /\ rc'[t][o] \in Nat
    BY <1>1, <1>3, ManagerAssumption, TypeView
  <2>3. /\ ~Installs(t, o) /\ ~Installs(t, o)' /\ OldRef(t, o) = 0 /\ OldRef(t, o)' = 0
        /\ \A Q : /\ RcKept(t, Q, o) = IF NeverClears(t) THEN rc[t][o] ELSE 0
                  /\ RcKept(t, Q, o)' = IF NeverClears(t) THEN rc'[t][o] ELSE 0
    BY AtOnce, Zenon
  <2> QED
    BY <1>3, <2>1, <2>2, <2>3 DEF Books, Bit
<1> QED
  BY <1>2, <1>5, <1>6, <1>7, AtOnce, BookStep, Zenon

LEMMA StoreRcKeeps ==
  ASSUME IInv, NEW t \in Threads, StoreRc(t) PROVE IInv'
BY MoveKeeps, Zenon DEF StoreRc, CanCall

LEMMA CompareAndSwapMoveKeeps ==
  ASSUME IInv, NEW t \in Threads, CompareAndSwapMove(t) PROVE IInv'
BY MoveKeeps, Zenon DEF CompareAndSwapMove, CanCall

\* What an exchange takes out, the thread does not clear.
LEMMA ExchangeKeeps ==
  ASSUME ExchangedNeverCleared, IInv, NEW t \in Threads, Exchange(t) PROVE IInv'
<1>1. PICK l \in Reachable(t), new \in Counted(t) \cup {null} :
        /\ cell' = [cell EXCEPT ![l] = new]
        /\ rc' = [rc EXCEPT ![t] =
             [o \in Objects |-> @[o] + (IF o = cell[l] THEN 1 ELSE 0)
                                     - (IF o = new THEN 1 ELSE 0)]]
  BY Zenon DEF Exchange
<1>2. /\ TypeOK /\ Locals /\ Living /\ l \in Locations /\ (l \in Objects => l \in Held(t))
      /\ new \in Ptrs /\ At(t, "idle") /\ NeverClears(t)
      /\ UNCHANGED <<live, ref_cnt, announcement, snapshot_announcements, local, op>>
  BY IdleFacts, Zenon DEF IInv, Ptrs, Exchange, CanCall, ExchangedNeverCleared, NeverClears
<1>3. PICK p : p = cell[l]
  BY Zenon
<1>4. /\ rc' \in [Threads -> [Objects -> Nat]] /\ \A u \in Threads \ {t} : rc'[u] = rc[u]
      /\ \A o \in Objects : rc'[t][o] = rc[t][o] + Bit(o = p) - Bit(o = new)
  <2>1. rc \in [Threads -> [Objects -> Nat]] /\ \A o \in Objects : o = new => rc[t][o] > 0
    BY <1>2, TypeView, ManagerAssumption, Zenon DEF Counted
  <2>2. \A o \in Objects : /\ rc'[t][o] = rc[t][o] + Bit(o = p) - Bit(o = new)
                           /\ rc'[t][o] \in Nat
    BY <1>1, <1>3, <2>1 DEF Bit
  <2>3. rc'[t] \in [Objects -> Nat]
    BY <1>1, <2>1, <2>2, Zenon
  <2> QED
    BY <1>1, <2>1, <2>2, <2>3, Zenon
<1>5. TypeOK' /\ Frame(t)
  <2>1. cell' \in [Locations -> Ptrs]
    BY <1>1, <1>2, TypeView, Zenon
  <2> QED
    BY <1>2, <1>4, <2>1, TypeStep, TypeView, Zenon DEF Frame
<1>6. DeadFields' /\ Living'
  BY <1>1, <1>2, WriteAlive, Zenon DEF Living
<1>7. ASSUME NEW o \in Objects PROVE Books(t, null, null, o)
  <2>1. /\ Cardinality(Cells(o)) \in Nat /\ Cardinality(Cells(o)') \in Nat
        /\ Cardinality(Cells(o)') = Cardinality(Cells(o)) + Bit(new = o) - Bit(p = o)
    BY <1>1, <1>2, <1>3, CellsStep, Zenon DEF Bit
  <2>2. o # null /\ ref_cnt[o] \in Nat /\ rc[t][o] \in Nat /\ rc'[t][o] \in Nat
    BY <1>2, <1>4, ManagerAssumption, TypeView
  <2>3. /\ ~Installs(t, o) /\ ~Installs(t, o)' /\ OldRef(t, o) = 0 /\ OldRef(t, o)' = 0
        /\ \A Q : RcKept(t, Q, o) = rc[t][o] /\ RcKept(t, Q, o)' = rc'[t][o]
    BY <1>2, AtOnce, Zenon
  <2> QED
    BY <1>2, <1>4, <2>1, <2>2, <2>3 DEF Books, Bit
<1> QED
  BY <1>2, <1>5, <1>6, <1>7, AtOnce, NothingRetired, BookStep, Zenon
-----------------------------------------------------------------------------
\* make_shared, and copies: one more reference that is counted.
LEMMA OwnKeeps ==
  ASSUME IInv, NEW t \in Threads, At(t, "idle"), NEW x \in Objects, Owns(t, x),
         ref_cnt' \in [Objects -> Nat],
         \A o \in Objects : ref_cnt'[o] = ref_cnt[o] + Bit(o = x),
         Living', live \subseteq live', live' \subseteq Objects,
         UNCHANGED <<cell, announcement, snapshot_announcements, local, op>>
  PROVE  IInv'
<1>1. TypeOK /\ Locals /\ DeadFields
  BY Zenon DEF IInv
<1>2. /\ rc' \in [Threads -> [Objects -> Nat]] /\ \A u \in Threads \ {t} : rc'[u] = rc[u]
      /\ \A o \in Objects : rc'[t][o] = rc[t][o] + Bit(o = x)
  BY <1>1, RcStep
<1>3. TypeOK' /\ Frame(t)
  BY <1>1, <1>2, TypeStep, TypeView, Zenon DEF Frame
<1>4. DeadFields'
  BY <1>1, Zenon DEF DeadFields, Fields
<1>5. ASSUME NEW o \in Objects PROVE Books(t, null, null, o)
  <2>1. Cardinality(Cells(o)') = Cardinality(Cells(o)) /\ Cardinality(Cells(o)) \in Nat
    BY <1>1, CellsSame, Numbers, Zenon DEF Countable
  <2>2. o # null /\ ref_cnt[o] \in Nat /\ rc[t][o] \in Nat
    BY <1>1, ManagerAssumption, TypeView
  <2>3. /\ ~Installs(t, o) /\ ~Installs(t, o)' /\ OldRef(t, o) = 0 /\ OldRef(t, o)' = 0
        /\ \A Q : /\ RcKept(t, Q, o) = IF NeverClears(t) THEN rc[t][o] ELSE 0
                  /\ RcKept(t, Q, o)' = IF NeverClears(t) THEN rc'[t][o] ELSE 0
    BY AtOnce, Zenon
  <2> QED
    BY <1>2, <2>1, <2>2, <2>3 DEF Books, Bit
<1> QED
  BY <1>1, <1>3, <1>4, <1>5, AtOnce, NothingRetired, BookStep, Zenon

LEMMA MakeSharedKeeps ==
  ASSUME IInv, NEW t \in Threads, MakeShared(t) PROVE IInv'
<1>1. PICK x \in Objects \ live :
        live' = live \cup {x} /\ ref_cnt' = [ref_cnt EXCEPT ![x] = 1] /\ Owns(t, x)
  BY Zenon DEF MakeShared
<1>2. /\ ref_cnt \in [Objects -> Nat] /\ live \subseteq Objects /\ ref_cnt[x] = 0
  BY <1>1, TypeView DEF IInv, Living
<1>3. /\ ref_cnt' \in [Objects -> Nat] /\ Living'
      /\ \A o \in Objects : ref_cnt'[o] = ref_cnt[o] + Bit(o = x)
  BY <1>1, <1>2 DEF IInv, Living, Bit
<1> QED
  BY <1>1, <1>2, <1>3, OwnKeeps DEF MakeShared, CanCall

LEMMA CopyToRcKeeps ==
  ASSUME IInv, NEW t \in Threads, CopyToRc(t) PROVE IInv'
<1>1. PICK x \in Held(t) : AddRef(x) /\ Owns(t, x)
  BY Zenon DEF CopyToRc
<1>2. x \in Objects /\ ref_cnt[x] > 0
  BY HeldLives, Zenon DEF IInv
<1>3. TypeOK /\ Living /\ live' = live /\ live \subseteq Objects
  BY TypeView, Zenon DEF IInv, CopyToRc
<1>4. /\ ref_cnt' \in [Objects -> Nat] /\ Living'
      /\ \A o \in Objects : ref_cnt'[o] = ref_cnt[o] + Bit(o = x)
  BY <1>1, <1>2, <1>3, AddRefStep, Zenon
<1> QED
  BY <1>1, <1>2, <1>3, <1>4, OwnKeeps, Zenon DEF CopyToRc, CanCall

-----------------------------------------------------------------------------
\* The steps inside an operation.
LEMMA LoadIncrementKeeps ==
  ASSUME IInv, NEW t \in Threads, LoadIncrement(t) PROVE IInv'
<1>1. PICK p : p = op[t].ptr
  BY Zenon
<1> DEFINE r == [Idle EXCEPT !.pc = "release"]
<1>2. /\ TypeOK /\ Locals /\ Living /\ CallOK(t) /\ op[t] \in OpRecords /\ op[t].pc = "load_inc"
      /\ p \in Objects /\ announcement[t] = p /\ op[t].slot = 0 /\ local[t].phase = "off"
  BY <1>1, TypeView, Zenon DEF IInv, Calls, CallOK, LoadIncrement, At, Protect
<1>3. r \in OpRecords /\ r.pc = "release" /\ r.slot = 0 /\ r.loc = null
  BY IdleRecord, Zenon DEF OpRecords, ManagerPCs
<1>4. /\ op'[t] = r /\ op' \in [Threads -> OpRecords] /\ \A u \in Threads \ {t} : op'[u] = op[u]
  BY <1>2, <1>3, OpStep, Zenon DEF LoadIncrement
<1>5. ref_cnt[p] > 0
  <2>1. Protecting(p) # {}
    BY <1>2, Protected, Zenon DEF HasSlot
  <2> QED
    BY <1>2, <2>1, Alive, Zenon DEF IInv
<1>6. /\ ref_cnt' \in [Objects -> Nat] /\ Living'
      /\ \A o \in Objects : ref_cnt'[o] = ref_cnt[o] + Bit(o = p)
  BY <1>1, <1>2, <1>5, AddRefStep, Zenon DEF LoadIncrement
<1>7. /\ rc' \in [Threads -> [Objects -> Nat]] /\ \A u \in Threads \ {t} : rc'[u] = rc[u]
      /\ \A o \in Objects : rc'[t][o] = rc[t][o] + Bit(o = p)
  BY <1>1, <1>2, RcStep DEF LoadIncrement
<1>8. UNCHANGED <<cell, live, announcement, snapshot_announcements, local>>
  BY Zenon DEF LoadIncrement
<1> HIDE DEF r
<1>9. TypeOK' /\ Frame(t) /\ DeadFields'
  BY <1>2, <1>4, <1>6, <1>7, <1>8, TypeStep, TypeView, Zenon DEF Frame, IInv, DeadFields
<1>10. CallOK(t)'
  BY <1>3, <1>4, ManagerAssumption, Zenon DEF CallOK, Acquiring, Protect
<1>11. \A o \in Objects, s \in 0..snapshot_slots : Shields(t, s, o)' => Shields(t, s, o)
  BY <1>2, <1>3, <1>4, <1>8, Zenon DEF Shields
<1>12. ASSUME NEW o \in Objects PROVE Books(t, null, null, o)
  <2>1. Cardinality(Cells(o)') = Cardinality(Cells(o)) /\ Cardinality(Cells(o)) \in Nat
    BY <1>2, <1>8, CellsSame, Numbers, Zenon DEF Countable
  <2>2. o # null /\ ref_cnt[o] \in Nat /\ rc[t][o] \in Nat
    BY <1>2, ManagerAssumption, TypeView
  <2>3. /\ ~Installs(t, o) /\ ~Installs(t, o)' /\ OldRef(t, o) = 0 /\ OldRef(t, o)' = 0
        /\ \A Q : ~Reserves(t, Q)
    BY <1>2, <1>3, <1>4, Zenon DEF Installs, OldRef, Reserves, Bit
  <2>4. ASSUME NEW Q PROVE RcKept(t, Q, o) \in Nat /\ RcKept(t, Q, o)' \in Nat
                           /\ RcKept(t, Q, o)' >= RcKept(t, Q, o)
    BY <1>7, <2>2, <2>3 DEF RcKept, Bit
  <2> QED
    BY <1>6, <1>7, <2>1, <2>2, <2>3, <2>4 DEF Books, Bit
<1> QED
  BY <1>2, <1>8, <1>9, <1>6, <1>10, <1>11, <1>12, NothingRetired, BookStep, Zenon DEF Ending

\* store(const snapshot_ptr&): the exchange.
LEMMA StoreSnapshotKeeps ==
  ASSUME IInv, NEW t \in Threads, StoreSnapshot(t) PROVE IInv'
<1>1. PICK l \in Reachable(t), new \in Snapshots(t) :
        /\ cell' = [cell EXCEPT ![l] = new]
        /\ SetOp(t, IF cell[l] = new THEN Idle
                    ELSE [Idle EXCEPT !.pc = "store_inc", !.ptr = new, !.old = cell[l]])
  BY Zenon DEF StoreSnapshot
<1>2. PICK p : p = cell[l]
  BY Zenon
<1> DEFINE r == IF p = new THEN Idle
                ELSE [Idle EXCEPT !.pc = "store_inc", !.ptr = new, !.old = p]
<1>3. /\ TypeOK /\ Locals /\ Living /\ l \in Locations /\ (l \in Objects => l \in Held(t))
      /\ op[t].pc = "idle" /\ op[t].slot = 0 /\ announcement[t] = null /\ local[t].phase = "off"
      /\ new \in Objects /\ p \in Ptrs
      /\ UNCHANGED <<live, ref_cnt, announcement, snapshot_announcements, local, rc>>
  BY <1>2, IdleFacts, TypeView, Zenon DEF IInv, StoreSnapshot, CanCall
<1>4. /\ r \in OpRecords /\ r.slot = 0 /\ r.loc = null
      /\ p = new => r.pc = "idle"
      /\ p # new => r.pc = "store_inc" /\ r.ptr = new /\ r.old = p
  BY <1>3, IdleRecord, Zenon DEF OpRecords, PCs, Ptrs
<1>5. /\ op'[t] = r /\ op' \in [Threads -> OpRecords] /\ \A u \in Threads \ {t} : op'[u] = op[u]
  BY <1>1, <1>2, <1>3, <1>4, OpStep, Zenon
<1> HIDE DEF r
<1>6. TypeOK' /\ Frame(t)
  <2>1. cell' \in [Locations -> Ptrs]
    BY <1>1, <1>3, TypeView, Zenon DEF Ptrs
  <2> QED
    BY <1>3, <1>5, <2>1, TypeStep, TypeView, Zenon DEF Frame
<1>7. DeadFields' /\ Living'
  BY <1>1, <1>3, WriteAlive, Zenon DEF Living
<1>8. CallOK(t)'
  <2>1. Snapshots(t) \subseteq Snapshots(t)'
    BY <1>3, <1>4, <1>5, IdleRecord, HeldStep, Zenon
  <2> QED
    BY <1>3, <1>4, <1>5, <2>1, ManagerAssumption, Zenon DEF CallOK, Acquiring, Protect
<1>9. \A o \in Objects, s \in 0..snapshot_slots : Shields(t, s, o)' => Shields(t, s, o)
  BY <1>3, <1>4, <1>5, Zenon DEF Shields
<1>10. ASSUME NEW o \in Objects PROVE Books(t, null, null, o)
  <2>1. /\ Cardinality(Cells(o)) \in Nat /\ Cardinality(Cells(o)') \in Nat
        /\ Cardinality(Cells(o)') = Cardinality(Cells(o)) + Bit(new = o) - Bit(p = o)
    BY <1>1, <1>2, <1>3, CellsStep, Zenon DEF Bit
  <2>2. o # null /\ ref_cnt[o] \in Nat /\ rc[t][o] \in Nat
    BY <1>3, ManagerAssumption, TypeView
  <2>3. /\ ~Installs(t, o) /\ OldRef(t, o) = 0
        /\ Installs(t, o)' <=> p # new /\ o = new
        /\ OldRef(t, o)' = Bit(p # new /\ o = p)
    BY <1>3, <1>4, <1>5, Zenon DEF Installs, OldRef, Bit
  <2>4. ASSUME NEW Q PROVE RcKept(t, Q, o)' = RcKept(t, Q, o) /\ RcKept(t, Q, o) \in Nat
    BY <1>3, <1>4, <1>5, <2>2, Zenon DEF RcKept, Reserves
  <2> QED
    BY <1>3, <2>1, <2>2, <2>3, <2>4 DEF Books, Bit
<1> QED
  BY <1>3, <1>6, <1>7, <1>8, <1>9, <1>10, NothingRetired, BookStep, Zenon DEF Ending

\* ... and the increment and the retirement after it.
LEMMA StoreIncrementKeeps ==
  ASSUME IInv, NEW t \in Threads, StoreIncrement(t) PROVE IInv'
<1>1. PICK p, old : p = op[t].ptr /\ old = op[t].old
  BY Zenon
<1>2. /\ TypeOK /\ Locals /\ Living /\ CallOK(t) /\ op[t] \in OpRecords /\ op[t].pc = "store_inc"
      /\ p \in Snapshots(t) /\ announcement[t] = null /\ op[t].slot = 0 /\ local[t].phase = "off"
      /\ old \in Ptrs
  BY <1>1, TypeView, Zenon DEF IInv, Calls, CallOK, StoreIncrement, At, Protect, OpRecords
<1>3. /\ op'[t] = Idle /\ op' \in [Threads -> OpRecords] /\ \A u \in Threads \ {t} : op'[u] = op[u]
  BY <1>2, IdleRecord, OpStep, Zenon DEF StoreIncrement
<1>4. p \in Objects /\ ref_cnt[p] > 0
  BY <1>2, HeldLives, Zenon DEF IInv, Held
<1>5. /\ ref_cnt' \in [Objects -> Nat] /\ Living'
      /\ \A o \in Objects : ref_cnt'[o] = ref_cnt[o] + Bit(o = p)
  BY <1>1, <1>2, <1>4, AddRefStep, Zenon DEF StoreIncrement
<1>6. /\ Listed(t, old, null) /\ local' \in [Threads -> Local]
      /\ \A u \in Threads \ {t} : local'[u] = local[u]
  BY <1>1, <1>2, RefRetired, Zenon DEF StoreIncrement
<1>7. UNCHANGED <<cell, live, announcement, snapshot_announcements, rc>>
  BY Zenon DEF StoreIncrement
<1>8. TypeOK' /\ Frame(t) /\ DeadFields'
  BY <1>2, <1>3, <1>5, <1>6, <1>7, TypeStep, TypeView, Zenon DEF Frame, IInv, DeadFields
<1>9. CallOK(t)'
  BY <1>2, <1>3, <1>7, IdleRecord, IdleCall, Zenon
<1>10. \A o \in Objects, s \in 0..snapshot_slots : Shields(t, s, o)' => Shields(t, s, o)
  BY <1>2, <1>3, <1>7, IdleRecord, Zenon DEF Shields
<1>11. ASSUME NEW o \in Objects PROVE Books(t, old, null, o)
  <2>1. Cardinality(Cells(o)') = Cardinality(Cells(o)) /\ Cardinality(Cells(o)) \in Nat
    BY <1>2, <1>7, CellsSame, Numbers, Zenon DEF Countable
  <2>2. o # null /\ ref_cnt[o] \in Nat /\ rc[t][o] \in Nat
    BY <1>2, ManagerAssumption, TypeView
  <2>3. /\ Installs(t, o) <=> o = p
        /\ ~Installs(t, o)' /\ OldRef(t, o) = Bit(o = old) /\ OldRef(t, o)' = 0
    BY <1>1, <1>2, <1>3, IdleRecord, Zenon DEF Installs, OldRef, Bit
  <2>4. ASSUME NEW Q PROVE RcKept(t, Q, o)' = RcKept(t, Q, o) /\ RcKept(t, Q, o) \in Nat
    BY <1>2, <1>3, <1>7, <2>2, IdleRecord, Zenon DEF RcKept, Reserves
  <2> QED
    BY <1>5, <1>7, <2>1, <2>2, <2>3, <2>4 DEF Books, Bit
<1> QED
  BY <1>2, <1>5, <1>6, <1>8, <1>9, <1>10, <1>11, BookStep, Zenon DEF Ending

\* The reservation of a compare_and_swap lasts until the release.
LEMMA ReservationLasts ==
  ASSUME TypeOK, NEW t \in Threads, NEW o \in Objects, NEW Q \in SlotSets, Q \subseteq Protecting(o),
         announcement[t] # null => op'[t].pc \in {"cas", "cas_inc", "release"}, rc' = rc
  PROVE  RcKept(t, Q, o) \in Nat /\ RcKept(t, Q, o)' \in Nat /\ RcKept(t, Q, o)' >= RcKept(t, Q, o)
<1>1. rc[t][o] \in Nat /\ o # null
  BY TypeView, ManagerAssumption
<1>2. Reserves(t, Q) => Reserves(t, Q)'
  <2> SUFFICES ASSUME NEW i \in Q, SlotThread(i) = t, SlotNumber(i) = 0 PROVE announcement[t] # null
    BY Zenon DEF Reserves, SlotThread, SlotNumber
  <2> QED
    BY <1>1, Zenon DEF Protecting, Shields
<1> QED
  BY <1>1, <1>2 DEF RcKept

LEMMA ReturnRecord ==
  ASSUME NEW t \in Threads
  PROVE  /\ Return(t) \in OpRecords /\ Return(t).slot = 0 /\ Return(t).loc = null
         /\ announcement[t] = null => Return(t).pc = "idle"
         /\ announcement[t] # null => Return(t).pc = "release"
BY IdleRecord, Zenon DEF Return, OpRecords, ManagerPCs

LEMMA CasFacts ==
  ASSUME IInv, NEW t \in Threads, At(t, "cas") \/ At(t, "cas_inc")
  PROVE  /\ TypeOK /\ Locals /\ Living /\ op[t] \in OpRecords /\ op[t].slot = 0
         /\ op[t].ptr \in Ptrs /\ op[t].old \in Ptrs /\ ~Ending(local[t])
         /\ announcement[t] \in {null, op[t].ptr}
         /\ op[t].ptr \in Snapshots(t) \cup {announcement[t]}
         /\ \A o : OldRef(t, o) = 0
         /\ op[t].pc = "cas" => /\ op[t].loc \in Locations /\ \A o : ~Installs(t, o)
                                /\ op[t].loc \in Objects => op[t].loc \in Held(t)
         /\ op[t].pc = "cas_inc" => op[t].ptr \in Objects
<1>1. TypeOK /\ Locals /\ Living /\ CallOK(t) /\ op[t] \in OpRecords
  BY TypeView, Zenon DEF IInv, Calls
<1> QED
  BY <1>1, Zenon DEF CallOK, Protect, At, OpRecords, Ending, OldRef, Installs, Bit

\* What an operation that reserved does not change.
LEMMA AfterCas ==
  ASSUME IInv, NEW t \in Threads, At(t, "cas") \/ At(t, "cas_inc"), NEW r \in OpRecords, SetOp(t, r),
         r.slot = 0, r.loc = null, r.pc \in {"idle", "release", "cas_inc"},
         r.pc = "idle" => announcement[t] = null,
         r.pc = "cas_inc" => r.ptr = op[t].ptr /\ r.ptr \in Objects,
         UNCHANGED <<announcement, snapshot_announcements, rc>>
  PROVE  /\ op'[t] = r /\ op' \in [Threads -> OpRecords] /\ \A u \in Threads \ {t} : op'[u] = op[u]
         /\ CallOK(t)'
         /\ \A o \in Objects :
              /\ \A s \in 0..snapshot_slots : Shields(t, s, o)' => Shields(t, s, o)
              /\ OldRef(t, o) = 0 /\ OldRef(t, o)' = 0
              /\ \A Q \in SlotSets : Q \subseteq Protecting(o) =>
                   RcKept(t, Q, o) \in Nat /\ RcKept(t, Q, o)' \in Nat /\ RcKept(t, Q, o)' >= RcKept(t, Q, o)
<1>1. /\ TypeOK /\ op[t].slot = 0 /\ announcement[t] \in {null, op[t].ptr}
      /\ op[t].ptr \in Snapshots(t) \cup {announcement[t]} /\ \A o : OldRef(t, o) = 0
  BY CasFacts, Zenon
<1>2. op'[t] = r /\ op' \in [Threads -> OpRecords] /\ \A u \in Threads \ {t} : op'[u] = op[u]
  BY <1>1, OpStep, Zenon
<1>3. Snapshots(t) \subseteq Snapshots(t)'
  BY <1>1, <1>2, IdleRecord, HeldStep, Zenon
<1>4. CallOK(t)'
  BY <1>1, <1>2, <1>3, ManagerAssumption, Zenon DEF CallOK, Acquiring, Protect
<1>5. ASSUME NEW o \in Objects, NEW s \in 0..snapshot_slots, Shields(t, s, o)' PROVE Shields(t, s, o)
  BY <1>1, <1>2, <1>5, Zenon DEF Shields, At
<1>6. ASSUME NEW o \in Objects, NEW Q \in SlotSets, Q \subseteq Protecting(o)
      PROVE  RcKept(t, Q, o) \in Nat /\ RcKept(t, Q, o)' \in Nat /\ RcKept(t, Q, o)' >= RcKept(t, Q, o)
  BY <1>1, <1>2, <1>6, ReservationLasts, Zenon
<1>7. \A o : OldRef(t, o)' = 0
  BY <1>2, Zenon DEF OldRef, Bit
<1> QED
  BY <1>1, <1>2, <1>4, <1>5, <1>6, <1>7, Zenon

LEMMA CasExchangeKeeps ==
  ASSUME IInv, NEW t \in Threads, CasExchange(t) PROVE IInv'
<1>1. PICK l, p, old : l = op[t].loc /\ p = op[t].ptr /\ old = op[t].old
  BY Zenon
<1>2. /\ TypeOK /\ Locals /\ Living /\ op[t].slot = 0 /\ p \in Ptrs /\ old \in Ptrs
      /\ ~Ending(local[t]) /\ l \in Locations /\ (l \in Objects => l \in Held(t))
      /\ announcement[t] \in {null, p} /\ At(t, "cas") /\ op[t].pc = "cas"
      /\ \A o : ~Installs(t, o)
      /\ UNCHANGED <<live, ref_cnt, announcement, snapshot_announcements, rc>>
  BY <1>1, CasFacts, Zenon DEF CasExchange, At
<1>3. CASE cell[l] = old /\ cell' = [cell EXCEPT ![l] = p]
           /\ local' = [local EXCEPT ![t] = RetireRef(@, old)]
           /\ SetOp(t, IF p = null THEN Return(t) ELSE [Idle EXCEPT !.pc = "cas_inc", !.ptr = p])
  <2>1. PICK r : r = IF p = null THEN Return(t) ELSE [Idle EXCEPT !.pc = "cas_inc", !.ptr = p]
    BY Zenon
  <2>2. /\ r \in OpRecords /\ r.slot = 0 /\ r.loc = null
        /\ p = null => r.pc = "idle" /\ announcement[t] = null
        /\ p # null => r.pc = "cas_inc" /\ r.ptr = p /\ p \in Objects
    <3>1. CASE p = null
      BY <1>2, <2>1, <3>1, ReturnRecord, Zenon
    <3>2. CASE p # null
      BY <1>2, <2>1, <3>2, IdleRecord, Zenon DEF OpRecords, PCs, Ptrs
    <3> QED
      BY <3>1, <3>2, Zenon
  <2>3. SetOp(t, r)
    BY <1>3, <2>1, Zenon
  <2>4. /\ op'[t] = r /\ op' \in [Threads -> OpRecords] /\ \A u \in Threads \ {t} : op'[u] = op[u]
        /\ CallOK(t)'
        /\ \A o \in Objects :
             /\ \A s \in 0..snapshot_slots : Shields(t, s, o)' => Shields(t, s, o)
             /\ OldRef(t, o) = 0 /\ OldRef(t, o)' = 0
             /\ \A Q \in SlotSets : Q \subseteq Protecting(o) =>
                  RcKept(t, Q, o) \in Nat /\ RcKept(t, Q, o)' \in Nat /\ RcKept(t, Q, o)' >= RcKept(t, Q, o)
    BY <1>1, <1>2, <2>2, <2>3, AfterCas, Zenon
  <2>5. /\ Listed(t, old, null) /\ local' \in [Threads -> Local]
        /\ \A u \in Threads \ {t} : local'[u] = local[u]
    BY <1>2, <1>3, RefRetired, Zenon
  <2>6. TypeOK' /\ Frame(t)
    <3>1. cell' \in [Locations -> Ptrs]
      BY <1>2, <1>3, TypeView, Zenon
    <3> QED
      BY <1>2, <2>4, <2>5, <3>1, TypeStep, TypeView, Zenon DEF Frame
  <2>7. DeadFields' /\ Living'
    BY <1>2, <1>3, WriteAlive, Zenon DEF Living
  <2>8. ASSUME NEW o \in Objects PROVE Books(t, old, null, o)
    <3>1. /\ Cardinality(Cells(o)) \in Nat /\ Cardinality(Cells(o)') \in Nat
          /\ Cardinality(Cells(o)') = Cardinality(Cells(o)) + Bit(p = o) - Bit(old = o)
      <4>1. TypeOK /\ l \in Locations /\ cell' = [cell EXCEPT ![l] = p]
        BY <1>2, <1>3, Zenon
      <4>2. /\ Cardinality(Cells(o)) \in Nat /\ Cardinality(Cells(o)') \in Nat
            /\ Cardinality(Cells(o)') = Cardinality(Cells(o)) + Bit(p = o) - Bit(cell[l] = o)
        BY <4>1, CellsStep, Zenon DEF Bit
      <4> QED
        BY <1>3, <4>2, Zenon DEF Bit
    <3>2. o # null /\ ref_cnt[o] \in Nat /\ rc[t][o] \in Nat
      BY <1>2, ManagerAssumption, TypeView
    <3>3. Installs(t, o)' <=> o = p
      BY <2>2, <2>4, <3>2, Zenon DEF Installs
    <3> QED
      BY <1>2, <2>4, <3>1, <3>2, <3>3 DEF Books, Bit
  <2> QED
    BY <1>2, <2>4, <2>5, <2>6, <2>7, <2>8, BookStep, Zenon
<1>4. CASE SetOp(t, Return(t)) /\ UNCHANGED <<cell, local>>
  <2>1. PICK r : r = Return(t)
    BY Zenon
  <2>2. /\ r \in OpRecords /\ r.slot = 0 /\ r.loc = null /\ r.pc \in {"idle", "release"}
        /\ r.pc = "idle" => announcement[t] = null
    BY <2>1, ReturnRecord, Zenon
  <2>3. /\ op'[t] = r /\ op' \in [Threads -> OpRecords] /\ \A u \in Threads \ {t} : op'[u] = op[u]
        /\ CallOK(t)'
        /\ \A o \in Objects :
             /\ \A s \in 0..snapshot_slots : Shields(t, s, o)' => Shields(t, s, o)
             /\ OldRef(t, o) = 0 /\ OldRef(t, o)' = 0
             /\ \A Q \in SlotSets : Q \subseteq Protecting(o) =>
                  RcKept(t, Q, o) \in Nat /\ RcKept(t, Q, o)' \in Nat /\ RcKept(t, Q, o)' >= RcKept(t, Q, o)
    BY <1>2, <1>4, <2>1, <2>2, AfterCas, Zenon
  <2>4. TypeOK' /\ Frame(t) /\ DeadFields' /\ Living'
    BY <1>2, <1>4, <2>3, TypeStep, TypeView, Zenon DEF Frame, IInv, DeadFields, Living
  <2>5. ASSUME NEW o \in Objects PROVE Books(t, null, null, o)
    <3>1. Cardinality(Cells(o)') = Cardinality(Cells(o)) /\ Cardinality(Cells(o)) \in Nat
      BY <1>2, <1>4, CellsSame, Numbers, Zenon DEF Countable
    <3>2. o # null /\ ref_cnt[o] \in Nat /\ rc[t][o] \in Nat
      BY <1>2, ManagerAssumption, TypeView
    <3>3. ~Installs(t, o)'
      BY <2>2, <2>3, Zenon DEF Installs
    <3> QED
      BY <1>2, <2>3, <3>1, <3>2, <3>3 DEF Books, Bit
  <2> QED
    BY <1>2, <1>4, <2>3, <2>4, <2>5, NothingRetired, BookStep, Zenon
<1> QED
  BY <1>1, <1>3, <1>4, Zenon DEF CasExchange

LEMMA CasIncrementKeeps ==
  ASSUME IInv, NEW t \in Threads, CasIncrement(t) PROVE IInv'
<1>1. PICK p, r : p = op[t].ptr /\ r = Return(t)
  BY Zenon
<1>2. /\ TypeOK /\ Locals /\ Living /\ p \in Objects /\ ~Ending(local[t]) /\ op[t].pc = "cas_inc"
      /\ At(t, "cas_inc") /\ CallOK(t)
      /\ UNCHANGED <<cell, live, announcement, snapshot_announcements, local, rc>>
  BY <1>1, CasFacts, Zenon DEF CasIncrement, At, IInv, Calls
<1>3. /\ r \in OpRecords /\ r.slot = 0 /\ r.loc = null /\ r.pc \in {"idle", "release"}
      /\ r.pc = "idle" => announcement[t] = null
  BY <1>1, ReturnRecord, Zenon
<1>4. /\ op'[t] = r /\ op' \in [Threads -> OpRecords] /\ \A u \in Threads \ {t} : op'[u] = op[u]
      /\ CallOK(t)'
      /\ \A o \in Objects :
           /\ \A s \in 0..snapshot_slots : Shields(t, s, o)' => Shields(t, s, o)
           /\ OldRef(t, o) = 0 /\ OldRef(t, o)' = 0
           /\ \A Q \in SlotSets : Q \subseteq Protecting(o) =>
                RcKept(t, Q, o) \in Nat /\ RcKept(t, Q, o)' \in Nat /\ RcKept(t, Q, o)' >= RcKept(t, Q, o)
  BY <1>1, <1>2, <1>3, AfterCas, Zenon DEF CasIncrement
<1>5. ref_cnt[p] > 0
  <2>1. Installs(t, p)
    BY <1>1, <1>2, Zenon DEF Installs
  <2>2. Protecting(p) # {}
    BY <1>2, <2>1, Protected, Zenon DEF HasSlot
  <2> QED
    BY <1>2, <2>2, Alive, Zenon DEF IInv
<1>6. /\ ref_cnt' \in [Objects -> Nat] /\ Living'
      /\ \A o \in Objects : ref_cnt'[o] = ref_cnt[o] + Bit(o = p)
  BY <1>1, <1>2, <1>5, AddRefStep, Zenon DEF CasIncrement
<1>7. TypeOK' /\ Frame(t) /\ DeadFields'
  BY <1>2, <1>4, <1>6, TypeStep, TypeView, Zenon DEF Frame, IInv, DeadFields
<1>8. ASSUME NEW o \in Objects PROVE Books(t, null, null, o)
  <2>1. Cardinality(Cells(o)') = Cardinality(Cells(o)) /\ Cardinality(Cells(o)) \in Nat
    BY <1>2, CellsSame, Numbers, Zenon DEF Countable
  <2>2. o # null /\ ref_cnt[o] \in Nat /\ rc[t][o] \in Nat
    BY <1>2, ManagerAssumption, TypeView
  <2>3. (Installs(t, o) <=> o = p) /\ ~Installs(t, o)'
    BY <1>1, <1>2, <1>3, <1>4, Zenon DEF Installs
  <2>4. /\ ref_cnt'[o] = ref_cnt[o] + Bit(o = p) /\ rc'[t][o] = rc[t][o]
        /\ OldRef(t, o) = 0 /\ OldRef(t, o)' = 0
        /\ \A Q \in SlotSets : Q \subseteq Protecting(o) =>
             RcKept(t, Q, o) \in Nat /\ RcKept(t, Q, o)' \in Nat /\ RcKept(t, Q, o)' >= RcKept(t, Q, o)
    BY <1>2, <1>4, <1>6, Zenon
  <2> QED
    BY <2>1, <2>2, <2>3, <2>4 DEF Books, Bit
<1> QED
  BY <1>2, <1>4, <1>6, <1>7, <1>8, NothingRetired, BookStep, Zenon
=============================================================================
