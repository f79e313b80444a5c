---------------------------- MODULE AtomicWeakPtr ----------------------------
(***************************************************************************)
(* Weak pointers over AcquireRetire: atomic_weak_ptr, weak_ptr and         *)
(* weak_snapshot_ptr, beside rc_ptrs and atomic_rc_ptrs that keep objects  *)
(* alive; counted_object with both its counts, and all three deferred      *)
(* actions of memory_manager_base.                                         *)
(*                                                                         *)
(* The strong count is a StickyCounter whose zero other threads race with, *)
(* so its decrement has the steps of utils.h: the fetch_sub, the CAS that  *)
(* sticks the zero, the exchange that takes over a zero that a load stuck. *)
(* A load with its CAS is one step, at the moment of its last access.      *)
(* The weak count is a number: it is incremented through a reference that  *)
(* it counts, so nothing races with its zero (CountsAreExact).             *)
(***************************************************************************)
EXTENDS AcquireRetire

CONSTANTS
  StrongLocations,  \* the locations that are atomic_rc_ptrs
  MaxRc,            \* bound: rc_ptrs that one thread holds at a time
  MaxWeak,          \* bound: weak_ptrs that one thread holds at a time
  Ops               \* the operations that each thread uses

ASSUME ClientAssumption ==
  /\ StrongLocations \subseteq Locations
  /\ MaxRc \in Nat /\ MaxWeak \in Nat
  /\ DOMAIN Ops = Threads

WeakLocations == Locations \ StrongLocations

VARIABLES
  live,      \* objects whose memory is allocated
  disposed,  \* those of them whose T is destroyed
  ref_cnt,   \* strong count
  stuck,     \* its flags: "no", "zero", or "pending" when a load stuck it
  weak_cnt,  \* weak count, one of which stands for all the strong references
  dec,       \* the decrement_ref_cnt that each thread is in, after its fetch_sub
  rc,        \* rc_ptrs, and snapshots that own a strong count, of each thread
  weak       \* weak_ptrs of each thread

object_vars == <<live, disposed, ref_cnt, stuck, weak_cnt>>
vars == <<cell, op, announcement, snapshot_announcements, local,
          live, disposed, ref_cnt, stuck, weak_cnt, dec, rc, weak>>

PCs == {"load_inc", "snapshot_inc", "use_count", "expired", "cas", "cas_inc"}

NoDec == [pc |-> "off", obj |-> null]

Init ==
  /\ ManagerInit
  /\ live = {}
  /\ disposed = {}
  /\ ref_cnt = [o \in Objects |-> 0]
  /\ stuck = [o \in Objects |-> "zero"]
  /\ weak_cnt = [o \in Objects |-> 0]
  /\ dec = [t \in Threads |-> NoDec]
  /\ rc = [t \in Threads |-> EmptyBag]
  /\ weak = [t \in Threads |-> EmptyBag]

-----------------------------------------------------------------------------
CanCall(t, name) == At(t, "idle") /\ dec[t] = NoDec /\ name \in Ops[t]

Counted(t) == {o \in Objects : rc[t][o] > 0}
Weak(t) == {o \in Objects : weak[t][o] > 0}

HasRoom(t) == BagSize(rc[t]) < MaxRc
HasWeakRoom(t) == BagSize(weak[t]) < MaxWeak

Owns(t, o) == rc' = [rc EXCEPT ![t] = AddTo(@, o)]
OwnsWeak(t, o) == weak' = [weak EXCEPT ![t] = AddTo(@, o)]
GivesUp(t, o) == rc' = [rc EXCEPT ![t] = TakeFrom(@, o)]
GivesUpWeak(t, o) ==
  weak' = IF o = null THEN weak ELSE [weak EXCEPT ![t] = TakeFrom(@, o)]

SetLocal(t, m) == local' = [local EXCEPT ![t] = m]

-----------------------------------------------------------------------------
\* counted_object.h and memory_manager_base.h.  An eject ends, and the
\* collection may, with FinishCollecting.

\* decrement_ref_cnt(o) up to the fetch_sub of ref_cnt.decrement.
DecrementRefCnt(t, o, m) ==
  /\ ref_cnt' = [ref_cnt EXCEPT ![o] = @ - 1]
  /\ \/ /\ ref_cnt[o] = 1
        /\ dec' = [dec EXCEPT ![t] = [pc |-> "cas", obj |-> o]]
        /\ SetLocal(t, m)
     \/ /\ ref_cnt[o] # 1
        /\ SetLocal(t, FinishCollecting(m))
        /\ UNCHANGED dec
  /\ UNCHANGED <<live, disposed, stuck, weak_cnt>>

\* Where a decrement goes on, and where it ends: release_refs then returns
\* EjectAction::nothing.
DecGoto(t, pc) == dec' = [dec EXCEPT ![t].pc = pc] /\ UNCHANGED local
DecReturn(t) ==
  /\ dec' = [dec EXCEPT ![t] = NoDec]
  /\ SetLocal(t, FinishCollecting(local[t]))

\* Mutant: the zero that a load stuck is taken to be somebody else's.
DecrementCasNoHelp(t) ==
  LET o == dec[t].obj IN
  /\ dec[t].pc = "cas"
  /\ \/ /\ ref_cnt[o] = 0 /\ stuck[o] = "no"
        /\ stuck' = [stuck EXCEPT ![o] = "zero"]
        /\ DecGoto(t, "weak_load")
     \/ /\ ref_cnt[o] > 0 \/ stuck[o] # "no"
        /\ DecReturn(t)
        /\ UNCHANGED stuck
  /\ UNCHANGED <<live, disposed, ref_cnt, weak_cnt>>

\* The CAS of ref_cnt.decrement.
DecrementCas(t) ==
  LET o == dec[t].obj IN
  /\ dec[t].pc = "cas"
  /\ \/ /\ ref_cnt[o] = 0 /\ stuck[o] = "no"
        /\ stuck' = [stuck EXCEPT ![o] = "zero"]
        /\ DecGoto(t, "weak_load")
     \/ /\ stuck[o] = "pending"
        /\ DecGoto(t, "exchange")
        /\ UNCHANGED stuck
     \/ /\ stuck[o] = "zero" \/ (stuck[o] = "no" /\ ref_cnt[o] > 0)
        /\ DecReturn(t)
        /\ UNCHANGED stuck
  /\ UNCHANGED <<live, disposed, ref_cnt, weak_cnt>>

\* The exchange of ref_cnt.decrement.
DecrementExchange(t) ==
  LET o == dec[t].obj IN
  /\ dec[t].pc = "exchange"
  /\ stuck' = [stuck EXCEPT ![o] = "zero"]
  /\ IF stuck[o] = "pending" THEN DecGoto(t, "weak_load") ELSE DecReturn(t)
  /\ UNCHANGED <<live, disposed, ref_cnt, weak_cnt>>

\* Mutant: the disposal is never delayed.
ReleaseRefsNow(t) ==
  LET o == dec[t].obj IN
  /\ dec[t].pc = "weak_load"
  /\ dec' = [dec EXCEPT ![t] = NoDec]
  /\ weak_cnt' = [weak_cnt EXCEPT ![o] = @ - 1]
  /\ live' = IF weak_cnt[o] = 1 THEN live \ {o} ELSE live
  /\ disposed' = IF weak_cnt[o] = 1 THEN disposed ELSE disposed \cup {o}
  /\ SetLocal(t, FinishCollecting(local[t]))
  /\ UNCHANGED <<ref_cnt, stuck>>

\* The rest of release_refs and of decrement_ref_cnt: dispose and destroy at
\* once if there is no weak reference, retire the dispose if there is.
ReleaseRefs(t) ==
  LET o == dec[t].obj IN
  /\ dec[t].pc = "weak_load"
  /\ dec' = [dec EXCEPT ![t] = NoDec]
  /\ \/ /\ weak_cnt[o] = 1
        /\ live' = live \ {o}
        /\ weak_cnt' = [weak_cnt EXCEPT ![o] = 0]
        /\ SetLocal(t, FinishCollecting(local[t]))
     \/ /\ weak_cnt[o] # 1
        /\ SetLocal(t, FinishCollecting(Retire(local[t], o, "dispose")))
        /\ UNCHANGED <<live, weak_cnt>>
  /\ UNCHANGED <<disposed, ref_cnt, stuck>>

\* release_weak_refs(1), and destroy if it was the last one.
ReleaseWeakRefs(o) ==
  /\ weak_cnt' = [weak_cnt EXCEPT ![o] = @ - 1]
  /\ live' = IF weak_cnt[o] = 1 THEN live \ {o} ELSE live

\* decrement_weak_cnt(o).
DecrementWeakCnt(t, o, m) ==
  /\ ReleaseWeakRefs(o)
  /\ disposed' = disposed \cap live'
  /\ SetLocal(t, FinishCollecting(m))
  /\ UNCHANGED <<ref_cnt, stuck, dec>>

\* dispose(o): ~T, then the weak reference of the strong ones.
Dispose(t, o, m) ==
  /\ ReleaseWeakRefs(o)
  /\ disposed' = (disposed \cup {o}) \cap live'
  /\ SetLocal(t, FinishCollecting(m))
  /\ UNCHANGED <<ref_cnt, stuck, dec>>

\* eject(o, type).
Eject(t) ==
  /\ dec[t] = NoDec
  /\ \E e \in Ejectable(t) :
       \/ e[2] = "decrement_strong_count" /\ DecrementRefCnt(t, e[1], Without(local[t], e))
       \/ e[2] = "decrement_weak_count" /\ DecrementWeakCnt(t, e[1], Without(local[t], e))
       \/ e[2] = "dispose" /\ Dispose(t, e[1], Without(local[t], e))
  /\ UNCHANGED <<cell, op, announcement, snapshot_announcements, rc, weak>>

\* Mutant: the result of the increment is not looked at.
AddRefAnyway(t, o) ==
  /\ ref_cnt' = [ref_cnt EXCEPT ![o] = @ + 1]
  /\ Owns(t, o)

\* increment_ref_cnt(o) of a thread that may hold no strong reference; it
\* fails once the counter is stuck.
TryAddRef(t, o) ==
  /\ stuck[o] = "no"
  /\ ref_cnt' = [ref_cnt EXCEPT ![o] = @ + 1]
  /\ Owns(t, o)

\* increment_weak_cnt(o).
AddWeakRef(o) == weak_cnt' = [weak_cnt EXCEPT ![o] = @ + 1]

-----------------------------------------------------------------------------
\* rc_ptr, weak_ptr and weak_snapshot_ptr.

\* make_shared.
MakeShared(t) ==
  /\ CanCall(t, "make_shared") /\ HasRoom(t)
  /\ \E o \in Objects \ live :
       /\ live' = live \cup {o}
       /\ ref_cnt' = [ref_cnt EXCEPT ![o] = 1]
       /\ stuck' = [stuck EXCEPT ![o] = "no"]
       /\ weak_cnt' = [weak_cnt EXCEPT ![o] = 1]
       /\ Owns(t, o)
  /\ UNCHANGED <<cell, op, announcement, snapshot_announcements, local, disposed, dec, weak>>

\* rc_ptr::clear, and the clear of a weak snapshot that owns a count.
ClearRc(t) ==
  /\ CanCall(t, "clear")
  /\ \E o \in Counted(t) : GivesUp(t, o) /\ DecrementRefCnt(t, o, local[t])
  /\ UNCHANGED <<cell, op, announcement, snapshot_announcements, weak>>

\* weak_ptr of an rc_ptr, of a weak_ptr, of a weak_snapshot_ptr.  The weak
\* count is not zero: one who holds any of these uses memory that exists.
CopyToWeak(t) ==
  /\ CanCall(t, "weak") /\ HasWeakRoom(t)
  /\ \E o \in Counted(t) \cup Weak(t) \cup Snapshots(t) : AddWeakRef(o) /\ OwnsWeak(t, o)
  /\ UNCHANGED <<cell, op, announcement, snapshot_announcements, local,
                 live, disposed, ref_cnt, stuck, dec, rc>>

\* weak_ptr::clear: the decrement is not deferred.
ClearWeak(t) ==
  /\ CanCall(t, "clear_weak")
  /\ \E o \in Weak(t) : GivesUpWeak(t, o) /\ DecrementWeakCnt(t, o, local[t])
  /\ UNCHANGED <<cell, op, announcement, snapshot_announcements, rc>>

\* weak_ptr::lock; when the increment fails the result is empty and nothing
\* changes.
Lock(t) ==
  /\ CanCall(t, "lock") /\ HasRoom(t)
  /\ \E o \in Weak(t) : TryAddRef(t, o)
  /\ UNCHANGED <<cell, op, announcement, snapshot_announcements, local,
                 live, disposed, stuck, weak_cnt, dec, weak>>

\* weak_snapshot_ptr::lock.
LockSnapshot(t) ==
  /\ CanCall(t, "lock") /\ HasRoom(t)
  /\ \E o \in Snapshots(t) : TryAddRef(t, o)
  /\ UNCHANGED <<cell, op, announcement, snapshot_announcements, local,
                 live, disposed, stuck, weak_cnt, dec, weak>>

\* weak_snapshot_ptr::clear of a protected snapshot.
ClearSnapshot(t) ==
  /\ CanCall(t, "get_snapshot")
  /\ \E s \in Slots : snapshot_announcements[t][s] # null /\ ClearSlot(t, s)
  /\ UNCHANGED <<cell, op, announcement, local, object_vars, dec, rc, weak>>

-----------------------------------------------------------------------------
\* Reading an atomic_weak_ptr.

\* load.
Load(t) ==
  /\ CanCall(t, "load") /\ HasWeakRoom(t)
  /\ \E l \in WeakLocations : StartAcquire(t, l, "load_inc")
  /\ UNCHANGED <<cell, announcement, snapshot_announcements, local, object_vars, dec, rc, weak>>

\* weak_ptr(ptr, AddRef::yes).
LoadIncrement(t) ==
  /\ At(t, "load_inc")
  /\ AddWeakRef(op[t].ptr)
  /\ OwnsWeak(t, op[t].ptr)
  /\ SetOp(t, Return(t))
  /\ UNCHANGED <<cell, announcement, snapshot_announcements, local,
                 live, disposed, ref_cnt, stuck, dec, rc>>

\* get_snapshot, through a slot if one is free, else through acquire.
GetSnapshot(t) ==
  /\ CanCall(t, "get_snapshot")
  /\ \E l \in WeakLocations :
       \/ StartProtect(t, l, "use_count")
       \/ NoFreeSlot(t) /\ HasRoom(t) /\ StartAcquire(t, l, "snapshot_inc")
  /\ UNCHANGED <<cell, announcement, snapshot_announcements, local, object_vars, dec, rc, weak>>

\* protect_snapshot without a slot: increment_ref_cnt(a.get()).
SnapshotIncrement(t) ==
  /\ At(t, "snapshot_inc")
  /\ \/ TryAddRef(t, op[t].ptr) /\ SetOp(t, Return(t))
     \/ /\ stuck[op[t].ptr] # "no"
        /\ SetOp(t, [op[t] EXCEPT !.pc = "expired"])
        /\ UNCHANGED <<ref_cnt, rc>>
  /\ UNCHANGED <<cell, announcement, snapshot_announcements, local,
                 live, disposed, stuck, weak_cnt, dec, weak>>

\* ptr->get_use_count() > 0: StickyCounter::load, which sticks a zero.
UseCount(t) ==
  LET o == op[t].ptr IN
  /\ At(t, "use_count")
  /\ \/ stuck[o] = "no" /\ ref_cnt[o] > 0 /\ SetOp(t, Idle) /\ UNCHANGED stuck
     \/ /\ stuck[o] # "no" \/ ref_cnt[o] = 0
        /\ stuck' = [stuck EXCEPT ![o] = IF @ = "no" THEN "pending" ELSE @]
        /\ SetOp(t, [op[t] EXCEPT !.pc = "expired"])
  /\ UNCHANGED <<cell, announcement, snapshot_announcements, local,
                 live, disposed, ref_cnt, weak_cnt, dec, rc, weak>>

\* The object has expired: if the pointer still points to it the snapshot is
\* empty, else try again; the acquired pointer is destroyed in either case.
Expired(t) ==
  LET s == op[t].slot IN
  /\ At(t, "expired")
  /\ SetOp(t, IF cell[op[t].loc] = op[t].ptr THEN Idle
              ELSE [op[t] EXCEPT !.ptr = null,
                                 !.pc = IF s = 0 THEN "acquire_load" ELSE "protect_load"])
  /\ IF s = 0
     THEN announcement' = [announcement EXCEPT ![t] = null] /\ UNCHANGED snapshot_announcements
     ELSE ClearSlot(t, s) /\ UNCHANGED announcement
  /\ UNCHANGED <<cell, local, object_vars, dec, rc, weak>>

-----------------------------------------------------------------------------
\* Writing to an atomic_weak_ptr or an atomic_rc_ptr.

\* Mutant: the weak count that the pointer had is given up at once.
StoreWeakNow(t) ==
  /\ CanCall(t, "store")
  /\ \E l \in WeakLocations, new \in Weak(t) \cup {null} :
       /\ cell' = [cell EXCEPT ![l] = new]
       /\ GivesUpWeak(t, new)
       /\ IF cell[l] = null THEN UNCHANGED <<object_vars, local, dec>>
          ELSE DecrementWeakCnt(t, cell[l], local[t])
  /\ UNCHANGED <<op, announcement, snapshot_announcements, rc>>

\* store(nullptr), store(weak_ptr).  A store of a snapshot increments its weak
\* count first: CopyToWeak; StoreWeak.
StoreWeak(t) ==
  /\ CanCall(t, "store")
  /\ \E l \in WeakLocations, new \in Weak(t) \cup {null} :
       /\ cell' = [cell EXCEPT ![l] = new]
       /\ GivesUpWeak(t, new)
       /\ SetLocal(t, Retire(local[t], cell[l], "decrement_weak_count"))
  /\ UNCHANGED <<op, announcement, snapshot_announcements, object_vars, dec, rc>>

\* Mutant: the argument keeps the count that the pointer took over.
StoreRcNoRelease(t) ==
  /\ CanCall(t, "store_rc")
  /\ \E l \in StrongLocations, new \in Counted(t) \cup {null} :
       /\ cell' = [cell EXCEPT ![l] = new]
       /\ SetLocal(t, Retire(local[t], cell[l], "decrement_strong_count"))
  /\ UNCHANGED <<op, announcement, snapshot_announcements, object_vars, dec, rc, weak>>

\* atomic_rc_ptr::store(nullptr), store(rc_ptr).
StoreRc(t) ==
  /\ CanCall(t, "store_rc")
  /\ \E l \in StrongLocations, new \in Counted(t) \cup {null} :
       /\ cell' = [cell EXCEPT ![l] = new]
       /\ IF new = null THEN UNCHANGED rc ELSE GivesUp(t, new)
       /\ SetLocal(t, Retire(local[t], cell[l], "decrement_strong_count"))
  /\ UNCHANGED <<op, announcement, snapshot_announcements, object_vars, dec, weak>>

Handles(t) == Counted(t) \cup Weak(t) \cup Snapshots(t) \cup {null}

\* compare_and_swap(expected, const desired&), the reservation: none for a
\* protected snapshot, the announcement for the others.
CompareAndSwap(t) ==
  /\ CanCall(t, "cas")
  /\ \E l \in WeakLocations, exp \in Handles(t), des \in Handles(t) :
       /\ SetOp(t, [Idle EXCEPT !.pc = "cas", !.loc = l, !.ptr = des, !.old = exp])
       /\ \/ /\ des \in Counted(t) \cup Weak(t) \cup {null}
             /\ announcement' = [announcement EXCEPT ![t] = des]
          \/ /\ des \in Snapshots(t)
             /\ UNCHANGED announcement
  /\ UNCHANGED <<cell, snapshot_announcements, local, object_vars, dec, rc, weak>>

\* compare_and_swap_impl: what was there is retired, which may collect,
\* before desired is incremented.
CasExchange(t) ==
  /\ At(t, "cas")
  /\ \/ /\ cell[op[t].loc] = op[t].old
        /\ cell' = [cell EXCEPT ![op[t].loc] = op[t].ptr]
        /\ SetLocal(t, Retire(local[t], op[t].old, "decrement_weak_count"))
        /\ SetOp(t, IF op[t].ptr = null THEN Return(t)
                    ELSE [Idle EXCEPT !.pc = "cas_inc", !.ptr = op[t].ptr])
     \/ /\ cell[op[t].loc] # op[t].old
        /\ SetOp(t, Return(t))
        /\ UNCHANGED <<cell, local>>
  /\ UNCHANGED <<announcement, snapshot_announcements, object_vars, dec, rc, weak>>

CasIncrement(t) ==
  /\ At(t, "cas_inc")
  /\ AddWeakRef(op[t].ptr)
  /\ SetOp(t, Return(t))
  /\ UNCHANGED <<cell, announcement, snapshot_announcements, local,
                 live, disposed, ref_cnt, stuck, dec, rc, weak>>

\* compare_and_swap(expected, weak_ptr&& desired) that succeeds.
CompareAndSwapMove(t) ==
  /\ CanCall(t, "cas_move")
  /\ \E l \in WeakLocations, exp \in Handles(t), des \in Weak(t) \cup {null} :
       /\ cell[l] = exp
       /\ cell' = [cell EXCEPT ![l] = des]
       /\ GivesUpWeak(t, des)
       /\ SetLocal(t, Retire(local[t], exp, "decrement_weak_count"))
  /\ UNCHANGED <<op, announcement, snapshot_announcements, object_vars, dec, rc>>

\* exchange(weak_ptr).
Exchange(t) ==
  /\ CanCall(t, "exchange")
  /\ \E l \in WeakLocations, new \in Weak(t) \cup {null} :
       /\ cell[l] # null => new # null \/ HasWeakRoom(t)
       /\ cell' = [cell EXCEPT ![l] = new]
       /\ weak' = [weak EXCEPT ![t] =
            [o \in Objects |-> @[o] + (IF o = cell[l] THEN 1 ELSE 0)
                                    - (IF o = new THEN 1 ELSE 0)]]
  /\ UNCHANGED <<op, announcement, snapshot_announcements, local, object_vars, dec, rc>>

-----------------------------------------------------------------------------
\* The steps of a decrement_ref_cnt after its fetch_sub.
Decrementing(t) ==
  /\ DecrementCas(t) \/ DecrementExchange(t) \/ ReleaseRefs(t)
  /\ UNCHANGED <<cell, op, announcement, snapshot_announcements, rc, weak>>

Proceed(t) ==
  \/ ManagerStep(t) /\ UNCHANGED <<object_vars, dec, rc, weak>>
  \/ Eject(t) \/ Decrementing(t)
  \/ LoadIncrement(t) \/ SnapshotIncrement(t) \/ UseCount(t) \/ Expired(t)
  \/ CasExchange(t) \/ CasIncrement(t)

Call(t) ==
  \/ MakeShared(t) \/ ClearRc(t) \/ CopyToWeak(t) \/ ClearWeak(t) \/ Lock(t)
  \/ LockSnapshot(t)
  \/ Load(t) \/ GetSnapshot(t) \/ ClearSnapshot(t)
  \/ StoreWeak(t) \/ StoreRc(t) \/ CompareAndSwap(t) \/ CompareAndSwapMove(t)
  \/ Exchange(t)

Next == \E t \in Threads : Proceed(t) \/ Call(t)

Spec == Init /\ [][Next]_vars

-----------------------------------------------------------------------------
TypeOK ==
  /\ ManagerTypeOK(PCs)
  /\ live \subseteq Objects
  /\ disposed \subseteq live
  /\ ref_cnt \in [Objects -> Nat]
  /\ stuck \in [Objects -> {"no", "zero", "pending"}]
  /\ weak_cnt \in [Objects -> Nat]
  /\ dec \in [Threads -> [pc : {"off", "cas", "exchange", "weak_load"}, obj : Ptrs]]
  /\ rc \in [Threads -> [Objects -> Nat]]
  /\ weak \in [Threads -> [Objects -> Nat]]

\* The entries of one kind for o that the thread has deferred.
Deferred(t, o, type) ==
  local[t].deferred[<<o, type>>] + local[t].deferred_destructs[<<o, type>>]

\* The objects whose control data the thread reads or writes in its next step,
\* or may at any time because it holds a pointer to them.
Uses(t) ==
  Counted(t) \cup Weak(t) \cup Snapshots(t)
  \cup (IF op[t].pc \in {"load_inc", "snapshot_inc", "use_count", "cas_inc"}
        THEN {op[t].ptr} ELSE {})
  \cup (IF dec[t].pc = "weak_load" THEN {dec[t].obj} ELSE {})
  \cup {o \in Objects : \E type \in RetireType : Deferred(t, o, type) > 0}

\* No thread touches the control data of an object that is deleted: not
\* through a pointer it holds, not through one it announced before a racing
\* store retired it, not to apply a deferred action.
NoUseAfterFree == \A t \in Threads : Uses(t) \subseteq live

\* A decrement whose fetch_sub reached zero looks at the counter again
\* (utils.h:148-149), so the object must not be deleted meanwhile: "the
\* underlying managed memory is freed when the counter hits zero, so that other
\* racing threads can not increment the counter back up from zero"
\* (utils.h:105-107).
DecrementIsSafe == \A t \in Threads : dec[t].obj \in live \cup {null}

\* "we have to defer the disposal of the managed object since an
\* atomic_weak_ptr might be about to take a snapshot" (counted_object.h:83-85):
\* what an rc_ptr or a weak snapshot points to is not destroyed, even if the
\* object has expired since the snapshot was taken.
NotDisposedWhileRead ==
  \A t \in Threads : (Counted(t) \cup Snapshots(t)) \cap disposed = {}

\* Both counts of every object are the numbers of references that they stand
\* for; the strong references together hold one weak reference until the
\* object is disposed; and the memory exists as long as the weak count says.
CountsAreExact ==
  \A o \in Objects :
    /\ ref_cnt[o] = Cardinality({l \in StrongLocations : cell[l] = o})
                    + SumFunction([t \in Threads |->
                        rc[t][o] + Deferred(t, o, "decrement_strong_count")])
    /\ weak_cnt[o] + Cardinality({t \in Threads : op[t].pc = "cas_inc" /\ op[t].ptr = o})
       = Cardinality({l \in WeakLocations : cell[l] = o})
         + SumFunction([t \in Threads |->
             weak[t][o] + Deferred(t, o, "decrement_weak_count")])
         + (IF o \in live \ disposed THEN 1 ELSE 0)
    /\ o \in live <=> weak_cnt[o] > 0

\* The disposals of o that are due: retired, or about to be decided.
Disposals(o) ==
  SumFunction([t \in Threads |->
    Deferred(t, o, "dispose")
    + (IF dec[t].pc = "weak_load" /\ dec[t].obj = o THEN 1 ELSE 0)])

\* An object is disposed exactly once: when its strong count sticks at zero
\* one disposal is due, or, if it was a load that stuck it, a decrement that
\* will find the pending flag is still running; and none is due before.
DisposedOnce ==
  \A o \in live \ disposed :
    /\ Disposals(o) = IF stuck[o] = "zero" THEN 1 ELSE 0
    /\ stuck[o] = "pending" =>
         \E t \in Threads : dec[t].obj = o /\ dec[t].pc \in {"cas", "exchange"}
    /\ ref_cnt[o] = 0 /\ stuck[o] = "no" =>
         \E t \in Threads : dec[t] = [pc |-> "cas", obj |-> o]
=============================================================================
