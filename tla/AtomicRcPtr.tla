----------------------------- MODULE AtomicRcPtr -----------------------------
(***************************************************************************)
(* atomic_rc_ptr, rc_ptr and snapshot_ptr over AcquireRetire: threads that *)
(* load, store, compare-and-swap and snapshot shared atomic_rc_ptrs, copy  *)
(* and drop the pointers they got, and collect when their deferred list    *)
(* says so.  One step per access to memory that other threads can see.     *)
(*                                                                         *)
(* There are no weak pointers here: the weak count of every object is 1,   *)
(* so release_refs disposes and destroys at once.  A reference count is a  *)
(* number, as StickyCounter is shown to implement; zero means stuck.       *)
(* Nobody but the decrementing thread may look at an object whose count is *)
(* zero (NoUseAfterFree), so the decrement that reaches zero, the          *)
(* destructor and the delete are one step.                                 *)
(***************************************************************************)
EXTENDS AcquireRetire

CONSTANTS
  MaxRc,   \* bound: rc_ptrs that one thread holds at a time
  Ops      \* the operations that each thread uses

ASSUME ClientAssumption ==
  /\ MaxRc \in Nat /\ DOMAIN Ops = Threads
  /\ RetireType = {"decrement_strong_count"}

VARIABLES
  live,     \* objects that are allocated and not destroyed
  ref_cnt,  \* strong count of every object
  rc        \* rc_ptrs each thread holds, per object; also snapshot_ptrs that
            \* own a count because no slot was free, which behave like rc_ptrs

vars == <<cell, op, announcement, snapshot_announcements, local, live, ref_cnt, rc>>

\* A location that is an object is the atomic_rc_ptr member of its T.
Fields == Locations \cap Objects
Roots == Locations \ Objects

PCs == {"load_inc", "store_inc", "cas", "cas_inc"}

Init ==
  /\ ManagerInit
  /\ live = {}
  /\ ref_cnt = [o \in Objects |-> 0]
  /\ rc = [t \in Threads |-> EmptyBag]

-----------------------------------------------------------------------------
CanCall(t, name) == At(t, "idle") /\ name \in Ops[t]

Counted(t) == {o \in Objects : rc[t][o] > 0}

Held(t) == Counted(t) \cup Snapshots(t)

\* The atomic_rc_ptrs that the thread can name: roots, and the members of
\* the objects it holds.
Reachable(t) == Roots \cup (Fields \cap Held(t))

Owns(t, o) == rc' = [rc EXCEPT ![t] = AddTo(@, o)]
GivesUp(t, o) == rc' = [rc EXCEPT ![t] = TakeFrom(@, o)]

HasRoom(t) == BagSize(rc[t]) < MaxRc

AddRef(o) == ref_cnt' = [ref_cnt EXCEPT ![o] = @ + 1]

-----------------------------------------------------------------------------
\* memory_manager_base.h and counted_object.h

\* delayed_decrement_ref_cnt(p)
RetireRef(m, p) == Retire(m, p, "decrement_strong_count")

\* Mutant: the destructor of a T does not give up its member's reference.
DestroyLeaky(t, o, m) ==
  /\ live' = live \ {o}
  /\ cell' = IF o \in Fields THEN [cell EXCEPT ![o] = null] ELSE cell
  /\ local' = [local EXCEPT ![t] = FinishCollecting(m)]

\* dispose() and destroy() of object o by thread t, whose local state is m:
\* ~T runs ~atomic_rc_ptr of the member, which retires what it holds.
Destroy(t, o, m) ==
  /\ live' = live \ {o}
  /\ cell' = IF o \in Fields THEN [cell EXCEPT ![o] = null] ELSE cell
  /\ local' = [local EXCEPT ![t] =
       FinishCollecting(RetireRef(m, IF o \in Fields THEN cell[o] ELSE null))]

\* decrement_ref_cnt(o), with release_refs.
DecrementRefCnt(t, o, m) ==
  /\ ref_cnt' = [ref_cnt EXCEPT ![o] = @ - 1]
  /\ \/ ref_cnt[o] = 1 /\ Destroy(t, o, m)
     \/ /\ ref_cnt[o] # 1
        /\ local' = [local EXCEPT ![t] = FinishCollecting(m)]
        /\ UNCHANGED <<live, cell>>

\* eject(o, decrement_strong_count) of one entry that is not announced.
Eject(t) ==
  /\ \E e \in Ejectable(t) : DecrementRefCnt(t, e[1], Without(local[t], e))
  /\ UNCHANGED <<announcement, snapshot_announcements, op, rc>>

-----------------------------------------------------------------------------
\* rc_ptr.h

\* make_shared, with create_object.
MakeShared(t) ==
  /\ CanCall(t, "make_shared") /\ HasRoom(t)
  /\ \E o \in Objects \ live :
       /\ live' = live \cup {o}
       /\ ref_cnt' = [ref_cnt EXCEPT ![o] = 1]
       /\ Owns(t, o)
  /\ UNCHANGED <<cell, announcement, snapshot_announcements, local, op>>

\* rc_ptr(const rc_ptr&) and rc_ptr(const snapshot_ptr&).
CopyToRc(t) ==
  /\ CanCall(t, "copy") /\ HasRoom(t)
  /\ \E o \in Held(t) :
       /\ AddRef(o)
       /\ Owns(t, o)
  /\ UNCHANGED <<cell, live, announcement, snapshot_announcements, local, op>>

\* rc_ptr::clear and ~rc_ptr, snapshot_ptr::clear of an unprotected snapshot:
\* the decrement is not deferred.
ClearRc(t) ==
  /\ CanCall(t, "clear")
  /\ \E o \in Counted(t) : GivesUp(t, o) /\ DecrementRefCnt(t, o, local[t])
  /\ UNCHANGED <<announcement, snapshot_announcements, op>>

\* snapshot_ptr::clear of a protected snapshot.
ClearSnapshot(t) ==
  /\ CanCall(t, "get_snapshot")
  /\ \E s \in Slots :
       /\ snapshot_announcements[t][s] # null
       /\ ClearSlot(t, s)
  /\ UNCHANGED <<cell, live, ref_cnt, announcement, local, op, rc>>

-----------------------------------------------------------------------------
\* Reading an atomic_rc_ptr.

\* atomic_rc_ptr::load, and protect_snapshot without a free slot, which goes
\* through the same acquire and the same increment.
Load(t) ==
  /\ \/ CanCall(t, "load")
     \/ CanCall(t, "get_snapshot") /\ NoFreeSlot(t)
  /\ HasRoom(t)
  /\ \E l \in Reachable(t) : StartAcquire(t, l, "load_inc")
  /\ UNCHANGED <<cell, live, ref_cnt, announcement, snapshot_announcements, local, rc>>

\* rc_ptr(ptr, AddRef::yes).
LoadIncrement(t) ==
  /\ At(t, "load_inc")
  /\ AddRef(op[t].ptr)
  /\ Owns(t, op[t].ptr)
  /\ SetOp(t, [Idle EXCEPT !.pc = "release"])
  /\ UNCHANGED <<cell, live, announcement, snapshot_announcements, local>>

\* get_snapshot with a free slot.
GetSnapshot(t) ==
  /\ CanCall(t, "get_snapshot")
  /\ \E l \in Reachable(t) : StartProtect(t, l, "idle")
  /\ UNCHANGED <<cell, live, ref_cnt, announcement, snapshot_announcements, local, rc>>

-----------------------------------------------------------------------------
\* Writing to an atomic_rc_ptr.

\* store(nullptr) and store(rc_ptr): the exchange takes over desired's count.
StoreRc(t) ==
  /\ CanCall(t, "store")
  /\ \E l \in Reachable(t), new \in Counted(t) \cup {null} :
       /\ cell' = [cell EXCEPT ![l] = new]
       /\ local' = [local EXCEPT ![t] = RetireRef(@, cell[l])]
       /\ IF new = null THEN UNCHANGED rc ELSE GivesUp(t, new)
  /\ UNCHANGED <<live, ref_cnt, announcement, snapshot_announcements, op>>

\* store(const snapshot_ptr&) of a protected snapshot: the exchange comes
\* first, the increment after it, and both only if the pointer changed.  An
\* unprotected snapshot is incremented before the exchange: CopyToRc; StoreRc.
StoreSnapshot(t) ==
  /\ CanCall(t, "store_snapshot")
  /\ \E l \in Reachable(t), new \in Snapshots(t) :
       /\ cell' = [cell EXCEPT ![l] = new]
       /\ SetOp(t, IF cell[l] = new THEN Idle
                   ELSE [Idle EXCEPT !.pc = "store_inc", !.ptr = new, !.old = cell[l]])
  /\ UNCHANGED <<live, ref_cnt, announcement, snapshot_announcements, local, rc>>

StoreIncrement(t) ==
  /\ At(t, "store_inc")
  /\ AddRef(op[t].ptr)
  /\ local' = [local EXCEPT ![t] = RetireRef(@, op[t].old)]
  /\ SetOp(t, Idle)
  /\ UNCHANGED <<cell, live, announcement, snapshot_announcements, rc>>

\* compare_and_swap(expected, const desired&), the reservation: none for a
\* protected snapshot, the announcement for an rc_ptr.  compare_exchange_weak
\* is this followed, when it fails, by a Load or GetSnapshot into expected.
CompareAndSwap(t) ==
  /\ CanCall(t, "cas")
  /\ \E l \in Reachable(t), exp \in Held(t) \cup {null}, des \in Held(t) \cup {null} :
       /\ SetOp(t, [Idle EXCEPT !.pc = "cas", !.loc = l, !.ptr = des, !.old = exp])
       /\ \/ /\ des \in Counted(t) \cup {null}
             /\ announcement' = [announcement EXCEPT ![t] = des]
          \/ /\ des \in Snapshots(t)
             /\ UNCHANGED announcement
  /\ UNCHANGED <<cell, live, ref_cnt, snapshot_announcements, local, rc>>

\* compare_and_swap_impl: on success, what was there is retired, which may
\* collect, before desired is incremented.
CasExchange(t) ==
  /\ At(t, "cas")
  /\ LET l == op[t].loc IN
     \/ /\ cell[l] = op[t].old
        /\ cell' = [cell EXCEPT ![l] = op[t].ptr]
        /\ local' = [local EXCEPT ![t] = RetireRef(@, op[t].old)]
        /\ SetOp(t, IF op[t].ptr = null THEN Return(t)
                    ELSE [Idle EXCEPT !.pc = "cas_inc", !.ptr = op[t].ptr])
     \/ /\ cell[l] # op[t].old
        /\ SetOp(t, Return(t))
        /\ UNCHANGED <<cell, local>>
  /\ UNCHANGED <<live, ref_cnt, announcement, snapshot_announcements, rc>>

CasIncrement(t) ==
  /\ At(t, "cas_inc")
  /\ AddRef(op[t].ptr)
  /\ SetOp(t, Return(t))
  /\ UNCHANGED <<cell, live, announcement, snapshot_announcements, local, rc>>

\* compare_and_swap(expected, rc_ptr&& desired): the count moves with it.
CompareAndSwapMove(t) ==
  /\ CanCall(t, "cas_move")
  /\ \E l \in Reachable(t), exp \in Held(t) \cup {null}, des \in Counted(t) \cup {null} :
       /\ cell[l] = exp
       /\ cell' = [cell EXCEPT ![l] = des]
       /\ local' = [local EXCEPT ![t] = RetireRef(@, exp)]
       /\ IF des = null THEN UNCHANGED rc ELSE GivesUp(t, des)
  /\ UNCHANGED <<live, ref_cnt, announcement, snapshot_announcements, op>>

\* exchange(rc_ptr), and the successful CAS of swap(rc_ptr&): the count of
\* what was there moves to the rc_ptr that the caller gets.
Exchange(t) ==
  /\ CanCall(t, "exchange")
  /\ \E l \in Reachable(t), new \in Counted(t) \cup {null} :
       /\ cell[l] # null => new # null \/ HasRoom(t)
       /\ cell' = [cell EXCEPT ![l] = new]
       /\ rc' = [rc EXCEPT ![t] =
            [o \in Objects |-> @[o] + (IF o = cell[l] THEN 1 ELSE 0)
                                    - (IF o = new THEN 1 ELSE 0)]]
  /\ UNCHANGED <<live, ref_cnt, announcement, snapshot_announcements, local, op>>

-----------------------------------------------------------------------------
\* The program ends: all pointers are gone but the ones that objects hold.
Exit ==
  /\ "exit" \in Ops[1]
  /\ \A t \in Threads : Counted(t) = {}
  /\ \A l \in Roots : cell[l] = null
  /\ DrainStart
  /\ UNCHANGED <<live, ref_cnt, rc>>

\* ~acquire_retire; the ejects are steps of thread 1.
Drain == DrainBatch \/ DrainDone

Exited == local[1].phase = "drained" /\ UNCHANGED vars

\* The next step of a thread inside an operation or a collection.
Proceed(t) ==
  \/ ManagerStep(t) /\ UNCHANGED <<live, ref_cnt, rc>>
  \/ t = 1 /\ Drain /\ UNCHANGED <<live, ref_cnt, rc>>
  \/ Eject(t)
  \/ LoadIncrement(t) \/ StoreIncrement(t)
  \/ CasExchange(t) \/ CasIncrement(t)

\* A call to the library.
Call(t) ==
  \/ MakeShared(t) \/ CopyToRc(t) \/ ClearRc(t) \/ ClearSnapshot(t)
  \/ Load(t) \/ GetSnapshot(t)
  \/ StoreRc(t) \/ StoreSnapshot(t)
  \/ CompareAndSwap(t) \/ CompareAndSwapMove(t) \/ Exchange(t)

Next == (\E t \in Threads : Proceed(t) \/ Call(t)) \/ Exit \/ Exited

Spec == Init /\ [][Next]_vars

\* Every thread that is inside an operation keeps running.
FairSpec == Spec /\ \A t \in Threads : WF_vars(Proceed(t))

-----------------------------------------------------------------------------
TypeOK ==
  /\ ManagerTypeOK(PCs)
  /\ live \subseteq Objects
  /\ ref_cnt \in [Objects -> Nat]
  /\ rc \in [Threads -> [Objects -> Nat]]

\* The decrements of o that the thread has deferred.
Deferred(t, o) ==
  LET e == <<o, "decrement_strong_count">> IN
  local[t].deferred[e] + local[t].deferred_destructs[e]

\* The objects whose memory the thread reads or writes in its next step, or
\* may at any time because it holds a pointer to them.
Uses(t) ==
  Held(t)
  \cup (IF op[t].pc \in {"load_inc", "store_inc", "cas_inc"} THEN {op[t].ptr} ELSE {})
  \cup ({op[t].loc} \cap Objects)
  \cup {o \in Objects : Deferred(t, o) > 0}

\* "protects reference-counted resources by deferring their reference count
\* decrements until no thread is still reading them" (acquire_retire.h:25-27):
\* no thread dereferences, counts or retires an object that is destroyed.
NoUseAfterFree == \A t \in Threads : Uses(t) \subseteq live

\* The references to o that exist in memory, wherever they are.
References(o) ==
  Cardinality({l \in Locations : cell[l] = o})
  + SumFunction([t \in Threads |->
      rc[t][o] + Deferred(t, o)
      + (IF op[t].pc = "store_inc" /\ op[t].old = o THEN 1 ELSE 0)])

\* Those of them that are in place but not counted yet: a store or a
\* compare_and_swap installs a pointer first and increments it after.
Uncounted(o) ==
  Cardinality({t \in Threads : op[t].pc \in {"store_inc", "cas_inc"} /\ op[t].ptr = o})

\* Nothing is leaked and nothing is decremented twice: at every moment the
\* count of an object is the number of references to it, less the ones on
\* their way; and an object exists as long as its count says so.
CountIsExact ==
  \A o \in Objects :
    /\ ref_cnt[o] + Uncounted(o) = References(o)
    /\ o \in live <=> ref_cnt[o] > 0

\* Garbage is bounded: between collections a thread holds back at most what
\* the announcements protect, on top of the work it has not paid for.
GarbageIsBounded ==
  \A t \in Threads : local[t].phase = "off" =>
    /\ local[t].amortized_work < threshold
    /\ BagSize(local[t].deferred_destructs) <= local[t].amortized_work + 2 * ScanLength

\* A collection comes to an end (the while loop of
\* work_toward_deferred_decrements), however the announcements change, and so
\* does the loop of ~acquire_retire, however long the chains are.
CollectionEnds ==
  \A t \in Threads :
    /\ local[t].phase \in {"scan", "eject"} ~> local[t].phase = "off"
    /\ local[1].phase = "drain" ~> local[1].phase = "drained"

\* "Perform any remaining deferred destruction. Need to be very careful about
\* additional objects being queued" (acquire_retire.h:231-232): when the
\* destructor returns nothing is deferred, by whatever thread, and only cycles
\* of objects that point to each other are left.
DrainLeavesNothing ==
  local[1].phase = "drained" =>
    /\ NothingDeferred
    /\ \A o \in live : \E l \in Fields \cap live : cell[l] = o
=============================================================================
