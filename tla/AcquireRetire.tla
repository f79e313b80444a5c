---------------------------- MODULE AcquireRetire ----------------------------
(***************************************************************************)
(* acquire_retire (internal/smr/acquire_retire.h), the default memory      *)
(* manager.  A thread reads a shared pointer by announcing what it loaded  *)
(* and loading again (acquire, protect_snapshot).  It keeps a list of      *)
(* deferred actions (RetireType of memory_manager_base.h), and collects:   *)
(* scans the announcements and ejects the actions that none protects.      *)
(*                                                                         *)
(* What an ejected action does to its object, and what a thread does with  *)
(* a pointer it acquired, is left to the modules that extend this one:     *)
(* op[t].then names the step that follows a successful acquire.            *)
(***************************************************************************)
EXTENDS Naturals, FiniteSetsExt, Functions

CONSTANTS
  N,               \* utils::num_threads()
  Objects,         \* addresses that counted objects can have
  Locations,       \* the atomic pointers
  RetireType,      \* the kinds of deferred actions in use
  snapshot_slots,  \* template parameter: snapshot slots per thread
  eject_delay,     \* template parameter
  min_ejects,      \* the constant 30 of work_toward_deferred_decrements
  null

ASSUME ManagerAssumption ==
  /\ N \in Nat \ {0}
  /\ snapshot_slots \in Nat /\ eject_delay \in Nat /\ min_ejects \in Nat \ {0}
  /\ null \notin Objects
  /\ IsFiniteSet(Objects) /\ IsFiniteSet(Locations) /\ IsFiniteSet(RetireType)

Threads == 1..N
Ptrs == Objects \cup {null}
Slots == 1..snapshot_slots
Entries == Objects \X RetireType

VARIABLES
  cell,                    \* what every atomic pointer points to
  op,                      \* the operation each thread is in: see Idle
  announcement,            \* LocalSlot::announcement of every thread
  snapshot_announcements,
  local                    \* what only its thread reads and writes: see Local

EmptyBag == [o \in Objects |-> 0]
NoEntries == [e \in Entries |-> 0]
BagSize(bag) == SumFunction(bag)
AddTo(bag, o) == [bag EXCEPT ![o] = @ + 1]
TakeFrom(bag, o) == [bag EXCEPT ![o] = @ - 1]

Idle ==
  [pc |-> "idle", then |-> "idle", loc |-> null, ptr |-> null, old |-> null, slot |-> 0]

\* deferred_destructs[id] and amortized_work[id]; while in_progress[id] is
\* set, phase is not "off": in a collection it is "scan" or "eject", at is the next slot to read, announced is
\* how many entries of each type the map of that name protects, and deferred
\* is the list being filtered.  Equal entries are interchangeable, so lists
\* are bags.
Local == [deferred_destructs : [Entries -> Nat],
          amortized_work : Nat,
          phase : {"off", "scan", "eject", "drain", "drained"},
          at : Nat,
          announced : [Objects -> Nat],
          deferred : [Entries -> Nat]]

InitialLocal ==
  [deferred_destructs |-> NoEntries, amortized_work |-> 0, phase |-> "off",
   at |-> 0, announced |-> EmptyBag, deferred |-> NoEntries]

ManagerInit ==
  /\ cell = [l \in Locations |-> null]
  /\ op = [t \in Threads |-> Idle]
  /\ announcement = [t \in Threads |-> null]
  /\ snapshot_announcements = [t \in Threads |-> [s \in Slots |-> null]]
  /\ local = [t \in Threads |-> InitialLocal]

-----------------------------------------------------------------------------
\* Reading: acquire announces in the thread's announcement, protect_snapshot
\* in a snapshot slot.  A thread that collects does nothing else meanwhile.
At(t, pc) == op[t].pc = pc /\ local[t].phase = "off"

SetOp(t, o) == op' = [op EXCEPT ![t] = o]

\* A protected snapshot pointer is its slot, once protect_snapshot returned.
Snapshots(t) ==
  {snapshot_announcements[t][s] : s \in Slots \ {op[t].slot}} \ {null}

\* acquire(p), to continue with the step named then.
StartAcquire(t, l, then) ==
  SetOp(t, [Idle EXCEPT !.pc = "acquire_load", !.loc = l, !.then = then])

\* get_free_slot: s is the first free slot, if there is one.
FreeSlot(t, s) ==
  /\ snapshot_announcements[t][s] = null
  /\ \A r \in 1..(s - 1) : snapshot_announcements[t][r] # null

NoFreeSlot(t) == \A s \in Slots : snapshot_announcements[t][s] # null

\* protect_snapshot(p) with a free slot, to continue with the step named then.
StartProtect(t, l, then) ==
  \E s \in Slots :
    /\ FreeSlot(t, s)
    /\ SetOp(t, [Idle EXCEPT !.pc = "protect_load", !.loc = l, !.then = then, !.slot = s])

Then(t) == IF op[t].then = "idle" THEN Idle ELSE [op[t] EXCEPT !.pc = op[t].then]

AcquireLoad(t) ==
  /\ At(t, "acquire_load")
  /\ SetOp(t, [op[t] EXCEPT !.pc = "acquire_announce", !.ptr = cell[op[t].loc]])
  /\ UNCHANGED <<cell, announcement, snapshot_announcements, local>>

AcquireAnnounce(t) ==
  /\ At(t, "acquire_announce")
  /\ announcement' = [announcement EXCEPT ![t] = op[t].ptr]
  /\ SetOp(t, [op[t] EXCEPT !.pc = "acquire_check"])
  /\ UNCHANGED <<cell, snapshot_announcements, local>>

AcquireCheck(t) ==
  /\ At(t, "acquire_check")
  /\ SetOp(t, IF cell[op[t].loc] # op[t].ptr
              THEN [op[t] EXCEPT !.pc = "acquire_load", !.ptr = null]
              ELSE IF op[t].ptr = null THEN Idle ELSE Then(t))
  /\ UNCHANGED <<cell, announcement, snapshot_announcements, local>>

\* ~acquired_pointer of the announcement that acquire or reserve set.
Release(t) ==
  /\ At(t, "release")
  /\ announcement' = [announcement EXCEPT ![t] = null]
  /\ SetOp(t, Idle)
  /\ UNCHANGED <<cell, snapshot_announcements, local>>

\* The end of an operation that may have reserved.
Return(t) == [Idle EXCEPT !.pc = IF announcement[t] = null THEN "idle" ELSE "release"]

ProtectLoad(t) ==
  /\ At(t, "protect_load")
  /\ LET p == cell[op[t].loc] IN
     SetOp(t, [op[t] EXCEPT !.ptr = p,
                            !.pc = IF p = null THEN "protect_null" ELSE "protect_announce"])
  /\ UNCHANGED <<cell, announcement, snapshot_announcements, local>>

\* The pointer is null: the slot is given back and the snapshot is empty.
ProtectNull(t) ==
  /\ At(t, "protect_null")
  /\ snapshot_announcements' = [snapshot_announcements EXCEPT ![t][op[t].slot] = null]
  /\ SetOp(t, Idle)
  /\ UNCHANGED <<cell, announcement, local>>

ProtectAnnounce(t) ==
  /\ At(t, "protect_announce")
  /\ snapshot_announcements' = [snapshot_announcements EXCEPT ![t][op[t].slot] = op[t].ptr]
  /\ SetOp(t, [op[t] EXCEPT !.pc = "protect_check"])
  /\ UNCHANGED <<cell, announcement, local>>

\* Mutant: the snapshot is returned without loading the pointer again.
ProtectNoCheck(t) ==
  /\ At(t, "protect_check")
  /\ SetOp(t, Then(t))
  /\ UNCHANGED <<cell, announcement, snapshot_announcements, local>>

ProtectCheck(t) ==
  /\ At(t, "protect_check")
  /\ SetOp(t, IF cell[op[t].loc] = op[t].ptr THEN Then(t)
              ELSE [op[t] EXCEPT !.pc = "protect_load", !.ptr = null])
  /\ UNCHANGED <<cell, announcement, snapshot_announcements, local>>

\* acquired_pointer::clear of a protected snapshot.
ClearSlot(t, s) ==
  snapshot_announcements' = [snapshot_announcements EXCEPT ![t][s] = null]

-----------------------------------------------------------------------------
threshold == Max({min_ejects, eject_delay * N})

\* Mutant: amortized_work[id] is not reset.
StartCollectingAgain(m) ==
  IF m.phase # "off" \/ m.amortized_work < threshold THEN m
  ELSE IF m.deferred_destructs = NoEntries THEN [m EXCEPT !.amortized_work = 0]
  ELSE [m EXCEPT !.phase = "scan", !.at = 1,
                 !.deferred = m.deferred_destructs, !.deferred_destructs = NoEntries]

\* The head of the while loop of work_toward_deferred_decrements, up to the
\* scan: decide whether to collect, and take the list.
StartCollecting(m) ==
  IF m.phase # "off" \/ m.amortized_work < threshold THEN m
  ELSE IF m.deferred_destructs = NoEntries THEN [m EXCEPT !.amortized_work = 0]
  ELSE [m EXCEPT !.amortized_work = 0,
                 !.phase = "scan",
                 !.at = 1,
                 !.deferred = m.deferred_destructs,
                 !.deferred_destructs = NoEntries]

\* retire(p, type); the callers do nothing when p is null.
Retire(m, p, type) ==
  IF p = null THEN m
  ELSE StartCollecting([m EXCEPT !.deferred_destructs = AddTo(@, <<p, type>>),
                                 !.amortized_work = @ + 1])

\* Mutant: "if" instead of "while".
FinishCollectingOnce(m) ==
  IF m.phase = "eject" /\ m.deferred = NoEntries THEN [m EXCEPT !.phase = "off"] ELSE m

\* When the filtered list is exhausted: in_progress[id] = false, and back to
\* the head of the while loop.
FinishCollecting(m) ==
  IF m.phase = "eject" /\ m.deferred = NoEntries
  THEN StartCollecting([m EXCEPT !.phase = "off"])
  ELSE m

\* The announcement slots in the order scan_slots reads them: for each
\* thread its announcement, then its snapshot announcements.
ScanLength == N * (1 + snapshot_slots)

SlotAt(i) ==
  LET t == 1 + (i - 1) \div (1 + snapshot_slots)
      s == (i - 1) % (1 + snapshot_slots)
  IN  IF s = 0 THEN announcement[t] ELSE snapshot_announcements[t][s]

\* Mutant: an announcement protects one action.
AnnounceOne(announced, p) == IF p = null THEN announced ELSE AddTo(announced, p)

\* "The first announcement needs to protect up to two actions"
Announce(announced, p) ==
  IF p = null THEN announced
  ELSE [announced EXCEPT ![p] = IF @ = 0 THEN 2 ELSE @ + 1]

\* scan_slots reads one slot.
ScanStep(t) ==
  LET m == local[t] IN
  /\ m.phase = "scan" /\ m.at <= ScanLength
  /\ local' = [local EXCEPT ![t] =
       [m EXCEPT !.announced = Announce(@, SlotAt(m.at)), !.at = @ + 1]]
  /\ UNCHANGED <<cell, op, announcement, snapshot_announcements>>

\* Mutant: what is announced is dropped instead of being deferred again.
ForgetKept(m) ==
  LET kept == [e \in Entries |-> Min({m.deferred[e], m.announced[e[1]]})] IN
  FinishCollecting(
    [m EXCEPT !.phase = "eject", !.at = 0, !.announced = EmptyBag,
              !.deferred = [e \in Entries |-> m.deferred[e] - kept[e]]])

\* Mutant: the ejected entries are not erased from the list.
FilterNoErase(m) ==
  LET kept == [e \in Entries |-> Min({m.deferred[e], m.announced[e[1]]})] IN
  FinishCollecting(
    [m EXCEPT !.phase = "eject", !.at = 0, !.announced = EmptyBag,
              !.deferred = [e \in Entries |-> m.deferred[e] - kept[e]],
              !.deferred_destructs = [e \in Entries |-> @[e] + m.deferred[e]]])

\* The predicate f of the filter, over the whole list: of the entries of one
\* type for an object, as many as it is announced for are deferred again.
Filter(m) ==
  LET kept == [e \in Entries |-> Min({m.deferred[e], m.announced[e[1]]})] IN
  FinishCollecting(
    [m EXCEPT !.phase = "eject", !.at = 0, !.announced = EmptyBag,
              !.deferred = [e \in Entries |-> m.deferred[e] - kept[e]],
              !.deferred_destructs = [e \in Entries |-> @[e] + kept[e]]])

ScanDone(t) ==
  /\ local[t].phase = "scan" /\ local[t].at > ScanLength
  /\ local' = [local EXCEPT ![t] = Filter(local[t])]
  /\ UNCHANGED <<cell, op, announcement, snapshot_announcements>>

-----------------------------------------------------------------------------
\* ~acquire_retire, run by thread 1 when every thread is done.
DrainStart ==
  /\ \A t \in Threads : At(t, "idle") /\ Snapshots(t) = {}
  /\ local' = [t \in Threads |-> [local[t] EXCEPT !.phase = "drain"]]
  /\ UNCHANGED <<cell, op, announcement, snapshot_announcements>>

NothingDeferred == \A t \in Threads : local[t].deferred_destructs = NoEntries

\* One turn of the loop takes the lists of all threads into destructs, which is
\* deferred here; the decrements it applies are ejects.
DrainBatch ==
  /\ local[1].phase = "drain" /\ local[1].deferred = NoEntries /\ ~NothingDeferred
  /\ local' = [t \in Threads |->
       [local[t] EXCEPT
          !.deferred_destructs = NoEntries,
          !.deferred = IF t # 1 THEN @
                       ELSE [e \in Entries |->
                               SumFunction([u \in Threads |-> local[u].deferred_destructs[e]])]]]
  /\ UNCHANGED <<cell, op, announcement, snapshot_announcements>>

\* Mutant: "if" instead of "while".
DrainOnce ==
  /\ local[1].phase = "drain" /\ local[1].deferred = NoEntries
  /\ local' = [local EXCEPT ![1].phase = "drained"]
  /\ UNCHANGED <<cell, op, announcement, snapshot_announcements>>

DrainDone ==
  /\ local[1].phase = "drain" /\ local[1].deferred = NoEntries /\ NothingDeferred
  /\ local' = [local EXCEPT ![1].phase = "drained"]
  /\ UNCHANGED <<cell, op, announcement, snapshot_announcements>>

\* The entries to eject: the filter has let them through, or the drain took them.
Ejectable(t) ==
  {e \in Entries : local[t].phase \in {"eject", "drain"} /\ local[t].deferred[e] > 0}

\* The local state without entry e, which is being ejected.
Without(m, e) == [m EXCEPT !.deferred = TakeFrom(@, e)]

\* The steps of the manager that do not touch an object.
ManagerStep(t) ==
  \/ AcquireLoad(t) \/ AcquireAnnounce(t) \/ AcquireCheck(t) \/ Release(t)
  \/ ProtectLoad(t) \/ ProtectNull(t) \/ ProtectAnnounce(t) \/ ProtectCheck(t)
  \/ ScanStep(t) \/ ScanDone(t)

ManagerPCs ==
  {"idle", "acquire_load", "acquire_announce", "acquire_check", "release",
   "protect_load", "protect_null", "protect_announce", "protect_check"}

\* PCs are the steps of the module that extends this one.
ManagerTypeOK(PCs) ==
  /\ cell \in [Locations -> Ptrs]
  /\ op \in [Threads -> [pc : ManagerPCs \cup PCs, then : {"idle"} \cup PCs,
                         loc : Locations \cup {null}, ptr : Ptrs, old : Ptrs,
                         slot : 0..snapshot_slots]]
  /\ announcement \in [Threads -> Ptrs]
  /\ snapshot_announcements \in [Threads -> [Slots -> Ptrs]]
  /\ local \in [Threads -> Local]
=============================================================================
