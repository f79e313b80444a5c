# Verification of concurrent deferred reference counting (CDRC)

The library under `src/include/cdrc` gives C++ programs atomic shared pointers
(`atomic_rc_ptr`), cheap protected reads (`snapshot_ptr`) and weak pointers, on
top of an "acquire-retire" memory manager that defers reference-count
decrements while some thread may still be reading the object. This directory
holds a TLA+ model of it, the TLC runs that check the model on small instances,
and TLAPS proofs of what must hold on every instance.

## Inventory of the system

| Part | Source | What it does | Here |
|---|---|---|---|
| Sticky counter | `internal/utils.h` | wait-free counter whose zero is permanent | `StickyCounter`, `StickyCounterProofs` |
| Counted object | `internal/counted_object.h` | storage, strong count, weak count | `AtomicRcPtr`, `AtomicWeakPtr` |
| Memory manager base | `internal/memory_manager_base.h` | ejects, delayed decrements, allocation counters | `AtomicRcPtr`, `AtomicWeakPtr`; not the counters |
| Acquire-retire | `internal/smr/acquire_retire.h` | announcement slots (hazard pointers), deferred lists, scan and eject | `AcquireRetire` |
| Strong pointers | `atomic_rc_ptr.h`, `rc_ptr.h`, `snapshot_ptr.h` | the client's operations | `AtomicRcPtr`, `AtomicRcPtrInvariant`, `AtomicRcPtrSteps`, `AtomicRcPtrProofs` |
| Weak pointers | `atomic_weak_ptr.h`, `weak_ptr.h`, `weak_snapshot_ptr.h` | lock, snapshots of expiring objects | `AtomicWeakPtr` |
| Epoch manager | `internal/epoch_tracker.h`, `internal/smr/acquire_retire_ebr.h` | announced epochs instead of announced pointers | `EpochReclamation`, `EpochReclamationProofs` |
| Interval manager | `internal/smr/acquire_retire_ibr.h` | announced intervals of epochs | `IntervalReclamation`, `EpochReclamationProofs` |
| Hyaline manager | `internal/smr/acquire_retire_hyaline.h` | reference-counted batches | `HyalineReclamation`, `HyalineReclamationInvariant`, `HyalineReclamationBatches`, `HyalineReclamationProofs` |
| Marked pointers | `marked_arc_ptr.h` | mark bits in an `atomic_rc_ptr` | `LinkedList` |
| Thread ids | `internal/utils.h` | ids that index every per-thread array | not modelled |
| Example list | `src/examples/linked_list.h` | a sorted set over marked pointers | `LinkedList` |
| Example stack | `src/examples/stack.h` | a stack over `atomic_rc_ptr` | `AtomicStack` |
| Benchmark structures | `src/benchmarks/datastructures` | queue and stack to measure | not modelled |
| Benchmark harness and competitors | `src/benchmarks` | drivers, other reclamation schemes | not modelled |

A thread that reads an `atomic_rc_ptr` *announces* the pointer it loaded, loads
the pointer again to be sure the announcement came in time, and then either
increments the count (`load`) or keeps the announcement as a `snapshot_ptr`. A
thread that overwrites an `atomic_rc_ptr` owns the count of what was there; it
*retires* the pointer, that is, puts the decrement on a list of its own. Once
the list is long enough it scans all announcements and applies (*ejects*) the
decrements that no announcement protects. A count that reaches zero destroys
the object, whose own `atomic_rc_ptr` members retire what they hold.

A `weak_ptr` counts in a second count, which keeps the memory but not the object.
If weak references are left when the strong count sticks at zero, the disposal of
the object is deferred too, because a reader of an `atomic_weak_ptr` may just be
taking a snapshot of it. So there are three kinds of deferred actions: strong
decrement, weak decrement and disposal, and an announcement holds each kind back.

The epoch manager has no announced pointers. A reader opens an `epoch_guard`,
which announces the global epoch; a retired pointer is stamped with the epoch and
ejected once every announced epoch is later than its stamp. The interval manager
also stamps objects at birth, and a reader announces the epoch of its latest load
besides that of its guard, so that it does not hold up objects born later. In the
Hyaline manager a full batch of retired pointers is pushed onto the list of every
thread that has a guard, each thread gives up its share of the batch when its
guard ends, and whoever gives up the last share ejects the batch.

## Modules

**`StickyCounter`** models the class of that name, one step per atomic
instruction. `x` is the word. The two flags are the top bits, so with
`zero_pending_flag = P` a word is `0 .. 4P - 1` and a flag test is a comparison;
arithmetic wraps modulo `4P` as in the code. `Increment` is the `fetch_add`;
`Decrement`, `DecrementCas`, `DecrementExchange` are the three atomic
instructions of `decrement`; `Load` and `LoadCas` those of `load`. `refs`,
`failed`, `claims` and `told_zero` are history variables: what callers hold and
what they have been told. Callers keep the contract of the comments: they give
up no more than they hold, they stay below `max_value`, and `reset` happens at
zero and races with no increment or decrement.

**`ReferenceLifetime`** is the abstract specification: references come and go,
the counter sticks at zero, one releaser is told to free the memory.
`StickyCounter` implements it with `count <- refs`, `stuck <- HasZero(x)`,
`claimed <- claims > 0`.

**`AcquireRetire`** models the default memory manager, for any set of kinds of
deferred actions. `announcement`, `snapshot_announcements` and `cell` (the
`atomic_ptr` of every atomic pointer) are what threads share. What only its own
thread touches is the record `local[t]`: `deferred_destructs`, `amortized_work`,
and the variables of a collection in progress. `Retire`, `StartCollecting`,
`Filter` and `FinishCollecting` are functions on that record, so a thread's
private work is part of the step that triggers it. `ScanStep` reads one slot;
`ScanDone` splits the list. `DrainStart`, `DrainBatch` and `DrainDone` are the
loop of `~acquire_retire`, which thread 1 runs when the others are done. `acquire`
and `protect_snapshot` are a step per access to shared memory, and continue with
what their caller put in `op[t].then`.

**`AtomicRcPtr`** adds the counted objects with their strong count and the client
operations, one step per access to shared memory: `make_shared`, copy and clear
of an `rc_ptr`, `load`, `get_snapshot` with and without a free slot, both kinds
of `store`, both kinds of `compare_and_swap`, `exchange`. `op[t]` is the
operation that thread `t` is in, `rc[t]` the counted pointers it holds; a
snapshot is its announcement. `Eject` applies one decrement and everything that
follows from it: destructor, the retire of the member, delete.
`compare_exchange_weak` is `compare_and_swap` followed by `load` or
`get_snapshot`; a `store` of an unprotected snapshot is a copy followed by a
`store`; `swap` is `exchange` at the moment its CAS succeeds.

**`AtomicWeakPtr`** is the other client of `AcquireRetire`: both counts, all three
deferred actions, `atomic_weak_ptr` with all its operations, `weak_ptr`, `lock`
and weak snapshots, beside `rc_ptr`s and `atomic_rc_ptr`s that keep objects
alive. Here other threads do race with the zero of the strong count, so a
decrement has the steps of `utils.h`: `dec[t]` is where thread `t` stands between
its `fetch_sub`, its CAS, its exchange and the look at the weak count;
`stuck[o]` holds the flags. `live` are the objects whose memory is allocated,
`disposed` those of them that are destroyed.

**`SafeReclamation`** is the abstract specification of a memory manager: a reader
that got hold of a reference while it was linked holds up its ejection until it
lets go. **`EpochReclamation`** models `epoch_tracker` and `acquire_retire_ebr`
and implements it: `where[x]` follows each counted reference from the pointer it
is linked in, into the list of the thread that unlinked it (`owner[x]`), and out
of it. Guards open in two steps (`BeginLoad`, `BeginAnnounce`), nest, and close;
`Create`, `Acquire` and `Unlink` are what the pointers do; `Retire` stamps and may
start a collection, `ScanStep` reads one announcement, `ScanDone` filters,
`Eject` and `Finish` end it.

**`IntervalReclamation`** extends `EpochReclamation` by the second announcement
(`endTS_ann`) and the birth stamps (`birthTS`). It takes the guards, `Unlink`,
`Retire` and `Finish` over as they are. `Protect` is the turn of the loop of
`protect_snapshot` that returns, `ExtendLoad` and `ExtendAnnounce` are a turn that
does not. A collector reads the start of an interval (`ScanStart`) and its end
(`ScanEnd`) in two steps, and keeps the entries whose life meets an interval.

**`HyalineReclamation`** models `hyaline_tracker` and `acquire_retire_hyaline`.
A batch is named by its REFS node; `list[t]` is `rsrv[t].list`. `Retire` fills the
local batch and starts `add_batch`, which is a step per list (`AddSlot`) and one
for the counter (`AddCount`). `EndCriticalSection` takes the list and `Traverse`
gives up one share at a time. `Eject` is one turn of `free_batch`, after which the
destroyed object may retire a member. An eject inside `traverse` may fill a batch
and run `add_batch` there, so `freeing` has two frames. `DrainStart`,
`DrainBatch` and `DrainDone` are the destructor. Both modules implement
`SafeReclamation`, as `EpochReclamation` does.

**`LinkedList`** models the example list, with one step per access to a `next`
pointer: `Search`, `Advance`, `Unlink`, `Verify` are `search`, the others what
`insert` and `remove` do with its result. A `marked_ptr` is a node and a mark, and
every CAS compares both. `seen` is a history variable: whether the key of a call
was in the set, at each moment of the call.

**`AtomicStack`** models the example stack: `push_front`, `pop_front`, `find`,
`front`, and the destructor with the decrement that its `store` defers. `was` is a
history variable: the stack when a thread took its snapshot.

The two examples are written against what `atomic_rc_ptr` promises to its users:
a node lives while it can be reached from the structure or from a pointer of some
thread, and any other node may be allocated again.

The modules named `MC...` instantiate these for TLC.

### Abstractions

* A deferred list is a bag: entries for one object are interchangeable, and
  `Eject` picks any of them, which covers every order of the list.
* The exchange of a pointer and the append to the thread's own list are one
  step, as nobody else sees the list.
* The strong count is a number in `AtomicRcPtr`: `StickyCounter` shows that
  the word is the number of references until it sticks. The decrement that
  reaches zero, the destructor and the delete are one step, because by
  `NoUseAfterFree` no other thread looks at the object from then on.
* In `AtomicWeakPtr` the strong count is a number with flags, failed increments
  do not add up in it (see the bound `MaxFailed` below), and objects have no members.
* In the epoch, interval and Hyaline modules an eject does nothing but, possibly,
  retire more: what it does to counts is the subject of `AtomicRcPtr` and
  `AtomicWeakPtr`. Readers read under a guard, as these managers require;
  assertions are compiled out.
* In `HyalineReclamation` the load and the CAS of a push are one step: a CAS that
  fails writes only to a node that nobody sees yet.
* In the examples a CAS that fails and the load after it are one step in
  `AtomicStack`, where other threads see neither; `pop_front` reads `ss->next`
  with its snapshot, as the field of a linked node does not change; a list node is
  allocated when its CAS succeeds, as nobody sees it before.
* A search that starts again drops the snapshots of the search before. In the code
  those live on in the caller's frame, so the model reuses memory more freely.
* Memory is sequentially consistent. The weaker orders in the code
  (`memory_order_release` when a slot is cleared, relaxed increments) are not
  modelled.
* Addresses are reused as soon as an object is deleted, so ABA is in the model.

## Runs

| Run | Instance | Checks |
|---|---|---|
| `sticky_counter` | 3 threads, 5-bit word, amounts 1..3 | the counter's safety, liveness and refinement |
| `rc_core` | 2 threads, 2 roots, 1 reused address, 1 snapshot slot | every operation; what `exchange` returns is put back |
| `rc_list` | 2 threads, 3 objects with members, 1 snapshot slot | chains: destructors that retire, collections inside destructors, their end, and the drain |
| `reader_and_exchanger` | 2 threads, 1 object, 1 root | finding 1, a violation |
| `weak_pointers` | 2 threads, 1 atomic_weak_ptr, 1 atomic_rc_ptr, 1 reused address | snapshots, loads, `lock`, CAS, exchange; all three kinds of deferred actions on one object |
| `lock_and_clear` | 2 threads, 1 atomic_weak_ptr | finding 2, a violation |
| `epochs` | 2 threads, 2 references, nested guards, epochs 0..2 | the epoch manager implements `SafeReclamation` |
| `intervals` | 2 threads, 2 references, nested guards, epochs 0..1 | the interval manager implements `SafeReclamation` |
| `hyaline` | 2 threads, 5 references, batches of 3, nested guards | Hyaline implements `SafeReclamation`; the shares of a batch; the drain |
| `hyaline_kinds` | 1 thread, 2 references, batches of 2 | finding 3, a violation |
| `linked_list` | 2 threads, 2 keys, 3 reused nodes | the list is a linearizable set |
| `stack` | 2 threads, 2 values, 3 reused nodes | the stack is linearizable and lock-free; its destructor does not recurse |

*Bounds.* `MaxRc` bounds the `rc_ptr`s a thread holds at a time; `MaxFailed` the
amount that failed increments add between two resets; `Args` the amounts;
`MaxWeak` the `weak_ptr`s of a thread; `MaxEpoch` the epochs (an allocation that
would advance the epoch beyond it is not enabled); `MaxGuards` the nesting of guards.
`min_ejects` stands for the literal 30 and is 1, so that collections are
frequent: every retire starts one. With two threads one collects while the
other is anywhere in a read; one address makes every allocation an ABA; two
announcements by one thread (slot and snapshot) reach the case for which an
announcement protects two decrements. The pointer runs have two threads, which
keeps them to minutes; with a third, so that two writers race behind the back of
one reader, one root and no snapshot slots, `rc_core` holds too (20.8 million
states in 9 minutes). Five bits are enough for three threads to have references
while the flags stay out of reach; `MaxFailed` is just below the
`zero_pending_flag` (remark A below). A stamp is compared with announcements
only, so three epochs give every order of a stamp, an old announcement and a new
one. `intervals` has two epochs, in which an entry may be born after an announced
end, retired before an announced start, and an end may be left over from an earlier
critical section; with three epochs it holds too (27.5 million states in 6
minutes). In `hyaline` five references are a full batch and two more that are retired meanwhile, by the other thread or by
ejects; `REFC_PROTECT` need only exceed the number of threads. Three nodes are a
list or stack of two keys and one node to reuse; with two keys a node is inserted
before, after and in place of one that is being removed.

*Properties.* `WordCountsReferences`, `NoResurrection`, `ClaimedOnce`,
`NotLeaked`, `ZeroIsPermanent`, `ZeroIsClaimed` and `ImplementsLifetime` say
that the counter is exact until it sticks, that nobody gets a reference after
anybody was told zero, and that exactly one decrement is told to free.
`NoUseAfterFree` says that no thread touches a destroyed object.
`CountIsExact` says that the count of every object is the number of references
to it in memory, less those that a store or CAS has installed and is about to
count: nothing is leaked, nothing is decremented twice. `GarbageIsBounded`
bounds what a thread holds back: its unpaid work, plus two per slot.
`CollectionEnds` says that the loop of `work_toward_deferred_decrements` ends, and
that of the destructor; `DrainLeavesNothing` that after the destructor nothing is
deferred and only objects on a cycle of references are left.
With weak pointers, `CountsAreExact` says the same of both counts;
`NotDisposedWhileRead` that what an `rc_ptr` or a weak snapshot points to is not
destroyed, even if it has expired since; `DisposedOnce` that a strong count at
zero has exactly one disposal due, or a decrement under way that will see to it.
`HeldIsNotEjected` and `ImplementsReclamation` are the safety of the epoch
manager; `WorkIsBounded` says that a thread does not put its collections off.
`IntervalCoversHeld` is why an interval is enough: it covers the birth of all that
its reader holds, and does not begin after its retirement. `SharesAreCounted`
says that the counter of a Hyaline batch is the number of threads that have yet to
give it up, so that it is freed once and not forgotten; `AppliesWhatWasRetired`
that an entry gets the action it was retired for.
`EffectsAreAtomic`, `AnswersAreLinearizable` and `ListIsSorted` make the list a
linearizable set: it changes in the step that links or marks a node, by the key of
the call, and every other answer was true at some moment of the call.
`StackDiscipline` says the same of the stack; `SnapshotKeepsTheChain` that `find`
reads the stack of its snapshot to the end, whatever happens to it meanwhile;
`DestructionIsShallow` that no node is destroyed together with the next one by the
destructor; `CallsReturn` that a call fails to return only if others keep
succeeding.
Each property is checked to be sensitive: for every run and property there is an
operator, marked `Mutant` in the modules, that changes one definition as a
plausible bug would and under which TLC finds the property violated.

*Fairness.* `FairSpec` of `StickyCounter` and of `AtomicRcPtr` is weak fairness of
`Proceed(t)`, and that of `AtomicStack` of `Step(t)`: the next step of a thread
that is inside an operation. There are no locks, so only the scheduler
can hold such a thread up. No fairness is assumed of calls: a program may stop
calling the library.

## Findings

1. *`exchange` and `swap` bypass deferral* (`reader_and_exchanger`). They hand
   the count of the old pointer to an `rc_ptr`, whose destructor decrements at
   once, while a reader that loaded the pointer earlier holds a validated
   announcement or a snapshot of it. `acquire_retire.h:25-27` promises
   decrements deferred "until no thread is still reading them". In `rc_core`,
   `exchange` races with readers too, and is safe, because what it returns is put
   back by a `store` or another `exchange` and never dropped.
2. *A decrement may touch a deleted object* (`lock_and_clear`). `lock` succeeds
   between the `fetch_sub` that takes the strong count to 0 and the CAS that
   sticks it (`utils.h:146-148`). When the locked `rc_ptr` is cleared, a second
   decrement is before its CAS; whichever CAS succeeds goes on to delete the
   object if no weak reference is left, and the other one is on freed memory.
   `utils.h:105-107` presents the counter as one that makes this use safe. The
   counter itself is right (`ClaimedOnce`); it is its storage that goes away.
3. *Hyaline mixes up the kinds of deferred actions* (`hyaline_kinds`). `retire`
   records the kind of action in the first node of a batch only
   (`acquire_retire_hyaline.h:281-286`), and `free_batch` applies it to every entry
   (line 127), as the destructor does (line 324). A strong and a weak decrement in
   one batch become two of the same kind. `memory_manager_base.h:135` and `:140`
   retire both kinds with one manager, and `src/README.md:136` offers every backend
   for "all six of the pointer types". With strong pointers only, and no
   `weak_ptr` to delay a disposal, all entries are of one kind, which is the
   instance `hyaline` checks.

Two remarks on comments that say more than the code does; no run is about them.

* A. `increment` does its `fetch_add` before it looks at the flag (`utils.h:135`;
  the test that would prevent it is commented out at line 134), so failed
  increments add up: 2^31 of them on a 32-bit counter that stays at zero carry
  through the zero flag. `utils.h:101-103` says that a failed increment "does not
  perform the increment". The model adds them up, and `MaxFailed` bounds them.
* B. `acquire_retire_ebr.h:41-42` bounds the ejects a thread holds by "eject_delay
  * #threads". One reader that stays in its critical section holds up every entry
  retired since, so the list has no bound; `WorkIsBounded` is what holds.
  `acquire_retire.h:38-39` says the same of the announcement-based manager, where
  `GarbageIsBounded` holds: the threshold is at least 30, and what announcements
  protect comes on top of it.

## Proofs

### The counter

`StickyCounterProofs` proves, for any set of threads, any word width and any set
of amounts, every safety property that `sticky_counter` checks: `TypeCorrect`,
`Conservation`, `ZeroMeansNoReferences`, `FreedOnce`, `FreedAtRest`,
`ZeroForever`, and the refinement `CounterImplementsLifetime`. The hypothesis
`NoOverflow == MaxFailed < zero_pending_flag` rules out the overflow of remark A,
under which `ZeroIsPermanent` does not hold.

None of the properties is inductive. The invariant is
`IInv == TypeOK /\ ICount /\ IStuck /\ IClaimant /\ IExchange`:

* `ICount`: the word is `refs` while not stuck; stuck, it is the zero flag, plus
  the pending flag or not, plus some of the failed increments;
* `IStuck`: a stuck counter or a caller that was told zero means `refs = 0`;
* `IClaimant`: a zero that nobody has claimed has a decrement in flight that
  will, and the pending flag marks just the zeros that are not claimed;
* `IExchange`: a decrement that is about to exchange does so on a stuck counter.

The proof has one lemma per action for the preservation of `IInv`, and one step
per conjunct under it. `CounterImplementsLifetime` follows from `IInv` on both
sides of a step: each action maps to one action of `ReferenceLifetime` or to a
stutter.

### Epochs and intervals

`EpochReclamationProofs` proves, for any number of threads, any set of references
and any values of the parameters (`EpochAssumption`: naturals, at least one
thread, `min_ejects` positive), all that `epochs` checks:
`TypeCorrect`, `ReadersAreSafe`, `WorkBounded`, `EpochsImplementReclamation`.

`HeldIsNotEjected` is not inductive: it says nothing about entries on their way to
being ejected. The invariant is
`IInv == TypeOK /\ Announced /\ Stamped /\ Scanned /\ Spared`:

* `Announced`: a thread outside a critical section holds nothing; an announcement,
  made or about to be made, is not in the future;
* `Stamped`: the stamp of a retired entry is no earlier than the announcement of
  any thread that holds it, because the thread loaded it before it was unlinked;
* `Scanned`: the minimum that a collector has so far is no later than the stamp of
  any entry it is collecting that a thread it has passed still holds. A thread that
  enters after it was passed cannot get hold of such an entry: it is unlinked;
* `Spared`: no thread holds an entry that passed the filter.

`Inductive` has one lemma per conjunct, with one step per action. The refinement
follows from `IInv` and one step per action.

The second half of the module does the same for the interval manager, under the
same assumption, and proves all that `intervals` checks: `IntervalTypeCorrect`,
`IntervalsCover`, `IntervalReadersAreSafe`, `IntervalsImplementReclamation`. In
`IntervalIInv` the place of `Stamped` and `Scanned` is taken by

* `Born`: nothing that is in use was born in the future;
* `Covered`: the interval that a reader announces covers the life of all it holds,
  and is an interval. The load that got hold of an entry saw the end up to date,
  and an entry born later than that end is not yet linked when it is loaded;
* `Collected`: a collector has kept an interval that reserves every entry of its
  list that a thread it has passed still holds. It reads start and end of an
  announcement in two steps; in between the start it has read is no later than the
  stamp of any such entry, and no later than the end it is going to read.

### Hyaline

`HyalineReclamationInvariant` states the invariant and proves the conjuncts about
single threads, where entries are and who has a share of a batch, and
`HyalineReclamationProofs` the rest and the theorems:
`TypeCorrect`, `SharesCounted`, `DrainComplete` and
`HyalineImplementsReclamation`, all the safety that `hyaline` checks. The
assumption is `HyalineAssumption`: at least one thread, `batch_size` and
`MaxGuards` positive, and `REFC_PROTECT` more than the number of threads.

* `Sections` and `Draining`: where a thread is in its calls, and that the
  destructor starts when no batch is on its way;
* `Placed`: every retired entry is in exactly one place, a local batch, a batch on
  its way or a `free_batch`, and no batch has an entry twice;
* `Listed` and `Adding`: a list has a batch at most once and while it is on its
  way; `add_batch` of a batch is run by one thread, and the batch is on no list
  that it has not come to;
* `Counted`: `refc` of a batch is the number of its shares, plus `REFC_PROTECT`
  less what `add_batch` has counted so far while it runs, and after that is
  positive. `REFC_PROTECT > N` is what keeps it from zero before;
* `Holding`: an entry that a thread holds is in no `free_batch`; a batch that has
  it is on the thread's list, or `add_batch` has not come to that list yet.

`Counted` needs sums of sets of threads, so these modules use the library's
theorems on cardinalities, and those on sequences for the batches.

### Strong pointers

`AcquireRetireProofs`, `AtomicRcPtrInvariant` and `AtomicRcPtrProofs` prove, for
any number of threads, snapshot slots, objects and `atomic_rc_ptr`s, members of
objects included, all the invariants of `rc_core` and `rc_list`: `TypeCorrect`,
`NeverUsedAfterFree`, `CountsAreExact`, `GarbageBounded`, `DrainIsComplete`.
`ManagerAssumption` and `ClientAssumption` ask for finitely many objects,
`atomic_rc_ptr`s and kinds of deferred actions, at least one thread, a positive
`min_ejects`, and strong decrements as the only kind that occurs. All but
`GarbageBounded` have the hypothesis `ExchangedNeverCleared`, that a thread that
calls `exchange` does not clear `rc_ptr`s: without it objects are freed under
their readers (finding 1). It is how `rc_core` uses `exchange`.

The heart of the matter is why an announcement that came in time keeps its object
alive although nobody looks at it but collectors, each of which counts for itself
how many decrements of an object it has to hold back, while announcements come
and go. The invariant is
`IInv == TypeOK /\ Locals /\ Calls /\ DeadFields /\ Draining /\ Exact /\ Living /\ Guarded`.
`Exact` and `Living` are `CountIsExact`; `Locals`, `Calls`, `DeadFields` and
`Draining` say where a thread is in its operation, its collection and the
destructor of the manager. `Guarded` says, of every object `o` and *every*
nonempty set `Q` of slots that announce `o` and have been validated:

    Lasting(Q, o) > Cardinality(Covered(Q, o))

`Lasting` are the references to `o` that will not be given up while the slots in
`Q` hold it: the `atomic_rc_ptr`s that point to it, entries on lists that are not
being filtered, of a list that is being filtered as many as the scan will let
stay given what it has announced so far and the slots of `Q` it has not come to
(`Cap`), and `rc_ptr`s of threads that do not clear them. `Covered` are the
threads among those of `Q` that have put `o` into an `atomic_rc_ptr` and have not
incremented its count yet. So every announcement has a reference to stand for it
even after all of these increments are counted in, and one reference is left. The
quantifier over sets is needed because announcements are taken down one at a time:
those that are left must still be covered. The rule of `scan_slots` that the first
announcement of an object protects two decrements is what gives the "one more".

The proof bounds what one step of a thread can do: `GuardedStep` says that
`Guarded` survives a step that validates no slot if `Lasting` does not shrink, for
each `Q`, by more than `Covered` does; of a step that validates one, `QuietProtects`
says that the cell still points to the object, which is the reference that stands
for the new slot. `Retired` says
what `retire` and a collection do to the list of a thread, which may only drop
below what it kept if it keeps more than one entry per slot of `Q`. `RefsOf`, sums
over threads and `Cardinality` of cells are linked by lemmas on `SumFunction`,
which the library defines by recursion: `SumIsCardinality` shows that it is the
cardinality of a set of tokens, by the well-foundedness of proper inclusion on the
subsets of a finite set, and everything else follows from that.
`AtomicRcPtrInvariant` and `AtomicRcPtrProofs` have one lemma per action.

`GarbageIsBounded` has an invariant of its own, `Bounded` in `AcquireRetireProofs`:
while a collection runs, what was retired since it started is the unpaid work, a
scan has announced at most two per slot it has read, and the filter keeps no more
than that.

### Only model-checked

* `ZeroIsClaimed`, `CollectionEnds` and `CallsReturn`: liveness, out of the
  prover's reach.
* `AtomicWeakPtr`. Its invariant needs that of `AtomicRcPtr` for both counts and
  three kinds of entries, together with the flags of the counter.
* `LinkedList` and `AtomicStack`: what a structure holds is said by recursive
  operators, which the prover does not take.

## Plan

Done: the counter, the epoch, interval and Hyaline managers, and acquire-retire with
strong pointers (modelled, checked, proved); acquire-retire with weak pointers and
the two examples (modelled, checked). Next:

1. Proofs: `AtomicWeakPtr`, with `Guarded` for each kind of deferred action.
2. `AcquireRetire` against `SafeReclamation`, so that all managers share one
   promise. An announcement there holds back a number of decrements of an object,
   not a particular one, so the mapping has to choose which.
3. Members of objects in `AtomicWeakPtr`.

## Not modelled

* Thread ids (`ThreadID` in `utils.h`): the modules take a distinct id per thread
  as given. A thread that ends between operations and another that takes its id
  over are, for the lists and slots the id indexes, one thread that goes on.
* The allocation counters of `memory_manager_base`: nothing in the library reads
  them.
* The destructors of the epoch and interval managers: the same code as
  `~acquire_retire`, which is modelled.
* That the interval manager's `acquire` gives null for an expired object
  (`acquire_retire_ibr.h:150`): `IntervalReclamation` has no counts.
* Destructors of user types that use atomic pointers other than by destroying
  their members: an object's destructor in the model retires its member.
* `set_mark` and `set_mark_bit` of an atomic marked pointer, which only its test
  calls, and the second mark bit.
* List keys equal to those of the two sentinels, which the example reserves.
* The queue and stack under `src/benchmarks/datastructures`: measurement code; the
  stack is the example's.
* The benchmark drivers, the command-line harness and the competing reclamation
  schemes under `src/benchmarks` (third-party code kept for comparison) are not
  part of the library.
* Memory orders weaker than sequential consistency. Alignment, padding, hashing
  and prefetching have no effect on the state.
