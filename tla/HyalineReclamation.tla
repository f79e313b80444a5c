------------------------ MODULE HyalineReclamation ------------------------
(***************************************************************************)
(* hyaline_tracker and acquire_retire_hyaline.  A thread gathers what it   *)
(* retires in a batch.  A full batch is pushed onto the reservation list   *)
(* of every thread in a critical section; each of these gives up its share *)
(* when it leaves, and whoever gives up the last share ejects the batch.   *)
(*                                                                         *)
(* An entry is one deferred action of one kind, and stands for its Node as *)
(* well.  A batch is the sequence of its entries from first along bnext,   *)
(* so the newest comes first.  It is named by the entry retired first, the *)
(* REFS node at its end, which keeps the counter refc.                     *)
(* One node of a batch is pushed on each list, so a list is a sequence of  *)
(* such names, newest first.  The load and the CAS of a push are one step: *)
(* a CAS that fails changes nothing that others can see.                   *)
(***************************************************************************)
EXTENDS Integers, Sequences, FiniteSets, Functions

CONSTANTS
  N,             \* utils::num_threads()
  Entries,
  KindOf,        \* the RetireType of each entry
  batch_size,    \* template parameter
  REFC_PROTECT,  \* 1ull << 62
  MaxGuards,     \* bound: nested hyaline_guards of a thread
  none

ASSUME HyalineAssumption ==
  /\ N \in Nat \ {0} /\ batch_size \in Nat \ {0} /\ MaxGuards \in Nat \ {0}
  /\ REFC_PROTECT \in Nat /\ REFC_PROTECT > N
  /\ none \notin Entries

Threads == 1..N

invptr == <<none>>

VARIABLES
  list,          \* rsrv[t].list: invptr, or the batches pushed since t began
  guards,        \* hyaline_guards of each thread; critical_section is guards > 0
  local_batch,
  members,       \* the entries of a batch on its way, by its REFS node
  refc,
  phase,         \* "off", "traverse" in end_critical_section, "drain", "gone"
  todo,          \* the rest of the list that traverse walks
  add,           \* the batch, slot and cnt of add_batch; in_progress is refs # none
  freeing,       \* what free_batch has left, called by traverse (1) and add_batch (2)
  destructing,   \* the latest eject may be destroying an object
  linked, retired, held

batch_vars == <<members, refc, todo, add, freeing>>
entry_vars == <<linked, retired, held>>
vars == <<list, guards, local_batch, phase, destructing, batch_vars, entry_vars>>

NoAdd == [refs |-> none, slot |-> 1, cnt |-> 0]

Init ==
  /\ list = [t \in Threads |-> invptr]
  /\ guards = [t \in Threads |-> 0]
  /\ local_batch = [t \in Threads |-> <<>>]
  /\ members = [x \in Entries |-> <<>>]
  /\ refc = [x \in Entries |-> 0]
  /\ phase = [t \in Threads |-> "off"]
  /\ todo = [t \in Threads |-> <<>>]
  /\ add = [t \in Threads |-> NoAdd]
  /\ freeing = [t \in Threads |-> [k \in 1..2 |-> <<>>]]
  /\ destructing = [t \in Threads |-> FALSE]
  /\ linked = {} /\ retired = {}
  /\ held = [t \in Threads |-> {}]

in_progress(t) == add[t].refs # none
CanCall(t) == phase[t] = "off" /\ ~in_progress(t)

\* The innermost free_batch of t, and what it has left.
Frame(t) == IF in_progress(t) THEN 2 ELSE 1
Left(t) == freeing[t][Frame(t)]

-----------------------------------------------------------------------------
\* hyaline_tracker

BeginCriticalSection(t) ==
  /\ CanCall(t) /\ guards[t] = 0
  /\ list' = [list EXCEPT ![t] = <<>>]
  /\ guards' = [guards EXCEPT ![t] = 1]
  /\ UNCHANGED <<local_batch, phase, destructing, batch_vars, entry_vars>>

\* A guard inside a critical section is not engaged.
BeginNested(t) ==
  /\ CanCall(t) /\ guards[t] \in 1..(MaxGuards - 1)
  /\ guards' = [guards EXCEPT ![t] = @ + 1]
  /\ UNCHANGED <<list, local_batch, phase, destructing, batch_vars, entry_vars>>

\* Mutant: a hyaline_guard is ended that was never begun.
EndNestedAlways(t) ==
  /\ CanCall(t)
  /\ guards' = [guards EXCEPT ![t] = @ - 1]
  /\ UNCHANGED <<list, local_batch, phase, destructing, batch_vars, entry_vars>>

EndNested(t) ==
  /\ CanCall(t) /\ guards[t] > 1
  /\ guards' = [guards EXCEPT ![t] = @ - 1]
  /\ UNCHANGED <<list, local_batch, phase, destructing, batch_vars, entry_vars>>

\* end_critical_section: the exchange, then traverse below.
EndCriticalSection(t) ==
  /\ CanCall(t) /\ guards[t] = 1
  /\ list' = [list EXCEPT ![t] = invptr]
  /\ todo' = [todo EXCEPT ![t] = list[t]]
  /\ phase' = [phase EXCEPT ![t] = "traverse"]
  /\ held' = [held EXCEPT ![t] = {}]
  /\ UNCHANGED <<guards, local_batch, destructing, members, refc, add, freeing, linked, retired>>

\* refc.fetch_add(n); free_batch when that makes it zero.
FetchAdd(t, r, n) ==
  /\ refc' = [refc EXCEPT ![r] = @ + n]
  /\ IF refc[r] = -n
     THEN /\ freeing' = [freeing EXCEPT ![t][Frame(t)] = members[r]]
          /\ members' = [members EXCEPT ![r] = <<>>]
     ELSE UNCHANGED <<freeing, members>>

\* One turn of traverse.
Traverse(t) ==
  /\ phase[t] = "traverse" /\ ~in_progress(t) /\ Left(t) = <<>> /\ todo[t] # <<>>
  /\ FetchAdd(t, Head(todo[t]), -1)
  /\ todo' = [todo EXCEPT ![t] = Tail(@)]
  /\ destructing' = [destructing EXCEPT ![t] = FALSE]
  /\ UNCHANGED <<list, guards, local_batch, phase, add, entry_vars>>

TraverseDone(t) ==
  /\ phase[t] = "traverse" /\ ~in_progress(t) /\ Left(t) = <<>> /\ todo[t] = <<>>
  /\ guards' = [guards EXCEPT ![t] = 0]
  /\ phase' = [phase EXCEPT ![t] = "off"]
  /\ destructing' = [destructing EXCEPT ![t] = FALSE]
  /\ UNCHANGED <<list, local_batch, batch_vars, entry_vars>>

\* Mutant: cnt counts the lists of all threads.
AddSlotCountsAll(t) ==
  LET i == add[t].slot  r == add[t].refs IN
  /\ in_progress(t) /\ i <= N
  /\ IF list[i] = invptr THEN UNCHANGED list ELSE list' = [list EXCEPT ![i] = <<r>> \o @]
  /\ add' = [add EXCEPT ![t].slot = i + 1, ![t].cnt = @ + 1]
  /\ UNCHANGED <<guards, local_batch, phase, destructing, members, refc, todo, freeing, entry_vars>>

\* Mutant: the list of the thread that adds the batch is left out.
AddSlotOthers(t) ==
  LET i == add[t].slot  r == add[t].refs IN
  /\ in_progress(t) /\ i <= N
  /\ IF list[i] = invptr \/ i = t
     THEN /\ add' = [add EXCEPT ![t].slot = i + 1]
          /\ UNCHANGED list
     ELSE /\ add' = [add EXCEPT ![t].slot = i + 1, ![t].cnt = @ + 1]
          /\ list' = [list EXCEPT ![i] = <<r>> \o @]
  /\ UNCHANGED <<guards, local_batch, phase, destructing, members, refc, todo, freeing, entry_vars>>

\* add_batch comes to the list of one thread.
AddSlot(t) ==
  LET i == add[t].slot  r == add[t].refs IN
  /\ in_progress(t) /\ i <= N
  /\ IF list[i] = invptr
     THEN /\ add' = [add EXCEPT ![t].slot = i + 1]
          /\ UNCHANGED list
     ELSE /\ add' = [add EXCEPT ![t].slot = i + 1, ![t].cnt = @ + 1]
          /\ list' = [list EXCEPT ![i] = <<r>> \o @]
  /\ UNCHANGED <<guards, local_batch, phase, destructing, members, refc, todo, freeing, entry_vars>>

\* add_batch after its loop.
AddCount(t) ==
  /\ in_progress(t) /\ add[t].slot = N + 1
  /\ FetchAdd(t, add[t].refs, add[t].cnt - REFC_PROTECT)
  /\ add' = [add EXCEPT ![t].slot = N + 2]
  /\ UNCHANGED <<list, guards, local_batch, phase, destructing, todo, entry_vars>>

-----------------------------------------------------------------------------
\* acquire_retire_hyaline

\* create_object, and the store that links a new reference.
Create(t, x) ==
  /\ CanCall(t)
  /\ x \notin linked \cup retired
  /\ linked' = linked \cup {x}
  /\ UNCHANGED <<list, guards, local_batch, phase, destructing, batch_vars, retired, held>>

\* acquire, protect_snapshot.
Acquire(t, x) ==
  /\ CanCall(t) /\ guards[t] > 0
  /\ x \in linked
  /\ held' = [held EXCEPT ![t] = @ \cup {x}]
  /\ UNCHANGED <<list, guards, local_batch, phase, destructing, batch_vars, linked, retired>>

Full(batch) == Len(batch) > batch_size * N

\* batch.refs
Refs(batch) == batch[Len(batch)]

\* The head of the loop of retire, with batch as the thread's local batch.
StartAdding(t, batch) ==
  IF Full(batch)
  THEN /\ local_batch' = [local_batch EXCEPT ![t] = <<>>]
       /\ members' = [members EXCEPT ![Refs(batch)] = batch]
       /\ add' = [add EXCEPT ![t] = [NoAdd EXCEPT !.refs = Refs(batch)]]
  ELSE /\ local_batch' = [local_batch EXCEPT ![t] = batch]
       /\ add' = [add EXCEPT ![t] = NoAdd]
       /\ UNCHANGED members

\* An exchange or CAS takes a reference out of its pointer and retires it: in
\* a call, or in the destructor of an object that an eject destroys.
Retire(t, x) ==
  LET batch == <<x>> \o local_batch[t] IN
  /\ CanCall(t) \/ destructing[t]
  /\ x \in linked
  /\ linked' = linked \ {x} /\ retired' = retired \cup {x}
  /\ refc' = IF local_batch[t] = <<>> THEN [refc EXCEPT ![x] = REFC_PROTECT] ELSE refc
  /\ IF in_progress(t) \/ phase[t] = "drain"
     THEN /\ local_batch' = [local_batch EXCEPT ![t] = batch]
          /\ UNCHANGED <<members, add>>
     ELSE StartAdding(t, batch)
  /\ destructing' = [destructing EXCEPT ![t] = FALSE]
  /\ UNCHANGED <<list, guards, phase, todo, freeing, held>>

\* add_batch has returned: back to the head of the loop of retire.
AddDone(t) ==
  /\ in_progress(t) /\ add[t].slot = N + 2 /\ Left(t) = <<>>
  /\ StartAdding(t, local_batch[t])
  /\ destructing' = [destructing EXCEPT ![t] = FALSE]
  /\ UNCHANGED <<list, guards, phase, refc, todo, freeing, entry_vars>>

\* free_batch, or the destructor of the manager, ejects one entry.
Eject(t) ==
  LET entry == Head(Left(t)) IN
  /\ Left(t) # <<>>
  /\ freeing' = [freeing EXCEPT ![t][Frame(t)] = Tail(@)]
  /\ retired' = retired \ {entry}
  /\ refc' = [refc EXCEPT ![entry] = 0]
  /\ destructing' = [destructing EXCEPT ![t] = TRUE]
  /\ UNCHANGED <<list, guards, local_batch, phase, members, todo, add, linked, held>>

\* ~acquire_retire_hyaline, in thread 1 once the others are done: local batches
\* are ejected until there is none.
DrainStart ==
  /\ \A t \in Threads : CanCall(t) /\ guards[t] = 0
  /\ phase' = [t \in Threads |-> IF t = 1 THEN "drain" ELSE "gone"]
  /\ UNCHANGED <<list, guards, local_batch, destructing, batch_vars, entry_vars>>

DrainBatch(i) ==
  /\ phase[1] = "drain" /\ Left(1) = <<>> /\ local_batch[i] # <<>>
  /\ freeing' = [freeing EXCEPT ![1][1] = local_batch[i]]
  /\ local_batch' = [local_batch EXCEPT ![i] = <<>>]
  /\ destructing' = [destructing EXCEPT ![1] = FALSE]
  /\ UNCHANGED <<list, guards, phase, members, refc, todo, add, entry_vars>>

\* Mutant: one pass over the threads.
DrainOnce ==
  /\ phase[1] = "drain" /\ Left(1) = <<>> /\ \A i \in Threads \ {1} : local_batch[i] = <<>>
  /\ phase' = [phase EXCEPT ![1] = "gone"]
  /\ destructing' = [destructing EXCEPT ![1] = FALSE]
  /\ UNCHANGED <<list, guards, local_batch, batch_vars, entry_vars>>

DrainDone ==
  /\ phase[1] = "drain" /\ Left(1) = <<>> /\ \A i \in Threads : local_batch[i] = <<>>
  /\ phase' = [phase EXCEPT ![1] = "gone"]
  /\ destructing' = [destructing EXCEPT ![1] = FALSE]
  /\ UNCHANGED <<list, guards, local_batch, batch_vars, entry_vars>>

\* The program has ended.
Ended == phase[1] = "gone" /\ UNCHANGED vars

-----------------------------------------------------------------------------
ThreadStep(t) ==
  \/ BeginCriticalSection(t) \/ BeginNested(t) \/ EndNested(t) \/ EndCriticalSection(t)
  \/ Traverse(t) \/ TraverseDone(t) \/ AddSlot(t) \/ AddCount(t) \/ AddDone(t) \/ Eject(t)
  \/ \E x \in Entries : Create(t, x) \/ Acquire(t, x) \/ Retire(t, x)

Next ==
  \/ \E t \in Threads : ThreadStep(t) \/ DrainBatch(t)
  \/ DrainStart \/ DrainDone \/ Ended

Spec == Init /\ [][Next]_vars

-----------------------------------------------------------------------------
Additions == [refs : Entries \cup {none}, slot : 1..(N + 2), cnt : 0..N]

TypeOK ==
  /\ list \in [Threads -> Seq(Entries) \cup {invptr}]
  /\ guards \in [Threads -> 0..MaxGuards]
  /\ local_batch \in [Threads -> Seq(Entries)]
  /\ members \in [Entries -> Seq(Entries)]
  /\ refc \in [Entries -> Int]
  /\ phase \in [Threads -> {"off", "traverse", "drain", "gone"}]
  /\ todo \in [Threads -> Seq(Entries)]
  /\ add \in [Threads -> Additions]
  /\ freeing \in [Threads -> [1..2 -> Seq(Entries)]]
  /\ destructing \in [Threads -> BOOLEAN]
  /\ linked \subseteq Entries /\ retired \subseteq Entries
  /\ held \in [Threads -> SUBSET Entries]

\* Hyaline keeps the promise of SafeReclamation: no entry is ejected while a
\* thread that loaded it is in its critical section, although batches of
\* several threads are pushed, given up and ejected in any order.
Reclamation == INSTANCE SafeReclamation

ImplementsReclamation == Reclamation!Spec

\* The lists, and the walks of lists, that have the batch of r.
Shares(r) == {t \in Threads : r \in Range(list[t]) \cup Range(todo[t])}

\* The counter of a batch on its way is the number of shares, plus what keeps
\* it up while add_batch has not counted yet.  It is never zero: no batch is
\* left behind, and none is freed by two threads.
SharesAreCounted ==
  \A r \in Entries : members[r] # <<>> =>
    LET adders == {t \in Threads : add[t].refs = r /\ add[t].slot <= N + 1}
        kept == IF adders = {} THEN 0
                ELSE REFC_PROTECT - add[CHOOSE t \in adders : TRUE].cnt
    IN  refc[r] = Cardinality(Shares(r)) + kept /\ refc[r] > 0

\* When the destructor of the manager returns, everything that was ever
\* retired has been ejected: by the destructor, or by the threads that shared
\* the batch.
DrainLeavesNothing == phase[1] = "gone" => retired = {}

\* The action that free_batch applies to an entry is the one the entry was
\* retired for: atomic_weak_ptr hands its manager a weak count to take back,
\* "retire(ptr, RetireType::decrement_weak_count)" (memory_manager_base.h:140),
\* and every entry of a batch gets the action of the REFS node, its last.
AppliesWhatWasRetired ==
  \A t \in Threads : Left(t) # <<>> => KindOf[Head(Left(t))] = KindOf[Refs(Left(t))]
=============================================================================
