-------------------------- MODULE EpochReclamation --------------------------
(***************************************************************************)
(* epoch_tracker and acquire_retire_ebr.  A reader announces the global    *)
(* epoch while it is in a critical section; an entry is stamped with the   *)
(* epoch at its retirement, and ejected when every announced epoch is      *)
(* later.                                                                  *)
(*                                                                         *)
(* An entry is one counted reference in an atomic pointer; where[x] follows*)
(* it from the pointer into the list of the thread that unlinked it, and   *)
(* out of it.  In a critical section acquire and protect_snapshot are a    *)
(* load of the pointer, and reserve is nothing.  What an eject does to the *)
(* object is not modelled, except that its destructor may retire more.     *)
(* A local variable of the code that goes out of scope gets its initial    *)
(* value back.                                                             *)
(***************************************************************************)
EXTENDS Integers, FiniteSets

CONSTANTS
  N,                \* utils::num_threads()
  Entries,
  epoch_frequency,  \* template parameter
  eject_delay,      \* template parameter
  min_ejects,       \* the constant 30 of work_toward_ejects
  MaxEpoch,         \* the largest epoch_type but one; also the bound for TLC
  MaxGuards         \* bound: nested epoch_guards of a thread

ASSUME EpochAssumption ==
  /\ N \in Nat \ {0}
  /\ epoch_frequency \in Nat /\ eject_delay \in Nat /\ min_ejects \in Nat \ {0}
  /\ MaxEpoch \in Nat /\ MaxGuards \in Nat

Threads == 1..N

\* numeric_limits<epoch_type>::max(), later than every epoch.
no_epoch == MaxEpoch + 1

VARIABLES
  global_epoch,
  local_epoch,   \* the epoch that each thread announces, or no_epoch
  guards,        \* epoch_guards of each thread; critical_section is guards > 0
  pc,            \* "begin" in begin_critical_section, "retire" in retire
  current,       \* the epoch that begin_critical_section loaded
  where,         \* "free", "linked", "retiring", "deferred", "collecting", "ejecting"
  owner,         \* the thread whose list or hands the entry is in
  retireTS,      \* RetiredObj::retireTS
  held,          \* the entries that each thread loaded in its critical section
  eject_work,
  epoch_work,
  phase,         \* "off", or in_progress: "scan", "eject"
  at,            \* the next thread whose epoch get_min_announced_epoch reads
  min_epoch      \* the minimum so far

epoch_vars == <<global_epoch, local_epoch, guards, current, epoch_work>>
entry_vars == <<where, owner, retireTS>>
collect_vars == <<eject_work, phase, at, min_epoch>>
vars == <<global_epoch, local_epoch, guards, pc, current, where, owner, retireTS, held,
          eject_work, epoch_work, phase, at, min_epoch>>

Init ==
  /\ global_epoch = 0
  /\ local_epoch = [t \in Threads |-> no_epoch]
  /\ guards = [t \in Threads |-> 0]
  /\ pc = [t \in Threads |-> "idle"]
  /\ current = [t \in Threads |-> 0]
  /\ where = [x \in Entries |-> "free"]
  /\ owner = [x \in Entries |-> 1]
  /\ retireTS = [x \in Entries |-> 0]
  /\ held = [t \in Threads |-> {}]
  /\ eject_work = [t \in Threads |-> 0]
  /\ epoch_work = [t \in Threads |-> 0]
  /\ phase = [t \in Threads |-> "off"]
  /\ at = [t \in Threads |-> 1]
  /\ min_epoch = [t \in Threads |-> no_epoch]

CanCall(t) == pc[t] = "idle" /\ phase[t] = "off"

Move(x, place) == where' = [where EXCEPT ![x] = place]

-----------------------------------------------------------------------------
\* epoch_tracker.h

\* begin_critical_section outside a critical section: load the global epoch,
\* then announce it; it may have advanced meanwhile.
BeginLoad(t) ==
  /\ CanCall(t) /\ guards[t] = 0
  /\ current' = [current EXCEPT ![t] = global_epoch]
  /\ pc' = [pc EXCEPT ![t] = "begin"]
  /\ UNCHANGED <<global_epoch, local_epoch, guards, epoch_work, held, entry_vars, collect_vars>>

BeginAnnounce(t) ==
  /\ pc[t] = "begin"
  /\ local_epoch' = [local_epoch EXCEPT ![t] = current[t]]
  /\ guards' = [guards EXCEPT ![t] = 1]
  /\ current' = [current EXCEPT ![t] = 0]
  /\ pc' = [pc EXCEPT ![t] = "idle"]
  /\ UNCHANGED <<global_epoch, epoch_work, held, entry_vars, collect_vars>>

\* begin_critical_section inside one: the new epoch_guard is not engaged.
BeginNested(t) ==
  /\ CanCall(t) /\ guards[t] \in 1..(MaxGuards - 1)
  /\ guards' = [guards EXCEPT ![t] = @ + 1]
  /\ UNCHANGED <<global_epoch, local_epoch, pc, current, epoch_work, held, entry_vars, collect_vars>>

\* Mutant: ~epoch_guard ends the critical section whether engaged or not.
EndNestedToo(t) ==
  /\ CanCall(t) /\ guards[t] > 1
  /\ guards' = [guards EXCEPT ![t] = @ - 1]
  /\ local_epoch' = [local_epoch EXCEPT ![t] = no_epoch]
  /\ UNCHANGED <<global_epoch, pc, current, epoch_work, held, entry_vars, collect_vars>>

\* Mutant: an epoch_guard is ended that was never begun.
EndNestedAlways(t) ==
  /\ CanCall(t)
  /\ guards' = [guards EXCEPT ![t] = @ - 1]
  /\ UNCHANGED <<global_epoch, local_epoch, pc, current, epoch_work, held, entry_vars, collect_vars>>

\* ~epoch_guard of a guard that is not engaged.
EndNested(t) ==
  /\ CanCall(t) /\ guards[t] > 1
  /\ guards' = [guards EXCEPT ![t] = @ - 1]
  /\ UNCHANGED <<global_epoch, local_epoch, pc, current, epoch_work, held, entry_vars, collect_vars>>

\* ~epoch_guard of the engaged guard, end_critical_section.
EndCriticalSection(t) ==
  /\ CanCall(t) /\ guards[t] = 1
  /\ guards' = [guards EXCEPT ![t] = 0]
  /\ local_epoch' = [local_epoch EXCEPT ![t] = no_epoch]
  /\ held' = [held EXCEPT ![t] = {}]
  /\ UNCHANGED <<global_epoch, pc, current, epoch_work, entry_vars, collect_vars>>

-----------------------------------------------------------------------------
\* acquire_retire_ebr.h

\* create_object, and the store that links a new reference.
Create(t, x) ==
  /\ CanCall(t)
  /\ where[x] = "free" /\ Move(x, "linked")
  /\ \/ /\ epoch_work[t] + 1 < epoch_frequency * N
        /\ epoch_work' = [epoch_work EXCEPT ![t] = @ + 1]
        /\ UNCHANGED global_epoch
     \/ /\ epoch_work[t] + 1 >= epoch_frequency * N
        /\ global_epoch < MaxEpoch
        /\ epoch_work' = [epoch_work EXCEPT ![t] = 0]
        /\ global_epoch' = global_epoch + 1
  /\ UNCHANGED <<local_epoch, guards, pc, current, owner, retireTS, held, collect_vars>>

\* acquire, protect_snapshot.
Acquire(t, x) ==
  /\ CanCall(t) /\ guards[t] > 0
  /\ where[x] = "linked"
  /\ held' = [held EXCEPT ![t] = @ \cup {x}]
  /\ UNCHANGED <<epoch_vars, pc, entry_vars, collect_vars>>

\* The exchange or CAS that takes a reference out of its pointer: in a call,
\* or in a destructor that an eject runs.
Unlink(t, x) ==
  /\ pc[t] = "idle" /\ phase[t] \in {"off", "eject"}
  /\ where[x] = "linked" /\ Move(x, "retiring")
  /\ owner' = [owner EXCEPT ![x] = t]
  /\ pc' = [pc EXCEPT ![t] = "retire"]
  /\ UNCHANGED <<epoch_vars, retireTS, held, collect_vars>>

threshold == IF min_ejects >= eject_delay * N THEN min_ejects ELSE eject_delay * N

\* The head of the loop of work_toward_ejects, when it goes on to collect.
StartCollecting(t) ==
  /\ phase' = [phase EXCEPT ![t] = "scan"]
  /\ eject_work' = [eject_work EXCEPT ![t] = 0]
  /\ UNCHANGED <<at, min_epoch>>

Mine(t, place) == {x \in Entries : where[x] = place /\ owner[x] = t}

\* The list of t, with the entries in more added, moves into the local list.
TakeList(t, more) ==
  where' = [x \in Entries |->
              IF x \in Mine(t, "deferred") \cup more THEN "collecting" ELSE where[x]]

\* retire, after the entry is unlinked: stamp it and put it on the list.
Retire(t, x) ==
  /\ pc[t] = "retire" /\ x \in Mine(t, "retiring")
  /\ pc' = [pc EXCEPT ![t] = "idle"]
  /\ retireTS' = [retireTS EXCEPT ![x] = global_epoch]
  /\ \/ /\ phase[t] # "off" \/ eject_work[t] + 1 < threshold
        /\ eject_work' = [eject_work EXCEPT ![t] = @ + 1]
        /\ Move(x, "deferred")
        /\ UNCHANGED <<phase, at, min_epoch>>
     \/ /\ phase[t] = "off" /\ eject_work[t] + 1 >= threshold
        /\ StartCollecting(t)
        /\ TakeList(t, {x})
  /\ UNCHANGED <<epoch_vars, owner, held>>

\* get_min_announced_epoch reads one announcement.
ScanStep(t) ==
  /\ phase[t] = "scan" /\ at[t] <= N
  /\ at' = [at EXCEPT ![t] = @ + 1]
  /\ min_epoch' = [min_epoch EXCEPT ![t] =
       IF local_epoch[at[t]] < @ THEN local_epoch[at[t]] ELSE @]
  /\ UNCHANGED <<epoch_vars, pc, entry_vars, held, eject_work, phase>>

\* Mutant: retireTS <= min_epoch.
FilterInclusive(t, x) ==
  IF retireTS[x] <= min_epoch[t] THEN "ejecting" ELSE "deferred"

\* The predicate f of the filter.
Filter(t, x) == IF retireTS[x] < min_epoch[t] THEN "ejecting" ELSE "deferred"

ScanDone(t) ==
  /\ phase[t] = "scan" /\ at[t] > N
  /\ phase' = [phase EXCEPT ![t] = "eject"]
  /\ where' = [x \in Entries |->
                 IF x \in Mine(t, "collecting") THEN Filter(t, x) ELSE where[x]]
  /\ at' = [at EXCEPT ![t] = 1]
  /\ min_epoch' = [min_epoch EXCEPT ![t] = no_epoch]
  /\ UNCHANGED <<epoch_vars, pc, owner, retireTS, held, eject_work>>

\* eject: the entry's deferred action is applied.
Eject(t, x) ==
  /\ phase[t] = "eject" /\ pc[t] = "idle"
  /\ x \in Mine(t, "ejecting") /\ Move(x, "free")
  /\ retireTS' = [retireTS EXCEPT ![x] = 0]
  /\ owner' = [owner EXCEPT ![x] = 1]
  /\ UNCHANGED <<epoch_vars, pc, held, collect_vars>>

\* Mutant: "if" instead of "while".
FinishOnce(t) ==
  /\ phase[t] = "eject" /\ pc[t] = "idle" /\ Mine(t, "ejecting") = {}
  /\ phase' = [phase EXCEPT ![t] = "off"]
  /\ UNCHANGED <<epoch_vars, pc, entry_vars, held, eject_work, at, min_epoch>>

\* Everything is ejected: back to the head of the loop of work_toward_ejects.
Finish(t) ==
  /\ phase[t] = "eject" /\ pc[t] = "idle" /\ Mine(t, "ejecting") = {}
  /\ \/ /\ eject_work[t] < threshold \/ Mine(t, "deferred") = {}
        /\ phase' = [phase EXCEPT ![t] = "off"]
        /\ eject_work' = [eject_work EXCEPT ![t] = IF @ < threshold THEN @ ELSE 0]
        /\ UNCHANGED <<where, at, min_epoch>>
     \/ /\ eject_work[t] >= threshold /\ Mine(t, "deferred") # {}
        /\ StartCollecting(t)
        /\ TakeList(t, {})
  /\ UNCHANGED <<epoch_vars, pc, owner, retireTS, held>>

-----------------------------------------------------------------------------
Next ==
  \E t \in Threads :
    \/ BeginLoad(t) \/ BeginAnnounce(t) \/ BeginNested(t)
    \/ EndNested(t) \/ EndCriticalSection(t)
    \/ ScanStep(t) \/ ScanDone(t) \/ Finish(t)
    \/ \E x \in Entries :
         Create(t, x) \/ Acquire(t, x) \/ Unlink(t, x) \/ Retire(t, x) \/ Eject(t, x)

Spec == Init /\ [][Next]_vars

-----------------------------------------------------------------------------
Places == {"free", "linked", "retiring", "deferred", "collecting", "ejecting"}

TypeOK ==
  /\ global_epoch \in 0..MaxEpoch
  /\ local_epoch \in [Threads -> 0..no_epoch]
  /\ guards \in [Threads -> Nat]
  /\ pc \in [Threads -> {"idle", "begin", "retire"}]
  /\ current \in [Threads -> 0..MaxEpoch]
  /\ where \in [Entries -> Places]
  /\ owner \in [Entries -> Threads]
  /\ retireTS \in [Entries -> 0..MaxEpoch]
  /\ held \in [Threads -> SUBSET Entries]
  /\ eject_work \in [Threads -> Nat]
  /\ epoch_work \in [Threads -> Nat]
  /\ phase \in [Threads -> {"off", "scan", "eject"}]
  /\ at \in [Threads -> 1..(N + 1)]
  /\ min_epoch \in [Threads -> 0..no_epoch]

\* An entry that a reader loaded in its critical section is not ejected before
\* the reader leaves, although its announcement may be older than the load,
\* and the collector reads announcements one by one while readers come and go.
HeldIsNotEjected ==
  \A t \in Threads, x \in Entries : x \in held[t] => where[x] # "free"

\* The epoch manager keeps the promise of SafeReclamation.
Reclamation == INSTANCE SafeReclamation WITH
  linked <- {x \in Entries : where[x] = "linked"},
  retired <- {x \in Entries : where[x] \in {"retiring", "deferred", "collecting", "ejecting"}}

ImplementsReclamation == Reclamation!Spec

\* Between collections a thread has not put off more work than the threshold.
WorkIsBounded == \A t \in Threads : phase[t] = "off" => eject_work[t] < threshold
=============================================================================
