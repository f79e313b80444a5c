------------------------ MODULE IntervalReclamation ------------------------
(***************************************************************************)
(* acquire_retire_ibr over epoch_tracker.  It is the epoch manager, whose  *)
(* actions it takes over, with a second announcement: besides the epoch in *)
(* which its critical section began, a reader announces the epoch of its   *)
(* latest load.  An entry is kept while its life, from the birth of the    *)
(* object to the retirement of the reference, meets an announced interval. *)
(***************************************************************************)
EXTENDS EpochReclamation

VARIABLES
  endTS_ann,   \* the end of each thread's interval; a critical section leaves it behind
  birthTS,     \* stamped_counted_object::birthTS of the object an entry refers to
  startTS,     \* the epoch a scan has just read at the thread at, or no_epoch
  announced    \* the intervals a scan has read so far

interval_vars == <<endTS_ann, birthTS, startTS, announced>>
all_vars == <<vars, interval_vars>>

INVALID_TS == 0

IntervalInit ==
  /\ Init
  /\ endTS_ann = [t \in Threads |-> INVALID_TS]
  /\ birthTS = [x \in Entries |-> 0]
  /\ startTS = [t \in Threads |-> no_epoch]
  /\ announced = [t \in Threads |-> {}]

\* create_object stamps the object with the epoch it reads after its own work
\* toward the next one.  The store that links a reference to the object can
\* come epochs later, so the object is as old as it likes.
CreateStamped(t, x) ==
  /\ Create(t, x)
  /\ \E b \in 0..global_epoch' : birthTS' = [birthTS EXCEPT ![x] = b]
  /\ UNCHANGED <<endTS_ann, startTS, announced>>

\* Mutant: one load, with whatever end the thread has announced.
ProtectUnchecked(t, x) == Acquire(t, x) /\ UNCHANGED interval_vars

\* acquire, protect_snapshot: the turn of the loop that returns.  The epoch it
\* reads after the load is the announced end, so it was that at the load too.
Protect(t, x) ==
  /\ endTS_ann[t] = global_epoch
  /\ Acquire(t, x)
  /\ UNCHANGED interval_vars

\* protect_snapshot and reserve when the end is out of date: read the epoch,
\* then announce it; it may have advanced meanwhile.
ExtendLoad(t) ==
  /\ CanCall(t) /\ guards[t] > 0 /\ endTS_ann[t] # global_epoch
  /\ current' = [current EXCEPT ![t] = global_epoch]
  /\ pc' = [pc EXCEPT ![t] = "extend"]
  /\ UNCHANGED <<global_epoch, local_epoch, guards, epoch_work, held, entry_vars,
                 collect_vars, interval_vars>>

ExtendAnnounce(t) ==
  /\ pc[t] = "extend"
  /\ endTS_ann' = [endTS_ann EXCEPT ![t] = current[t]]
  /\ current' = [current EXCEPT ![t] = 0]
  /\ pc' = [pc EXCEPT ![t] = "idle"]
  /\ UNCHANGED <<global_epoch, local_epoch, guards, epoch_work, held, entry_vars,
                 collect_vars, birthTS, startTS, announced>>

\* scan_announced_epochs reads the epoch of one thread and calls its argument
\* when there is one ...
ScanStart(t) ==
  /\ phase[t] = "scan" /\ at[t] <= N /\ startTS[t] = no_epoch
  /\ startTS' = [startTS EXCEPT ![t] = local_epoch[at[t]]]
  /\ at' = [at EXCEPT ![t] = IF local_epoch[at[t]] = no_epoch THEN @ + 1 ELSE @]
  /\ UNCHANGED <<epoch_vars, pc, entry_vars, held, eject_work, phase, min_epoch,
                 endTS_ann, birthTS, announced>>

\* Mutant: what the thread announced is not checked to be an interval.
ScanEndAny(t) ==
  /\ phase[t] = "scan" /\ startTS[t] # no_epoch
  /\ announced' = [announced EXCEPT ![t] = @ \cup {<<startTS[t], endTS_ann[at[t]]>>}]
  /\ startTS' = [startTS EXCEPT ![t] = no_epoch]
  /\ at' = [at EXCEPT ![t] = @ + 1]
  /\ UNCHANGED <<epoch_vars, pc, entry_vars, held, eject_work, phase, min_epoch,
                 endTS_ann, birthTS>>

\* ... which reads the end of that thread's interval.  A thread that has loaded
\* nothing yet may still announce the end of an earlier critical section.
ScanEnd(t) ==
  /\ phase[t] = "scan" /\ startTS[t] # no_epoch
  /\ announced' = [announced EXCEPT ![t] =
       IF startTS[t] <= endTS_ann[at[t]] THEN @ \cup {<<startTS[t], endTS_ann[at[t]]>>} ELSE @]
  /\ startTS' = [startTS EXCEPT ![t] = no_epoch]
  /\ at' = [at EXCEPT ![t] = @ + 1]
  /\ UNCHANGED <<epoch_vars, pc, entry_vars, held, eject_work, phase, min_epoch,
                 endTS_ann, birthTS>>

\* Mutant: birthTS >= ann.second.
ReservedExclusive(t, x) ==
  \E a \in announced[t] : ~(retireTS[x] < a[1] \/ birthTS[x] >= a[2])

\* The predicate f of the filter.
Reserved(t, x) == \E a \in announced[t] : ~(retireTS[x] < a[1] \/ birthTS[x] > a[2])

IntervalScanDone(t) ==
  /\ phase[t] = "scan" /\ at[t] > N
  /\ phase' = [phase EXCEPT ![t] = "eject"]
  /\ where' = [x \in Entries |->
                 IF x \notin Mine(t, "collecting") THEN where[x]
                 ELSE IF Reserved(t, x) THEN "deferred" ELSE "ejecting"]
  /\ at' = [at EXCEPT ![t] = 1]
  /\ announced' = [announced EXCEPT ![t] = {}]
  /\ UNCHANGED <<epoch_vars, pc, owner, retireTS, held, eject_work, min_epoch,
                 endTS_ann, birthTS, startTS>>

IntervalEject(t, x) ==
  /\ Eject(t, x)
  /\ birthTS' = [birthTS EXCEPT ![x] = 0]
  /\ UNCHANGED <<endTS_ann, startTS, announced>>

\* Critical sections, the unlinking of references, retire and the loop of
\* work_toward_ejects are those of the epoch manager.
Section(t) ==
  /\ \/ BeginLoad(t) \/ BeginAnnounce(t) \/ BeginNested(t)
     \/ EndNested(t) \/ EndCriticalSection(t)
  /\ UNCHANGED interval_vars

IntervalUnlink(t, x) == Unlink(t, x) /\ UNCHANGED interval_vars
IntervalRetire(t, x) == Retire(t, x) /\ UNCHANGED interval_vars
IntervalFinish(t) == Finish(t) /\ UNCHANGED interval_vars

-----------------------------------------------------------------------------
IntervalNext ==
  \E t \in Threads :
    \/ Section(t) \/ ExtendLoad(t) \/ ExtendAnnounce(t)
    \/ ScanStart(t) \/ ScanEnd(t) \/ IntervalScanDone(t) \/ IntervalFinish(t)
    \/ \E x \in Entries : CreateStamped(t, x) \/ Protect(t, x) \/ IntervalUnlink(t, x)
                         \/ IntervalRetire(t, x) \/ IntervalEject(t, x)

IntervalSpec == IntervalInit /\ [][IntervalNext]_all_vars

-----------------------------------------------------------------------------
\* The types; what a scan collects are intervals.
IntervalTypeOK ==
  /\ pc \in [Threads -> {"idle", "begin", "extend", "retire"}]
  /\ endTS_ann \in [Threads -> 0..MaxEpoch]
  /\ birthTS \in [Entries -> 0..MaxEpoch]
  /\ startTS \in [Threads -> 0..no_epoch]
  /\ \A t \in Threads : \A a \in announced[t] : a[1] \in 0..a[2] /\ a[2] \in 0..MaxEpoch

\* Why an interval is enough: what a reader loaded was born no later than the
\* end it announces, whatever end an earlier critical section left behind, and
\* is not retired before the start it announces.
IntervalCoversHeld ==
  \A t \in Threads : \A x \in held[t] :
    /\ birthTS[x] <= endTS_ann[t]
    /\ where[x] \in {"deferred", "collecting", "ejecting"} => local_epoch[t] <= retireTS[x]
=============================================================================
