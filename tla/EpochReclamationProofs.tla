----------------------- MODULE EpochReclamationProofs -----------------------
(***************************************************************************)
(* The epoch manager, and the interval manager derived from it, are safe   *)
(* for any number of threads and entries.                                  *)
(***************************************************************************)
EXTENDS IntervalReclamation, TLAPS

\* Critical sections and announcements agree: a thread outside holds nothing,
\* and what a thread announced or is about to announce is not in the future.
Announced ==
  \A t \in Threads :
    /\ guards[t] = 0 => held[t] = {}
    /\ guards[t] > 0 => local_epoch[t] <= global_epoch
    /\ pc[t] = "begin" => guards[t] = 0 /\ current[t] <= global_epoch

\* The stamp of an entry on a list is no earlier than the announcement of any
\* thread that holds it: the thread loaded it before it was unlinked.
Stamped ==
  \A t \in Threads : \A x \in held[t] :
    where[x] \in {"deferred", "collecting"} => local_epoch[t] <= retireTS[x]

\* The minimum that a collector has so far is low enough for every entry that
\* one of the threads it has passed still holds.
Scanned ==
  \A c \in Threads :
    /\ phase[c] # "scan" => at[c] = 1
    /\ \A t \in Threads : \A x \in held[t] :
         x \in Mine(c, "collecting") /\ t < at[c] => min_epoch[c] <= retireTS[x]

\* No thread holds an entry that is ejected or about to be.
Spared == \A t \in Threads : \A x \in held[t] : where[x] \notin {"free", "ejecting"}

IInv == TypeOK /\ Announced /\ Stamped /\ Scanned /\ Spared

\* Constants of work_toward_ejects and work_toward_advancing_epoch.
LEMMA ThresholdType == threshold \in Nat \ {0} /\ epoch_frequency * N \in Nat
BY EpochAssumption DEF threshold

\* The filter of a collection ejects an entry or keeps it.
LEMMA FilterPlace ==
  ASSUME NEW t, NEW x
  PROVE  Filter(t, x) \in {"ejecting", "deferred"}
BY Zenon DEF Filter

\* The initial state satisfies the inductive invariant.
LEMMA InitInv == Init => IInv
<1> SUFFICES ASSUME Init PROVE IInv
  BY Zenon
<1>1. TypeOK
  BY EpochAssumption DEF Init, TypeOK, Threads, no_epoch, Places
<1>2. Announced /\ Stamped /\ Scanned /\ Spared
  BY EpochAssumption DEF Init, Announced, Stamped, Scanned, Spared, Threads
<1> QED BY <1>1, <1>2, Zenon DEF IInv

\* Every step of the manager and its readers preserves the types.
LEMMA NextTypeOK == TypeOK /\ [Next]_vars => TypeOK'
<1> SUFFICES ASSUME TypeOK, [Next]_vars PROVE TypeOK'
  BY Zenon
<1>a. no_epoch = MaxEpoch + 1 /\ MaxEpoch \in Nat /\ N \in Nat
  BY EpochAssumption, Zenon DEF no_epoch
<1> USE <1>a DEF TypeOK, Places, CanCall, Move, epoch_vars,
        entry_vars, collect_vars
<1>1. ASSUME NEW t \in Threads,
             BeginLoad(t) \/ BeginAnnounce(t) \/ BeginNested(t)
               \/ EndNested(t) \/ EndCriticalSection(t)
      PROVE  TypeOK'
  <2>1. CASE BeginLoad(t)
    BY <2>1, Zenon DEF BeginLoad
  <2>2. CASE BeginAnnounce(t)
    BY <2>2 DEF BeginAnnounce
  <2>3. CASE BeginNested(t)
    BY <2>3 DEF BeginNested
  <2>4. CASE EndNested(t)
    BY <2>4 DEF EndNested
  <2>5. CASE EndCriticalSection(t)
    BY <2>5 DEF EndCriticalSection
  <2> QED BY <1>1, <2>1, <2>2, <2>3, <2>4, <2>5, Zenon
<1>2. ASSUME NEW t \in Threads, ScanStep(t) \/ ScanDone(t) \/ Finish(t)
      PROVE  TypeOK'
  <2>1. CASE ScanStep(t)
    <3>1. at[t] \in 1..(N + 1) /\ at[t] <= N
      BY <2>1, Zenon DEF ScanStep
    <3>2. at[t] \in Threads /\ at[t] + 1 \in 1..(N + 1)
      <4> HIDE DEF TypeOK
      <4> QED BY <3>1 DEF Threads
    <3>3. local_epoch[at[t]] \in 0..no_epoch /\ min_epoch[t] \in 0..no_epoch
      BY <3>2, Zenon
    <3>4. at' \in [Threads -> 1..(N + 1)] /\ min_epoch' \in [Threads -> 0..no_epoch]
      BY <2>1, <3>2, <3>3, Zenon DEF ScanStep
    <3> QED BY <2>1, <3>4, Zenon DEF ScanStep
  <2>2. CASE ScanDone(t)
    BY <2>2, FilterPlace DEF ScanDone
  <2>3. CASE Finish(t)
    BY <2>3, ThresholdType DEF Finish, StartCollecting, TakeList
  <2> QED BY <1>2, <2>1, <2>2, <2>3, Zenon
<1>3. ASSUME NEW t \in Threads, NEW x \in Entries,
             Create(t, x) \/ Acquire(t, x) \/ Unlink(t, x) \/ Retire(t, x) \/ Eject(t, x)
      PROVE  TypeOK'
  <2>1. CASE Create(t, x)
    BY <2>1, ThresholdType DEF Create
  <2>2. CASE Acquire(t, x)
    BY <2>2, Zenon DEF Acquire
  <2>3. CASE Unlink(t, x)
    BY <2>3, Zenon DEF Unlink
  <2>4. CASE Retire(t, x)
    BY <2>4, ThresholdType DEF Retire, StartCollecting, TakeList
  <2>5. CASE Eject(t, x)
    <3>1. 1 \in Threads
      <4> HIDE DEF TypeOK
      <4> QED BY EpochAssumption DEF Threads
    <3> QED BY <2>5, <3>1 DEF Eject
  <2> QED BY <1>3, <2>1, <2>2, <2>3, <2>4, <2>5, Zenon
<1>4. CASE UNCHANGED vars
  BY <1>4, Zenon DEF vars
<1> QED BY <1>1, <1>2, <1>3, <1>4, Zenon DEF Next

\* Announcements stay in the past, and threads let go when they leave.
LEMMA NextAnnounced == IInv /\ [Next]_vars => Announced'
<1> SUFFICES ASSUME TypeOK, Announced, [Next]_vars PROVE Announced'
  BY Zenon DEF IInv
<1>a. no_epoch = MaxEpoch + 1 /\ MaxEpoch \in Nat
  BY EpochAssumption, Zenon DEF no_epoch
<1> USE <1>a DEF TypeOK, Announced, CanCall, epoch_vars, entry_vars, collect_vars
<1>1. ASSUME NEW t \in Threads,
             BeginLoad(t) \/ BeginAnnounce(t) \/ BeginNested(t)
               \/ EndNested(t) \/ EndCriticalSection(t)
      PROVE  Announced'
  <2>1. CASE BeginLoad(t)
    BY <2>1 DEF BeginLoad
  <2>2. CASE BeginAnnounce(t)
    BY <2>2, Zenon DEF BeginAnnounce
  <2>3. CASE BeginNested(t)
    BY <2>3 DEF BeginNested
  <2>4. CASE EndNested(t)
    BY <2>4 DEF EndNested
  <2>5. CASE EndCriticalSection(t)
    BY <2>5 DEF EndCriticalSection
  <2> QED BY <1>1, <2>1, <2>2, <2>3, <2>4, <2>5, Zenon
<1>2. ASSUME NEW t \in Threads, ScanStep(t) \/ ScanDone(t) \/ Finish(t)
      PROVE  Announced'
  BY <1>2, Zenon DEF ScanStep, ScanDone, Finish
<1>3. ASSUME NEW t \in Threads, NEW x \in Entries,
             Create(t, x) \/ Acquire(t, x) \/ Unlink(t, x) \/ Retire(t, x) \/ Eject(t, x)
      PROVE  Announced'
  <2>1. CASE Create(t, x)
    BY <2>1 DEF Create
  <2>2. CASE Acquire(t, x)
    BY <2>2 DEF Acquire
  <2>3. CASE Unlink(t, x)
    BY <2>3, Zenon DEF Unlink
  <2>4. CASE Retire(t, x)
    BY <2>4, Zenon DEF Retire
  <2>5. CASE Eject(t, x)
    BY <2>5, Zenon DEF Eject
  <2> QED BY <1>3, <2>1, <2>2, <2>3, <2>4, <2>5, Zenon
<1>4. CASE UNCHANGED vars
  BY <1>4, Zenon DEF vars
<1> QED BY <1>1, <1>2, <1>3, <1>4, Zenon DEF Next

\* The entries that a thread holds keep a stamp no earlier than its
\* announcement.  Two steps need an argument: a retire stamps with the global
\* epoch, which no announcement exceeds, and a thread that announces holds
\* nothing.
LEMMA NextStamped == IInv /\ [Next]_vars => Stamped'
<1> SUFFICES ASSUME TypeOK, Announced, Stamped, [Next]_vars PROVE Stamped'
  BY Zenon DEF IInv
<1>a. no_epoch = MaxEpoch + 1 /\ MaxEpoch \in Nat
  BY EpochAssumption, Zenon DEF no_epoch
<1> USE <1>a DEF TypeOK, Stamped, CanCall, epoch_vars, entry_vars, collect_vars, Move
<1>1. ASSUME NEW t \in Threads,
             BeginLoad(t) \/ BeginAnnounce(t) \/ BeginNested(t)
               \/ EndNested(t) \/ EndCriticalSection(t)
      PROVE  Stamped'
  <2>1. CASE BeginAnnounce(t)
    <3>1. held[t] = {}
      BY <2>1, Zenon DEF BeginAnnounce, Announced
    <3> QED BY <2>1, <3>1, Zenon DEF BeginAnnounce
  <2>2. CASE BeginLoad(t) \/ BeginNested(t) \/ EndNested(t)
    BY <2>2, Zenon DEF BeginLoad, BeginNested, EndNested
  <2>3. CASE EndCriticalSection(t)
    BY <2>3, Zenon DEF EndCriticalSection
  <2> QED BY <1>1, <2>1, <2>2, <2>3, Zenon
<1>2. ASSUME NEW t \in Threads, ScanStep(t) \/ ScanDone(t) \/ Finish(t)
      PROVE  Stamped'
  <2>1. CASE ScanStep(t)
    BY <2>1, Zenon DEF ScanStep
  <2>2. CASE ScanDone(t)
    BY <2>2, Zenon DEF ScanDone, Filter, Mine
  <2>3. CASE Finish(t)
    BY <2>3, Zenon DEF Finish, TakeList, Mine
  <2> QED BY <1>2, <2>1, <2>2, <2>3, Zenon
<1>3. ASSUME NEW t \in Threads, NEW x \in Entries,
             Create(t, x) \/ Acquire(t, x) \/ Unlink(t, x) \/ Retire(t, x) \/ Eject(t, x)
      PROVE  Stamped'
  <2>1. CASE Create(t, x)
    BY <2>1, Zenon DEF Create
  <2>2. CASE Acquire(t, x)
    BY <2>2, Zenon DEF Acquire
  <2>3. CASE Unlink(t, x)
    BY <2>3, Zenon DEF Unlink
  <2>4. CASE Retire(t, x)
    <3>1. \A r \in Threads : held[r] # {} => local_epoch[r] <= global_epoch
      BY DEF Announced
    <3>2. UNCHANGED <<held, local_epoch>> /\ retireTS'[x] = global_epoch
      BY <2>4, Zenon DEF Retire
    <3>3. \A y \in Entries \ {x} :
            /\ retireTS'[y] = retireTS[y]
            /\ where'[y] \in {"deferred", "collecting"} => where[y] \in {"deferred", "collecting"}
      BY <2>4, Zenon DEF Retire, TakeList, Mine
    <3> QED BY <3>1, <3>2, <3>3, Zenon
  <2>5. CASE Eject(t, x)
    BY <2>5, Zenon DEF Eject
  <2> QED BY <1>3, <2>1, <2>2, <2>3, <2>4, <2>5, Zenon
<1>4. CASE UNCHANGED vars
  BY <1>4, Zenon DEF vars
<1> QED BY <1>1, <1>2, <1>3, <1>4, Zenon DEF Next

\* What a collector has read stays good: no thread can take hold of an entry
\* on a list, so a thread the collector has passed only ever holds fewer.
LEMMA NextScanned == IInv /\ [Next]_vars => Scanned'
<1> SUFFICES ASSUME TypeOK, Stamped, Scanned, [Next]_vars PROVE Scanned'
  BY Zenon DEF IInv
<1>a. no_epoch = MaxEpoch + 1 /\ MaxEpoch \in Nat /\ N \in Nat
  BY EpochAssumption, Zenon DEF no_epoch
<1> USE <1>a DEF TypeOK, Scanned, CanCall, epoch_vars, entry_vars, collect_vars, Move, Mine
<1>1. ASSUME NEW t \in Threads,
             BeginLoad(t) \/ BeginAnnounce(t) \/ BeginNested(t)
               \/ EndNested(t) \/ EndCriticalSection(t)
      PROVE  Scanned'
  <2>1. CASE BeginLoad(t) \/ BeginAnnounce(t) \/ BeginNested(t) \/ EndNested(t)
    BY <2>1, Zenon DEF BeginLoad, BeginAnnounce, BeginNested, EndNested
  <2>2. CASE EndCriticalSection(t)
    BY <2>2, Zenon DEF EndCriticalSection
  <2> QED BY <1>1, <2>1, <2>2, Zenon
<1>2. ASSUME NEW t \in Threads, ScanStep(t) \/ ScanDone(t) \/ Finish(t)
      PROVE  Scanned'
  <2>1. CASE ScanStep(t)
    <3>1. at[t] \in Threads /\ at'[t] = at[t] + 1
      BY <2>1 DEF ScanStep, Threads
    <3>2. /\ min_epoch'[t] <= min_epoch[t]
          /\ min_epoch'[t] <= local_epoch[at[t]]
          /\ min_epoch'[t] \in 0..no_epoch
      BY <2>1, <3>1 DEF ScanStep
    <3>3. /\ UNCHANGED <<entry_vars, held, phase>>
          /\ \A c \in Threads \ {t} : at'[c] = at[c] /\ min_epoch'[c] = min_epoch[c]
      BY <2>1, Zenon DEF ScanStep
    <3>4. \A c \in Threads : phase'[c] # "scan" => at'[c] = 1
      BY <2>1, <3>3, Zenon DEF ScanStep
    <3>5. ASSUME NEW r \in Threads, NEW x \in held[r], x \in Mine(t, "collecting"),
                 r < at[t] + 1
          PROVE  min_epoch'[t] <= retireTS[x]
      <4>1. r \in 1..N /\ at[t] \in 1..N
        BY <3>1, Zenon DEF Threads
      <4>2. CASE r < at[t]
        BY <3>2, <3>5, <4>2
      <4>3. CASE r = at[t]
        BY <3>2, <3>5, <4>3 DEF Stamped
      <4> QED BY <3>5, <4>1, <4>2, <4>3
    <3> QED BY <3>1, <3>3, <3>4, <3>5
  <2>2. CASE ScanDone(t)
    <3>1. \A c \in Threads, x \in Entries :
            where'[x] = "collecting" => where[x] = "collecting" /\ owner[x] # t
      BY <2>2, FilterPlace, Zenon DEF ScanDone
    <3>2. UNCHANGED <<held, owner, retireTS>> /\ at'[t] = 1
      BY <2>2, Zenon DEF ScanDone
    <3>3. \A c \in Threads \ {t} :
            phase'[c] = phase[c] /\ at'[c] = at[c] /\ min_epoch'[c] = min_epoch[c]
      BY <2>2, Zenon DEF ScanDone
    <3> QED BY <3>1, <3>2, <3>3
  <2>3. CASE Finish(t)
    <3>1. at[t] = 1
      BY <2>3, Zenon DEF Finish
    <3>2. UNCHANGED <<held, owner, retireTS, at, min_epoch>>
      BY <2>3, Zenon DEF Finish, StartCollecting
    <3>3. \A c \in Threads \ {t} : phase'[c] = phase[c]
      BY <2>3, Zenon DEF Finish, StartCollecting
    <3>4. \A x \in Entries : where'[x] = "collecting" => where[x] = "collecting" \/ owner[x] = t
      BY <2>3, Zenon DEF Finish, TakeList
    <3>5. \A r \in Threads : ~(r < 1)
      BY DEF Threads
    <3> QED BY <3>1, <3>2, <3>3, <3>4, <3>5
  <2> QED BY <1>2, <2>1, <2>2, <2>3, Zenon
<1>3. ASSUME NEW t \in Threads, NEW x \in Entries,
             Create(t, x) \/ Acquire(t, x) \/ Unlink(t, x) \/ Retire(t, x) \/ Eject(t, x)
      PROVE  Scanned'
  <2>1. CASE Create(t, x)
    BY <2>1, Zenon DEF Create
  <2>2. CASE Acquire(t, x)
    BY <2>2, Zenon DEF Acquire
  <2>3. CASE Unlink(t, x)
    BY <2>3, Zenon DEF Unlink
  <2>4. CASE Retire(t, x)
    <3>1. phase[t] = "off" => at[t] = 1
      BY Zenon
    <3>2. UNCHANGED <<held, owner, at, min_epoch>> /\ owner[x] = t /\ where[x] = "retiring"
      BY <2>4, Zenon DEF Retire, StartCollecting
    <3>3. \A c \in Threads : phase'[c] # "scan" => phase[c] # "scan"
      BY <2>4, Zenon DEF Retire, StartCollecting
    <3>4. \A y \in Entries : where'[y] = "collecting" =>
            \/ where[y] = "collecting" /\ y # x /\ retireTS'[y] = retireTS[y]
            \/ owner[y] = t /\ at[t] = 1
      BY <2>4, <3>1, <3>2, Zenon DEF Retire, TakeList
    <3>5. \A r \in Threads : ~(r < 1)
      BY DEF Threads
    <3> QED BY <3>2, <3>3, <3>4, <3>5
  <2>5. CASE Eject(t, x)
    BY <2>5, Zenon DEF Eject
  <2> QED BY <1>3, <2>1, <2>2, <2>3, <2>4, <2>5, Zenon
<1>4. CASE UNCHANGED vars
  BY <1>4, Zenon DEF vars
<1> QED BY <1>1, <1>2, <1>3, <1>4, Zenon DEF Next

\* The filter ejects only what nobody holds: at the end of a scan the minimum
\* is low enough for every held entry of the list.
LEMMA NextSpared == IInv /\ [Next]_vars => Spared'
<1> SUFFICES ASSUME TypeOK, Announced, Scanned, Spared, [Next]_vars PROVE Spared'
  BY Zenon DEF IInv
<1>a. no_epoch = MaxEpoch + 1 /\ MaxEpoch \in Nat /\ N \in Nat
  BY EpochAssumption, Zenon DEF no_epoch
<1> USE <1>a DEF TypeOK, Spared, CanCall, epoch_vars, entry_vars, collect_vars, Move, Mine
<1>1. ASSUME NEW t \in Threads,
             BeginLoad(t) \/ BeginAnnounce(t) \/ BeginNested(t)
               \/ EndNested(t) \/ EndCriticalSection(t)
      PROVE  Spared'
  <2>1. CASE BeginLoad(t) \/ BeginAnnounce(t) \/ BeginNested(t) \/ EndNested(t)
    BY <2>1, Zenon DEF BeginLoad, BeginAnnounce, BeginNested, EndNested
  <2>2. CASE EndCriticalSection(t)
    BY <2>2, Zenon DEF EndCriticalSection
  <2> QED BY <1>1, <2>1, <2>2, Zenon
<1>2. ASSUME NEW t \in Threads, ScanStep(t) \/ ScanDone(t) \/ Finish(t)
      PROVE  Spared'
  <2>1. CASE ScanStep(t)
    BY <2>1, Zenon DEF ScanStep
  <2>2. CASE ScanDone(t)
    <3>1. \A r \in Threads : r < at[t]
      <4>1. at[t] \in 1..(N + 1) /\ at[t] > N
        BY <2>2, Zenon DEF ScanDone
      <4> HIDE DEF TypeOK
      <4> QED BY <4>1 DEF Threads
    <3>2. ASSUME NEW r \in Threads, NEW x \in held[r], x \in Mine(t, "collecting")
          PROVE  Filter(t, x) = "deferred"
      <4>1. min_epoch[t] <= retireTS[x]
        BY <3>1, <3>2, Zenon DEF Scanned
      <4>2. x \in Entries /\ min_epoch[t] \in Int /\ retireTS[x] \in Int
        OBVIOUS
      <4> QED BY <4>1, <4>2 DEF Filter
    <3> QED BY <2>2, <3>2, Zenon DEF ScanDone
  <2>3. CASE Finish(t)
    BY <2>3, Zenon DEF Finish, TakeList
  <2> QED BY <1>2, <2>1, <2>2, <2>3, Zenon
<1>3. ASSUME NEW t \in Threads, NEW x \in Entries,
             Create(t, x) \/ Acquire(t, x) \/ Unlink(t, x) \/ Retire(t, x) \/ Eject(t, x)
      PROVE  Spared'
  <2>1. CASE Create(t, x)
    BY <2>1, Zenon DEF Create
  <2>2. CASE Acquire(t, x)
    BY <2>2, Zenon DEF Acquire
  <2>3. CASE Unlink(t, x)
    BY <2>3, Zenon DEF Unlink
  <2>4. CASE Retire(t, x)
    BY <2>4 DEF Retire, TakeList
  <2>5. CASE Eject(t, x)
    BY <2>5, Zenon DEF Eject
  <2> QED BY <1>3, <2>1, <2>2, <2>3, <2>4, <2>5, Zenon
<1>4. CASE UNCHANGED vars
  BY <1>4, Zenon DEF vars
<1> QED BY <1>1, <1>2, <1>3, <1>4, Zenon DEF Next

\* The inductive invariant holds of every behaviour of the epoch manager.
THEOREM Inductive == Spec => []IInv
<1>1. IInv /\ [Next]_vars => IInv'
  BY NextTypeOK, NextAnnounced, NextStamped, NextScanned, NextSpared, Zenon DEF IInv
<1> QED BY InitInv, <1>1, PTL DEF Spec

\* The variables of the epoch manager keep their types.
THEOREM TypeCorrect == Spec => []TypeOK
<1>1. IInv => TypeOK
  BY Zenon DEF IInv
<1> QED BY Inductive, <1>1, PTL

\* No entry is ejected while a reader that loaded it is in its critical section.
THEOREM ReadersAreSafe == Spec => []HeldIsNotEjected
<1>1. IInv => HeldIsNotEjected
  BY Zenon DEF IInv, Spared, HeldIsNotEjected
<1> QED BY Inductive, <1>1, PTL

\* A thread that is not collecting has put off less work than the threshold.
THEOREM WorkBounded == Spec => []WorkIsBounded
<1>1. Init => WorkIsBounded
  BY ThresholdType DEF Init, WorkIsBounded
<1>2. TypeOK /\ WorkIsBounded /\ [Next]_vars => WorkIsBounded'
  <2> SUFFICES ASSUME TypeOK, WorkIsBounded, [Next]_vars PROVE WorkIsBounded'
    BY Zenon
  <2> USE ThresholdType DEF TypeOK, WorkIsBounded, collect_vars, StartCollecting
  <2>1. ASSUME NEW t \in Threads,
               BeginLoad(t) \/ BeginAnnounce(t) \/ BeginNested(t)
                 \/ EndNested(t) \/ EndCriticalSection(t)
        PROVE  WorkIsBounded'
    BY <2>1, Zenon DEF BeginLoad, BeginAnnounce, BeginNested, EndNested, EndCriticalSection
  <2>2. ASSUME NEW t \in Threads, ScanStep(t) \/ ScanDone(t)
        PROVE  WorkIsBounded'
    BY <2>2, Zenon DEF ScanStep, ScanDone
  <2>3. ASSUME NEW t \in Threads, Finish(t)
        PROVE  WorkIsBounded'
    BY <2>3 DEF Finish
  <2>4. ASSUME NEW t \in Threads, NEW x \in Entries, Retire(t, x)
        PROVE  WorkIsBounded'
    BY <2>4, Zenon DEF Retire
  <2>5. ASSUME NEW t \in Threads, NEW x \in Entries,
               Create(t, x) \/ Acquire(t, x) \/ Unlink(t, x) \/ Eject(t, x)
        PROVE  WorkIsBounded'
    BY <2>5, Zenon DEF Create, Acquire, Unlink, Eject
  <2>6. CASE UNCHANGED vars
    BY <2>6, Zenon DEF vars
  <2> QED BY <2>1, <2>2, <2>3, <2>4, <2>5, <2>6, Zenon DEF Next
<1> QED BY TypeCorrect, <1>1, <1>2, PTL DEF Spec

\* The epoch manager implements SafeReclamation: every step of its threads is
\* one of linking, taking hold, letting go, unlinking and ejecting a reference
\* that nobody holds, or changes none of what SafeReclamation talks about.
THEOREM EpochsImplementReclamation == Spec => ImplementsReclamation
<1> DEFINE linkedBar == {x \in Entries : where[x] = "linked"}
           retiredBar == {x \in Entries :
                            where[x] \in {"retiring", "deferred", "collecting", "ejecting"}}
<1>1. Init => Reclamation!Init
  BY DEF Init, Reclamation!Init
<1>2. IInv /\ [Next]_vars => [Reclamation!Next]_(Reclamation!vars)
  <2> SUFFICES ASSUME TypeOK, Spared, [Next]_vars
               PROVE  Reclamation!Next \/ UNCHANGED <<linkedBar, retiredBar, held>>
    BY Zenon DEF IInv, Reclamation!vars
  <2> USE DEF TypeOK, Move, Mine, epoch_vars, entry_vars, collect_vars
  <2>1. ASSUME NEW t \in Threads,
               BeginLoad(t) \/ BeginAnnounce(t) \/ BeginNested(t) \/ EndNested(t) \/ ScanStep(t)
        PROVE  UNCHANGED <<linkedBar, retiredBar, held>>
    BY <2>1 DEF BeginLoad, BeginAnnounce, BeginNested, EndNested, ScanStep
  <2>2. ASSUME NEW t \in Threads, EndCriticalSection(t)
        PROVE  Reclamation!LetGo(t)
    BY <2>2, Zenon DEF EndCriticalSection, Reclamation!LetGo
  <2>3. ASSUME NEW t \in Threads, ScanDone(t)
        PROVE  UNCHANGED <<linkedBar, retiredBar, held>>
    BY <2>3, FilterPlace, Zenon DEF ScanDone
  <2>4. ASSUME NEW t \in Threads, Finish(t)
        PROVE  UNCHANGED <<linkedBar, retiredBar, held>>
    BY <2>4 DEF Finish, TakeList
  <2>5. ASSUME NEW t \in Threads, NEW x \in Entries, Create(t, x)
        PROVE  Reclamation!Link(x)
    BY <2>5 DEF Create, Reclamation!Link
  <2>6. ASSUME NEW t \in Threads, NEW x \in Entries, Acquire(t, x)
        PROVE  Reclamation!Hold(t, x)
    BY <2>6, Zenon DEF Acquire, Reclamation!Hold
  <2>7. ASSUME NEW t \in Threads, NEW x \in Entries, Unlink(t, x)
        PROVE  Reclamation!Unlink(x)
    BY <2>7, Zenon DEF Unlink, Reclamation!Unlink
  <2>8. ASSUME NEW t \in Threads, NEW x \in Entries, Retire(t, x)
        PROVE  UNCHANGED <<linkedBar, retiredBar, held>>
    BY <2>8 DEF Retire, TakeList
  <2>9. ASSUME NEW t \in Threads, NEW x \in Entries, Eject(t, x)
        PROVE  Reclamation!Eject(x)
    BY <2>9, Zenon DEF Eject, Spared, Reclamation!Eject
  <2>10. CASE UNCHANGED vars
    BY <2>10, Zenon DEF vars
  <2> HIDE DEF linkedBar, retiredBar
  <2> QED BY <2>1, <2>2, <2>3, <2>4, <2>5, <2>6, <2>7, <2>8, <2>9, <2>10, Zenon
          DEF Next, Reclamation!Next
<1> QED BY Inductive, <1>1, <1>2, PTL DEF Spec, ImplementsReclamation, Reclamation!Spec
-----------------------------------------------------------------------------
\* The interval manager

\* The types of all variables, those taken over from the epoch manager too.
Types ==
  /\ global_epoch \in 0..MaxEpoch
  /\ local_epoch \in [Threads -> 0..no_epoch]
  /\ guards \in [Threads -> Nat]
  /\ pc \in [Threads -> {"idle", "begin", "extend", "retire"}]
  /\ current \in [Threads -> 0..MaxEpoch]
  /\ where \in [Entries -> Places]
  /\ owner \in [Entries -> Threads]
  /\ retireTS \in [Entries -> 0..MaxEpoch]
  /\ held \in [Threads -> SUBSET Entries]
  /\ eject_work \in [Threads -> Nat]
  /\ epoch_work \in [Threads -> Nat]
  /\ phase \in [Threads -> {"off", "scan", "eject"}]
  /\ at \in [Threads -> 1..(N + 1)]
  /\ endTS_ann \in [Threads -> 0..MaxEpoch]
  /\ birthTS \in [Entries -> 0..MaxEpoch]
  /\ startTS \in [Threads -> 0..no_epoch]
  /\ announced \in [Threads -> SUBSET ((0..MaxEpoch) \X (0..MaxEpoch))]
  /\ \A t \in Threads : \A a \in announced[t] : a[1] <= a[2]

\* Critical sections and announcements agree: a thread outside holds nothing,
\* and the epochs it announced, or is about to announce, are not in the future.
Announcing ==
  \A t \in Threads :
    /\ guards[t] = 0 => held[t] = {}
    /\ guards[t] > 0 => local_epoch[t] <= global_epoch
    /\ endTS_ann[t] <= global_epoch
    /\ pc[t] = "begin" => guards[t] = 0 /\ current[t] <= global_epoch
    /\ pc[t] = "extend" => /\ guards[t] > 0
                           /\ endTS_ann[t] <= current[t] /\ current[t] <= global_epoch

\* An object that a pointer refers to was not born in the future.
Born == \A x \in Entries : where[x] # "free" => birthTS[x] <= global_epoch

\* What a thread holds lived in the interval that it announces, and that is an
\* interval: the load that got hold of the entry saw the end up to date.
Covered ==
  \A t \in Threads : \A x \in held[t] :
    /\ birthTS[x] <= endTS_ann[t]
    /\ local_epoch[t] <= endTS_ann[t]
    /\ where[x] \in {"deferred", "collecting", "ejecting"} => local_epoch[t] <= retireTS[x]

\* A collector keeps an interval for every entry of its list that one of the
\* threads it has passed still holds; at the thread it is reading, the start
\* that it has read is still good.
CollectedBy(c) ==
  /\ phase[c] # "scan" => at[c] = 1 /\ startTS[c] = no_epoch /\ announced[c] = {}
  /\ startTS[c] # no_epoch => at[c] <= N
  /\ \A t \in Threads : \A x \in held[t] \cap Mine(c, "collecting") :
       /\ t < at[c] => Reserved(c, x)
       /\ t = at[c] /\ startTS[c] # no_epoch =>
            startTS[c] <= retireTS[x] /\ startTS[c] <= endTS_ann[t]

Collected == \A c \in Threads : CollectedBy(c)

IntervalIInv == Types /\ Announcing /\ Born /\ Covered /\ Collected /\ Spared

\* Constants of work_toward_ejects and work_toward_advancing_epoch.
LEMMA Constants ==
  /\ threshold \in Nat \ {0} /\ epoch_frequency * N \in Nat
  /\ no_epoch = MaxEpoch + 1 /\ MaxEpoch \in Nat /\ N \in Nat
  /\ 1 \in Threads
BY EpochAssumption DEF threshold, no_epoch, Threads

\* The initial state satisfies the inductive invariant.
LEMMA IntervalInitInv == IntervalInit => IntervalIInv
<1> SUFFICES ASSUME IntervalInit PROVE IntervalIInv
  BY Zenon
<1>1. Types
  BY Constants DEF IntervalInit, Init, Types, Places, INVALID_TS, Threads
<1>2. Announcing /\ Born /\ Covered /\ Spared
  BY Constants DEF IntervalInit, Init, Announcing, Born, Covered, Spared, INVALID_TS
<1>3. Collected
  BY Constants, Zenon DEF IntervalInit, Init, Collected, CollectedBy
<1> QED BY <1>1, <1>2, <1>3, Zenon DEF IntervalIInv

\* Every step of the manager and its readers preserves the types.
LEMMA NextTypes == IntervalIInv /\ [IntervalNext]_all_vars => Types'
<1> SUFFICES ASSUME Types, Announcing, Collected, [IntervalNext]_all_vars PROVE Types'
  BY Zenon DEF IntervalIInv
<1> USE Constants DEF Types, Places, CanCall, Move, epoch_vars, entry_vars, collect_vars,
        interval_vars
<1>1. ASSUME NEW t \in Threads, Section(t)
      PROVE  Types'
  <2>1. CASE BeginLoad(t)
    BY <1>1, <2>1, Zenon DEF Section, BeginLoad
  <2>2. CASE BeginAnnounce(t)
    BY <1>1, <2>2 DEF Section, BeginAnnounce
  <2>3. CASE BeginNested(t)
    BY <1>1, <2>3 DEF Section, BeginNested
  <2>4. CASE EndNested(t)
    BY <1>1, <2>4 DEF Section, EndNested
  <2>5. CASE EndCriticalSection(t)
    BY <1>1, <2>5 DEF Section, EndCriticalSection
  <2> QED BY <1>1, <2>1, <2>2, <2>3, <2>4, <2>5, Zenon DEF Section
<1>2. ASSUME NEW t \in Threads, ExtendLoad(t) \/ ExtendAnnounce(t)
      PROVE  Types'
  <2>1. CASE ExtendLoad(t)
    BY <2>1, Zenon DEF ExtendLoad
  <2>2. CASE ExtendAnnounce(t)
    BY <2>2 DEF ExtendAnnounce
  <2> QED BY <1>2, <2>1, <2>2, Zenon
<1>3. ASSUME NEW t \in Threads,
             ScanStart(t) \/ ScanEnd(t) \/ IntervalScanDone(t) \/ IntervalFinish(t)
      PROVE  Types'
  <2>0. at[t] <= N => at[t] \in Threads /\ at[t] + 1 \in 1..(N + 1)
    <3>1. at[t] \in 1..(N + 1)
      BY Zenon
    <3> HIDE DEF Types
    <3> QED BY <3>1 DEF Threads
  <2>1. CASE ScanStart(t)
    <3>1. at'[t] \in 1..(N + 1) /\ startTS'[t] \in 0..no_epoch
      BY <2>0, <2>1, Zenon DEF ScanStart
    <3> QED BY <2>1, <3>1, Zenon DEF ScanStart
  <2>2. CASE ScanEnd(t)
    <3>1. at[t] \in Threads /\ at[t] + 1 \in 1..(N + 1)
      BY <2>0, <2>2, Zenon DEF ScanEnd, Collected, CollectedBy
    <3>2. startTS[t] <= endTS_ann[at[t]] => startTS[t] \in 0..MaxEpoch
      BY <3>1
    <3>3. /\ announced' \in [Threads -> SUBSET ((0..MaxEpoch) \X (0..MaxEpoch))]
          /\ \A u \in Threads : \A a \in announced'[u] : a[1] <= a[2]
      <4> DEFINE e == endTS_ann[at[t]]
                 new == IF startTS[t] <= e THEN announced[t] \cup {<<startTS[t], e>>}
                                           ELSE announced[t]
      <4>1. e \in 0..MaxEpoch
        BY <3>1, Zenon
      <4>2. new \in SUBSET ((0..MaxEpoch) \X (0..MaxEpoch)) /\ \A a \in new : a[1] <= a[2]
        BY <3>2, <4>1
      <4>3. announced' = [announced EXCEPT ![t] = new]
        BY <2>2, Zenon DEF ScanEnd
      <4> HIDE DEF new
      <4> QED BY <4>2, <4>3, Zenon
    <3> QED BY <2>2, <3>1, <3>3 DEF ScanEnd
  <2>3. CASE IntervalScanDone(t)
    <3>1. where' \in [Entries -> Places] /\ at' \in [Threads -> 1..(N + 1)]
      BY <2>3 DEF IntervalScanDone
    <3>2. announced' = [announced EXCEPT ![t] = {}]
      BY <2>3, Zenon DEF IntervalScanDone
    <3>3. phase' \in [Threads -> {"off", "scan", "eject"}]
      BY <2>3, Zenon DEF IntervalScanDone
    <3>4. /\ announced' \in [Threads -> SUBSET ((0..MaxEpoch) \X (0..MaxEpoch))]
          /\ \A u \in Threads : \A a \in announced'[u] : a[1] <= a[2]
      BY <3>2, Zenon
    <3> QED BY <2>3, <3>1, <3>3, <3>4, Zenon DEF IntervalScanDone
  <2>4. CASE IntervalFinish(t)
    <3>1. where' \in [Entries -> Places]
      BY <2>4, Zenon DEF IntervalFinish, Finish, TakeList
    <3>2. PICK n \in Nat : eject_work' = [eject_work EXCEPT ![t] = n]
      <4>1. eject_work[t] \in Nat /\ 0 \in Nat
        BY Zenon
      <4> HIDE DEF Types
      <4> QED BY <2>4, <4>1, Zenon DEF IntervalFinish, Finish, StartCollecting
    <3>3. eject_work' \in [Threads -> Nat]
      BY <3>2, Zenon
    <3>4. at' = at /\ phase' \in [Threads -> {"off", "scan", "eject"}]
      BY <2>4, Zenon DEF IntervalFinish, Finish, StartCollecting
    <3> QED BY <2>4, <3>1, <3>3, <3>4, Zenon DEF IntervalFinish, Finish
  <2> QED BY <1>3, <2>1, <2>2, <2>3, <2>4, Zenon
<1>4. ASSUME NEW t \in Threads, NEW x \in Entries,
             \/ CreateStamped(t, x) \/ Protect(t, x) \/ IntervalUnlink(t, x)
             \/ IntervalRetire(t, x) \/ IntervalEject(t, x)
      PROVE  Types'
  <2>1. CASE CreateStamped(t, x)
    <3>1. global_epoch' \in 0..MaxEpoch
      BY <2>1 DEF CreateStamped, Create
    <3>2. birthTS' \in [Entries -> 0..MaxEpoch]
      BY <2>1, <3>1 DEF CreateStamped
    <3>3. epoch_work' \in [Threads -> Nat]
      BY <2>1 DEF CreateStamped, Create
    <3> QED BY <2>1, <3>1, <3>2, <3>3, Zenon DEF CreateStamped, Create
  <2>2. CASE Protect(t, x)
    BY <2>2, Zenon DEF Protect, Acquire
  <2>3. CASE IntervalUnlink(t, x)
    BY <2>3, Zenon DEF IntervalUnlink, Unlink
  <2>4. CASE IntervalRetire(t, x)
    <3>1. where' \in [Entries -> Places]
      BY <2>4, Zenon DEF IntervalRetire, Retire, TakeList
    <3>2. eject_work' \in [Threads -> Nat]
      BY <2>4 DEF IntervalRetire, Retire, StartCollecting
    <3>3. /\ retireTS' \in [Entries -> 0..MaxEpoch]
          /\ phase' \in [Threads -> {"off", "scan", "eject"}]
      BY <2>4, Zenon DEF IntervalRetire, Retire, StartCollecting
    <3> QED BY <2>4, <3>1, <3>2, <3>3, Zenon DEF IntervalRetire, Retire, StartCollecting
  <2>5. CASE IntervalEject(t, x)
    <3>1. birthTS' \in [Entries -> 0..MaxEpoch] /\ retireTS' \in [Entries -> 0..MaxEpoch]
      BY <2>5 DEF IntervalEject, Eject
    <3> QED BY <2>5, <3>1, Zenon DEF IntervalEject, Eject
  <2> QED BY <1>4, <2>1, <2>2, <2>3, <2>4, <2>5, Zenon
<1>5. CASE UNCHANGED all_vars
  BY <1>5, Zenon DEF all_vars, vars
<1> QED BY <1>1, <1>2, <1>3, <1>4, <1>5, Zenon DEF IntervalNext

\* Announcements stay in the past, and threads let go when they leave.
LEMMA NextAnnouncing == IntervalIInv /\ [IntervalNext]_all_vars => Announcing'
<1> SUFFICES ASSUME Types, Announcing, [IntervalNext]_all_vars PROVE Announcing'
  BY Zenon DEF IntervalIInv
<1> USE Constants DEF Types, Announcing, CanCall, epoch_vars, entry_vars, collect_vars,
        interval_vars
<1>1. ASSUME NEW t \in Threads, Section(t)
      PROVE  Announcing'
  <2>1. CASE BeginLoad(t)
    BY <1>1, <2>1 DEF Section, BeginLoad
  <2>2. CASE BeginAnnounce(t)
    BY <1>1, <2>2, Zenon DEF Section, BeginAnnounce
  <2>3. CASE BeginNested(t)
    BY <1>1, <2>3 DEF Section, BeginNested
  <2>4. CASE EndNested(t)
    BY <1>1, <2>4 DEF Section, EndNested
  <2>5. CASE EndCriticalSection(t)
    BY <1>1, <2>5 DEF Section, EndCriticalSection
  <2> QED BY <1>1, <2>1, <2>2, <2>3, <2>4, <2>5, Zenon DEF Section
<1>2. ASSUME NEW t \in Threads, ExtendLoad(t) \/ ExtendAnnounce(t)
      PROVE  Announcing'
  <2>1. CASE ExtendLoad(t)
    BY <2>1 DEF ExtendLoad
  <2>2. CASE ExtendAnnounce(t)
    BY <2>2, Zenon DEF ExtendAnnounce
  <2> QED BY <1>2, <2>1, <2>2, Zenon
<1>3. ASSUME NEW t \in Threads,
             ScanStart(t) \/ ScanEnd(t) \/ IntervalScanDone(t) \/ IntervalFinish(t)
      PROVE  Announcing'
  BY <1>3, Zenon DEF ScanStart, ScanEnd, IntervalScanDone, IntervalFinish, Finish
<1>4. ASSUME NEW t \in Threads, NEW x \in Entries,
             \/ CreateStamped(t, x) \/ Protect(t, x) \/ IntervalUnlink(t, x)
             \/ IntervalRetire(t, x) \/ IntervalEject(t, x)
      PROVE  Announcing'
  <2>1. CASE CreateStamped(t, x)
    BY <2>1 DEF CreateStamped, Create
  <2>2. CASE Protect(t, x)
    BY <2>2 DEF Protect, Acquire
  <2>3. CASE IntervalUnlink(t, x)
    BY <2>3, Zenon DEF IntervalUnlink, Unlink
  <2>4. CASE IntervalRetire(t, x)
    BY <2>4, Zenon DEF IntervalRetire, Retire
  <2>5. CASE IntervalEject(t, x)
    BY <2>5, Zenon DEF IntervalEject, Eject
  <2> QED BY <1>4, <2>1, <2>2, <2>3, <2>4, <2>5, Zenon
<1>5. CASE UNCHANGED all_vars
  BY <1>5, Zenon DEF all_vars, vars
<1> QED BY <1>1, <1>2, <1>3, <1>4, <1>5, Zenon DEF IntervalNext

\* An object keeps its birth epoch while a pointer or a list refers to it.
LEMMA NextBorn == IntervalIInv /\ [IntervalNext]_all_vars => Born'
<1> SUFFICES ASSUME Types, Born, [IntervalNext]_all_vars PROVE Born'
  BY Zenon DEF IntervalIInv
<1> USE Constants DEF Types, Born, CanCall, Move, epoch_vars, entry_vars, collect_vars,
        interval_vars
<1>1. ASSUME NEW t \in Threads, Section(t)
      PROVE  Born'
  BY <1>1 DEF Section, BeginLoad, BeginAnnounce, BeginNested, EndNested, EndCriticalSection
<1>2. ASSUME NEW t \in Threads, ExtendLoad(t) \/ ExtendAnnounce(t)
      PROVE  Born'
  BY <1>2 DEF ExtendLoad, ExtendAnnounce
<1>3. ASSUME NEW t \in Threads,
             ScanStart(t) \/ ScanEnd(t) \/ IntervalScanDone(t) \/ IntervalFinish(t)
      PROVE  Born'
  BY <1>3, Zenon DEF ScanStart, ScanEnd, IntervalScanDone, IntervalFinish, Finish, TakeList, Mine
<1>4. ASSUME NEW t \in Threads, NEW x \in Entries,
             \/ CreateStamped(t, x) \/ Protect(t, x) \/ IntervalUnlink(t, x)
             \/ IntervalRetire(t, x) \/ IntervalEject(t, x)
      PROVE  Born'
  <2>1. CASE CreateStamped(t, x)
    BY <2>1 DEF CreateStamped, Create
  <2>2. CASE Protect(t, x) \/ IntervalUnlink(t, x)
    BY <2>2 DEF Protect, Acquire, IntervalUnlink, Unlink
  <2>3. CASE IntervalRetire(t, x)
    <3>1. UNCHANGED <<global_epoch, birthTS>>
      BY <2>3, Zenon DEF IntervalRetire, Retire
    <3>2. \A y \in Entries : where'[y] # "free" => where[y] # "free"
      BY <2>3, Zenon DEF IntervalRetire, Retire, TakeList, Mine
    <3> QED BY <3>1, <3>2, Zenon
  <2>4. CASE IntervalEject(t, x)
    BY <2>4, Zenon DEF IntervalEject, Eject
  <2> QED BY <1>4, <2>1, <2>2, <2>3, <2>4, Zenon
<1>5. CASE UNCHANGED all_vars
  BY <1>5, Zenon DEF all_vars, vars
<1> QED BY <1>1, <1>2, <1>3, <1>4, <1>5, Zenon DEF IntervalNext

\* The interval that a thread announces covers what it holds.  A load takes
\* hold only when the announced end is the global epoch, an extension moves the
\* end forward, and a retire stamps with the global epoch.
LEMMA NextCovered == IntervalIInv /\ [IntervalNext]_all_vars => Covered'
<1> SUFFICES ASSUME Types, Announcing, Born, Covered, Spared, [IntervalNext]_all_vars
             PROVE  Covered'
  BY Zenon DEF IntervalIInv
<1> USE Constants DEF Types, Covered, CanCall, Move, epoch_vars, entry_vars, collect_vars,
        interval_vars
<1>1. ASSUME NEW t \in Threads, Section(t)
      PROVE  Covered'
  <2>1. CASE BeginAnnounce(t)
    <3>1. held[t] = {}
      BY <2>1, Zenon DEF BeginAnnounce, Announcing
    <3> QED BY <1>1, <2>1, <3>1, Zenon DEF Section, BeginAnnounce
  <2>2. CASE BeginLoad(t) \/ BeginNested(t) \/ EndNested(t)
    BY <1>1, <2>2, Zenon DEF Section, BeginLoad, BeginNested, EndNested
  <2>3. CASE EndCriticalSection(t)
    BY <1>1, <2>3, Zenon DEF Section, EndCriticalSection
  <2> QED BY <1>1, <2>1, <2>2, <2>3, Zenon DEF Section
<1>2. ASSUME NEW t \in Threads, ExtendLoad(t) \/ ExtendAnnounce(t)
      PROVE  Covered'
  <2>1. CASE ExtendLoad(t)
    BY <2>1, Zenon DEF ExtendLoad
  <2>2. CASE ExtendAnnounce(t)
    <3>1. endTS_ann[t] <= current[t]
      BY <2>2, Zenon DEF ExtendAnnounce, Announcing
    <3> QED BY <2>2, <3>1 DEF ExtendAnnounce
  <2> QED BY <1>2, <2>1, <2>2, Zenon
<1>3. ASSUME NEW t \in Threads,
             ScanStart(t) \/ ScanEnd(t) \/ IntervalScanDone(t) \/ IntervalFinish(t)
      PROVE  Covered'
  <2>1. CASE ScanStart(t) \/ ScanEnd(t)
    BY <2>1, Zenon DEF ScanStart, ScanEnd
  <2>2. CASE IntervalScanDone(t)
    BY <2>2, Zenon DEF IntervalScanDone, Mine
  <2>3. CASE IntervalFinish(t)
    BY <2>3 DEF IntervalFinish, Finish, TakeList, Mine
  <2> QED BY <1>3, <2>1, <2>2, <2>3, Zenon
<1>4. ASSUME NEW t \in Threads, NEW x \in Entries,
             \/ CreateStamped(t, x) \/ Protect(t, x) \/ IntervalUnlink(t, x)
             \/ IntervalRetire(t, x) \/ IntervalEject(t, x)
      PROVE  Covered'
  <2>1. CASE CreateStamped(t, x)
    <3>1. \A r \in Threads : x \notin held[r]
      BY <2>1, Zenon DEF CreateStamped, Create, Spared
    <3> QED BY <2>1, <3>1 DEF CreateStamped, Create
  <2>2. CASE Protect(t, x)
    <3>1. birthTS[x] <= endTS_ann[t] /\ local_epoch[t] <= endTS_ann[t]
      BY <2>2, Zenon DEF Protect, Acquire, Announcing, Born
    <3> QED BY <2>2, <3>1, Zenon DEF Protect, Acquire
  <2>3. CASE IntervalUnlink(t, x)
    BY <2>3, Zenon DEF IntervalUnlink, Unlink
  <2>4. CASE IntervalRetire(t, x)
    <3>1. \A r \in Threads : held[r] # {} => local_epoch[r] <= global_epoch
      BY DEF Announcing
    <3>2. /\ UNCHANGED <<held, local_epoch, endTS_ann, birthTS>>
          /\ retireTS'[x] = global_epoch
      BY <2>4, Zenon DEF IntervalRetire, Retire
    <3>3. \A y \in Entries \ {x} :
            /\ retireTS'[y] = retireTS[y]
            /\ where'[y] \in {"deferred", "collecting", "ejecting"} =>
                 where[y] \in {"deferred", "collecting", "ejecting"}
      BY <2>4, Zenon DEF IntervalRetire, Retire, TakeList, Mine
    <3> QED BY <3>1, <3>2, <3>3, Zenon
  <2>5. CASE IntervalEject(t, x)
    <3>1. \A r \in Threads : x \notin held[r]
      BY <2>5, Zenon DEF IntervalEject, Eject, Mine, Spared
    <3> QED BY <2>5, <3>1 DEF IntervalEject, Eject
  <2> QED BY <1>4, <2>1, <2>2, <2>3, <2>4, <2>5, Zenon
<1>5. CASE UNCHANGED all_vars
  BY <1>5, Zenon DEF all_vars, vars
<1> QED BY <1>1, <1>2, <1>3, <1>4, <1>5, Zenon DEF IntervalNext

\* What the collector c has read stays good in a step that leaves its scan
\* alone: a thread can only come to hold fewer entries of a list, and the end
\* that it announces only moves forward.
Steady(c) ==
  /\ phase'[c] # "scan" => phase[c] # "scan"
  /\ at'[c] = at[c] /\ startTS'[c] = startTS[c] /\ announced'[c] = announced[c]
  /\ \A t \in Threads : \A x \in held'[t] :
       where'[x] = "collecting" /\ owner'[x] = c =>
         /\ x \in held[t] /\ where[x] = "collecting" /\ owner[x] = c
         /\ retireTS'[x] = retireTS[x] /\ birthTS'[x] = birthTS[x]
         /\ endTS_ann[t] <= endTS_ann'[t]

\* A steady step preserves what a collector has read.
LEMMA SteadyCollected ==
  ASSUME Types, Types', NEW c \in Threads, CollectedBy(c), Steady(c)
  PROVE  CollectedBy(c)'
<1> USE DEF Types, CollectedBy, Steady, Mine
<1>1. ASSUME NEW t \in Threads, NEW x \in held'[t], where'[x] = "collecting", owner'[x] = c
      PROVE  /\ t < at'[c] => Reserved(c, x)'
             /\ t = at'[c] /\ startTS'[c] # no_epoch =>
                  startTS'[c] <= retireTS'[x] /\ startTS'[c] <= endTS_ann'[t]
  <2>1. x \in held[t] \cap Mine(c, "collecting") /\ endTS_ann[t] <= endTS_ann'[t]
    BY <1>1
  <2>2. t < at'[c] => Reserved(c, x)'
    BY <1>1, <2>1, Zenon DEF Reserved
  <2>3. /\ startTS[c] \in 0..no_epoch /\ endTS_ann[t] \in 0..MaxEpoch
        /\ endTS_ann'[t] \in 0..MaxEpoch
    BY Zenon
  <2> QED BY <1>1, <2>1, <2>2, <2>3, Constants
<1>2. CASE phase'[c] # "scan"
  BY <1>1, <1>2, Zenon
<1> QED BY <1>1, <1>2, Zenon

\* What a collector has read stays good, and each step of its scan extends it.
LEMMA NextCollected == IntervalIInv /\ [IntervalNext]_all_vars => Collected'
<1> SUFFICES ASSUME Types, Types', Announcing, Covered, Collected, Spared,
                    [IntervalNext]_all_vars
             PROVE  Collected'
  BY NextTypes, Zenon DEF IntervalIInv
<1>a. \A c \in Threads : CollectedBy(c)
  BY Zenon DEF Collected
<1>b. SUFFICES ASSUME NEW c \in Threads PROVE CollectedBy(c)'
  BY Zenon DEF Collected
<1>c. SUFFICES Steady(c) \/ CollectedBy(c)'
  BY <1>a, SteadyCollected, Zenon
<1> USE Constants DEF Types, CanCall, Move, Mine, epoch_vars, entry_vars, collect_vars,
        interval_vars
<1>1. ASSUME NEW t \in Threads, Section(t)
      PROVE  Steady(c)
  <2>1. CASE BeginLoad(t) \/ BeginAnnounce(t) \/ BeginNested(t) \/ EndNested(t)
    BY <1>1, <2>1 DEF Steady, Section, BeginLoad, BeginAnnounce, BeginNested, EndNested
  <2>2. CASE EndCriticalSection(t)
    BY <1>1, <2>2 DEF Steady, Section, EndCriticalSection
  <2> QED BY <1>1, <2>1, <2>2, Zenon DEF Section
<1>2. ASSUME NEW t \in Threads, ExtendLoad(t) \/ ExtendAnnounce(t)
      PROVE  Steady(c)
  <2>1. CASE ExtendLoad(t)
    BY <2>1 DEF Steady, ExtendLoad
  <2>2. CASE ExtendAnnounce(t)
    BY <2>2 DEF Steady, ExtendAnnounce, Announcing
  <2> QED BY <1>2, <2>1, <2>2, Zenon
<1>3. ASSUME NEW t \in Threads,
             ScanStart(t) \/ ScanEnd(t) \/ IntervalScanDone(t) \/ IntervalFinish(t),
             t # c
      PROVE  Steady(c)
  <2>1. CASE ScanStart(t)
    BY <1>3, <2>1 DEF Steady, ScanStart
  <2>2. CASE ScanEnd(t)
    BY <1>3, <2>2 DEF Steady, ScanEnd
  <2>3. CASE IntervalScanDone(t)
    BY <1>3, <2>3 DEF Steady, IntervalScanDone
  <2>4. CASE IntervalFinish(t)
    BY <1>3, <2>4 DEF Steady, IntervalFinish, Finish, StartCollecting, TakeList
  <2> QED BY <1>3, <2>1, <2>2, <2>3, <2>4, Zenon
<1>4. CASE ScanStart(c)
  <2> DEFINE r == at[c]
  <2>1. r \in Threads
    <3>1. at[c] \in 1..(N + 1) /\ at[c] <= N
      BY <1>4, Zenon DEF ScanStart
    <3> HIDE DEF Types
    <3> QED BY <3>1 DEF Threads
  <2>2. UNCHANGED <<held, where, owner, retireTS, birthTS, endTS_ann, phase, announced>>
    BY <1>4, Zenon DEF ScanStart
  <2>3. startTS'[c] = local_epoch[r] /\ phase[c] = "scan"
    BY <1>4 DEF ScanStart
  <2>4. \A x \in held[r] \cap Mine(c, "collecting") :
          /\ local_epoch[r] <= retireTS[x] /\ local_epoch[r] <= endTS_ann[r]
          /\ local_epoch[r] # no_epoch
    BY <2>1 DEF Covered
  <2>5. CASE local_epoch[r] = no_epoch
    <3>1. at'[c] = r + 1
      BY <1>4, <2>5, Zenon DEF ScanStart
    <3>2. ASSUME NEW u \in Threads, NEW x \in held[u] \cap Mine(c, "collecting"), u < r + 1
          PROVE  Reserved(c, x)'
      <4>1. u # r
        BY <2>4, <2>5, <3>2, Zenon
      <4>2. u < r
        <5> HIDE DEF Types
        <5> QED BY <2>1, <3>2, <4>1 DEF Threads
      <4> QED BY <1>a, <2>2, <3>2, <4>2, Zenon DEF CollectedBy, Reserved
    <3> QED BY <2>2, <2>3, <2>5, <3>1, <3>2 DEF CollectedBy
  <2>6. CASE local_epoch[r] # no_epoch
    <3>1. at'[c] = r /\ r <= N
      BY <1>4, <2>6, Zenon DEF ScanStart
    <3>2. ASSUME NEW u \in Threads, NEW x \in held[u] \cap Mine(c, "collecting")
          PROVE  /\ u < r => Reserved(c, x)'
                 /\ u = r => startTS'[c] <= retireTS[x] /\ startTS'[c] <= endTS_ann[u]
      BY <1>a, <2>2, <2>3, <2>4, <3>2, Zenon DEF CollectedBy, Reserved
    <3> QED BY <2>2, <2>3, <2>6, <3>1, <3>2 DEF CollectedBy
  <2> QED BY <2>5, <2>6, Zenon
<1>5. CASE ScanEnd(c)
  <2> DEFINE r == at[c]
  <2>1. r \in Threads /\ startTS[c] # no_epoch
    <3>1. at[c] \in 1..(N + 1) /\ at[c] <= N /\ startTS[c] # no_epoch
      BY <1>5, <1>a, Zenon DEF ScanEnd, CollectedBy
    <3> HIDE DEF Types
    <3> QED BY <3>1 DEF Threads
  <2>2. UNCHANGED <<held, where, owner, retireTS, birthTS, endTS_ann, phase>>
    BY <1>5, Zenon DEF ScanEnd
  <2>3. startTS'[c] = no_epoch /\ phase[c] = "scan" /\ at'[c] = r + 1
    BY <1>5 DEF ScanEnd
  <2>4. /\ announced[c] \subseteq announced'[c]
        /\ startTS[c] <= endTS_ann[r] => <<startTS[c], endTS_ann[r]>> \in announced'[c]
    BY <1>5 DEF ScanEnd
  <2>5. ASSUME NEW u \in Threads, NEW x \in held[u] \cap Mine(c, "collecting"), u < r + 1
        PROVE  Reserved(c, x)'
    <3>1. CASE u = r
      <4>1. startTS[c] <= retireTS[x] /\ startTS[c] <= endTS_ann[r]
        BY <1>a, <2>1, <2>5, <3>1, Zenon DEF CollectedBy
      <4>2. birthTS[x] <= endTS_ann[r]
        BY <2>1, <2>5, <3>1, Zenon DEF Covered
      <4>3. x \in Entries /\ startTS[c] \in Int /\ retireTS[x] \in Int /\ birthTS[x] \in Int
              /\ endTS_ann[r] \in Int
        BY <2>1
      <4> HIDE DEF Types, r
      <4> QED BY <2>2, <2>4, <4>1, <4>2, <4>3 DEF Reserved
    <3>2. CASE u # r
      <4>1. u < r
        <5> HIDE DEF Types
        <5> QED BY <2>1, <2>5, <3>2 DEF Threads
      <4> QED BY <1>a, <2>2, <2>4, <2>5, <4>1, Zenon DEF CollectedBy, Reserved
    <3> QED BY <3>1, <3>2, Zenon
  <2> QED BY <2>2, <2>3, <2>5 DEF CollectedBy
<1>6. CASE IntervalScanDone(c)
  <2>1. \A x \in Entries : ~(where'[x] = "collecting" /\ owner'[x] = c)
    BY <1>6, Zenon DEF IntervalScanDone
  <2>2. at'[c] = 1 /\ announced'[c] = {} /\ startTS'[c] = startTS[c]
    BY <1>6 DEF IntervalScanDone
  <2>3. startTS[c] = no_epoch
    BY <1>6, <1>a DEF IntervalScanDone, CollectedBy
  <2> QED BY <2>1, <2>2, <2>3, Zenon DEF CollectedBy
<1>7. CASE IntervalFinish(c)
  <2>1. at[c] = 1 /\ startTS[c] = no_epoch /\ announced[c] = {}
    BY <1>7, <1>a, Zenon DEF IntervalFinish, Finish, CollectedBy
  <2>2. at' = at /\ startTS' = startTS /\ announced' = announced
    BY <1>7, Zenon DEF IntervalFinish, Finish, StartCollecting
  <2>3. \A u \in Threads : ~(u < 1)
    <3> HIDE DEF Types
    <3> QED BY DEF Threads
  <2> QED BY <2>1, <2>2, <2>3, Zenon DEF CollectedBy
<1>8. ASSUME NEW t \in Threads, NEW x \in Entries,
             CreateStamped(t, x) \/ Protect(t, x) \/ IntervalUnlink(t, x) \/ IntervalEject(t, x)
      PROVE  Steady(c)
  <2>1. CASE CreateStamped(t, x)
    BY <2>1 DEF Steady, CreateStamped, Create
  <2>2. CASE Protect(t, x)
    BY <2>2 DEF Steady, Protect, Acquire
  <2>3. CASE IntervalUnlink(t, x)
    BY <2>3 DEF Steady, IntervalUnlink, Unlink
  <2>4. CASE IntervalEject(t, x)
    BY <2>4 DEF Steady, IntervalEject, Eject
  <2> QED BY <1>8, <2>1, <2>2, <2>3, <2>4, Zenon
<1>9. ASSUME NEW t \in Threads, NEW x \in Entries, IntervalRetire(t, x)
      PROVE  Steady(c) \/ CollectedBy(c)'
  <2>1. UNCHANGED <<held, owner, at, startTS, announced, birthTS, endTS_ann>>
    BY <1>9, Zenon DEF IntervalRetire, Retire, StartCollecting
  <2>2. owner[x] = t /\ where[x] = "retiring"
    BY <1>9, Zenon DEF IntervalRetire, Retire
  <2>3. \A y \in Entries \ {x} : retireTS'[y] = retireTS[y]
    BY <1>9 DEF IntervalRetire, Retire
  <2>4. phase'[c] # "scan" => phase[c] # "scan"
    BY <1>9 DEF IntervalRetire, Retire, StartCollecting
  <2>5. CASE t = c /\ phase[c] = "off"
    <3>1. at[c] = 1 /\ startTS[c] = no_epoch /\ announced[c] = {}
      BY <1>a, <2>5, Zenon DEF CollectedBy
    <3>2. \A u \in Threads : ~(u < 1)
      <4> HIDE DEF Types
      <4> QED BY DEF Threads
    <3> QED BY <2>1, <3>1, <3>2, Zenon DEF CollectedBy
  <2>6. CASE ~(t = c /\ phase[c] = "off")
    <3>1. \A y \in Entries : where'[y] = "collecting" /\ owner[y] = c =>
                               where[y] = "collecting" /\ y # x
      BY <1>9, <2>2, <2>6 DEF IntervalRetire, Retire, TakeList
    <3>2. Steady(c)
      BY <2>1, <2>3, <2>4, <3>1 DEF Steady
    <3> QED BY <3>2, Zenon
  <2> QED BY <2>5, <2>6, Zenon
<1>10. CASE UNCHANGED all_vars
  BY <1>10 DEF Steady, all_vars, vars
<1> QED BY <1>1, <1>2, <1>3, <1>4, <1>5, <1>6, <1>7, <1>8, <1>9, <1>10, Zenon DEF IntervalNext

\* A collection ejects only what nobody holds: at the end of a scan there is an
\* interval for every held entry of the list.
LEMMA IntervalNextSpared == IntervalIInv /\ [IntervalNext]_all_vars => Spared'
<1> SUFFICES ASSUME Types, Collected, Spared, [IntervalNext]_all_vars
             PROVE  Spared'
  BY Zenon DEF IntervalIInv
<1> USE Constants DEF Types, Spared, CanCall, Move, Mine, epoch_vars, entry_vars, collect_vars,
        interval_vars
<1>1. ASSUME NEW t \in Threads, Section(t)
      PROVE  Spared'
  <2>1. CASE BeginLoad(t) \/ BeginAnnounce(t) \/ BeginNested(t) \/ EndNested(t)
    BY <2>1, Zenon DEF BeginLoad, BeginAnnounce, BeginNested, EndNested
  <2>2. CASE EndCriticalSection(t)
    BY <2>2, Zenon DEF EndCriticalSection
  <2> QED BY <1>1, <2>1, <2>2, Zenon DEF Section
<1>2. ASSUME NEW t \in Threads, ExtendLoad(t) \/ ExtendAnnounce(t) \/ ScanStart(t) \/ ScanEnd(t)
      PROVE  Spared'
  BY <1>2, Zenon DEF ExtendLoad, ExtendAnnounce, ScanStart, ScanEnd
<1>3. ASSUME NEW t \in Threads, IntervalScanDone(t)
      PROVE  Spared'
  <2>1. \A r \in Threads : r < at[t]
    <3>1. at[t] \in 1..(N + 1) /\ at[t] > N
      BY <1>3, Zenon DEF IntervalScanDone
    <3> HIDE DEF Types
    <3> QED BY <3>1 DEF Threads
  <2>2. \A r \in Threads : \A x \in held[r] \cap Mine(t, "collecting") : Reserved(t, x)
    BY <2>1, Zenon DEF Collected, CollectedBy
  <2> QED BY <1>3, <2>2, Zenon DEF IntervalScanDone
<1>4. ASSUME NEW t \in Threads, IntervalFinish(t)
      PROVE  Spared'
  BY <1>4 DEF IntervalFinish, Finish, TakeList
<1>5. ASSUME NEW t \in Threads, NEW x \in Entries,
             \/ CreateStamped(t, x) \/ Protect(t, x) \/ IntervalUnlink(t, x)
             \/ IntervalRetire(t, x) \/ IntervalEject(t, x)
      PROVE  Spared'
  <2>1. CASE CreateStamped(t, x)
    BY <2>1, Zenon DEF CreateStamped, Create
  <2>2. CASE Protect(t, x)
    BY <2>2, Zenon DEF Protect, Acquire
  <2>3. CASE IntervalUnlink(t, x)
    BY <2>3, Zenon DEF IntervalUnlink, Unlink
  <2>4. CASE IntervalRetire(t, x)
    BY <2>4 DEF IntervalRetire, Retire, TakeList
  <2>5. CASE IntervalEject(t, x)
    BY <2>5, Zenon DEF IntervalEject, Eject
  <2> QED BY <1>5, <2>1, <2>2, <2>3, <2>4, <2>5, Zenon
<1>6. CASE UNCHANGED all_vars
  BY <1>6, Zenon DEF all_vars, vars
<1> QED BY <1>1, <1>2, <1>3, <1>4, <1>5, <1>6, Zenon DEF IntervalNext

\* The inductive invariant holds of every behaviour of the interval manager.
THEOREM IntervalInductive == IntervalSpec => []IntervalIInv
<1>1. IntervalIInv /\ [IntervalNext]_all_vars => IntervalIInv'
  BY NextTypes, NextAnnouncing, NextBorn, NextCovered, NextCollected, IntervalNextSpared,
     Zenon DEF IntervalIInv
<1> QED BY IntervalInitInv, <1>1, PTL DEF IntervalSpec

\* The variables of the interval manager keep their types, and what a scan
\* collects are intervals.
THEOREM IntervalTypeCorrect == IntervalSpec => []IntervalTypeOK
<1>1. IntervalIInv => IntervalTypeOK
  <2> SUFFICES ASSUME Types PROVE IntervalTypeOK
    BY Zenon DEF IntervalIInv
  <2>1. ASSUME NEW t \in Threads, NEW a \in announced[t]
        PROVE  a[1] \in 0..a[2] /\ a[2] \in 0..MaxEpoch
    BY Constants DEF Types
  <2> QED BY <2>1, Zenon DEF Types, IntervalTypeOK
<1> QED BY IntervalInductive, <1>1, PTL

\* The interval that a reader announces covers everything that it loaded.
THEOREM IntervalsCover == IntervalSpec => []IntervalCoversHeld
<1>1. IntervalIInv => IntervalCoversHeld
  BY Zenon DEF IntervalIInv, Covered, IntervalCoversHeld
<1> QED BY IntervalInductive, <1>1, PTL

\* No entry is ejected while a reader that loaded it is in its critical section.
THEOREM IntervalReadersAreSafe == IntervalSpec => []HeldIsNotEjected
<1>1. IntervalIInv => HeldIsNotEjected
  BY Zenon DEF IntervalIInv, Spared, HeldIsNotEjected
<1> QED BY IntervalInductive, <1>1, PTL

\* The interval manager implements SafeReclamation, as the epoch manager does:
\* every step links, takes hold of, lets go of, unlinks or ejects a reference as
\* SafeReclamation allows, or changes none of what it talks about.
THEOREM IntervalsImplementReclamation == IntervalSpec => ImplementsReclamation
<1> DEFINE linkedBar == {x \in Entries : where[x] = "linked"}
           retiredBar == {x \in Entries :
                            where[x] \in {"retiring", "deferred", "collecting", "ejecting"}}
<1>1. IntervalInit => Reclamation!Init
  BY Zenon DEF IntervalInit, Init, Reclamation!Init
<1>2. IntervalIInv /\ [IntervalNext]_all_vars => [Reclamation!Next]_(Reclamation!vars)
  <2> SUFFICES ASSUME Types, Spared, [IntervalNext]_all_vars
               PROVE  Reclamation!Next \/ UNCHANGED <<linkedBar, retiredBar, held>>
    BY Zenon DEF IntervalIInv, Reclamation!vars
  <2> USE DEF Types, Move, Mine, epoch_vars, entry_vars, collect_vars
  <2>1. ASSUME NEW t \in Threads, Section(t)
        PROVE  Reclamation!LetGo(t) \/ UNCHANGED <<linkedBar, retiredBar, held>>
    <3>1. CASE BeginLoad(t) \/ BeginAnnounce(t) \/ BeginNested(t) \/ EndNested(t)
      BY <3>1, Zenon DEF BeginLoad, BeginAnnounce, BeginNested, EndNested
    <3>2. CASE EndCriticalSection(t)
      BY <3>2, Zenon DEF EndCriticalSection, Reclamation!LetGo
    <3> HIDE DEF linkedBar, retiredBar
    <3> QED BY <2>1, <3>1, <3>2, Zenon DEF Section
  <2>2. ASSUME NEW t \in Threads, ExtendLoad(t) \/ ExtendAnnounce(t) \/ ScanStart(t) \/ ScanEnd(t)
        PROVE  UNCHANGED <<linkedBar, retiredBar, held>>
    BY <2>2 DEF ExtendLoad, ExtendAnnounce, ScanStart, ScanEnd
  <2>3. ASSUME NEW t \in Threads, IntervalScanDone(t)
        PROVE  UNCHANGED <<linkedBar, retiredBar, held>>
    BY <2>3, Zenon DEF IntervalScanDone
  <2>4. ASSUME NEW t \in Threads, IntervalFinish(t)
        PROVE  UNCHANGED <<linkedBar, retiredBar, held>>
    BY <2>4 DEF IntervalFinish, Finish, TakeList
  <2>5. ASSUME NEW t \in Threads, NEW x \in Entries, CreateStamped(t, x)
        PROVE  Reclamation!Link(x)
    BY <2>5 DEF CreateStamped, Create, Reclamation!Link
  <2>6. ASSUME NEW t \in Threads, NEW x \in Entries, Protect(t, x)
        PROVE  Reclamation!Hold(t, x)
    BY <2>6, Zenon DEF Protect, Acquire, Reclamation!Hold
  <2>7. ASSUME NEW t \in Threads, NEW x \in Entries, IntervalUnlink(t, x)
        PROVE  Reclamation!Unlink(x)
    BY <2>7, Zenon DEF IntervalUnlink, Unlink, Reclamation!Unlink
  <2>8. ASSUME NEW t \in Threads, NEW x \in Entries, IntervalRetire(t, x)
        PROVE  UNCHANGED <<linkedBar, retiredBar, held>>
    BY <2>8 DEF IntervalRetire, Retire, TakeList
  <2>9. ASSUME NEW t \in Threads, NEW x \in Entries, IntervalEject(t, x)
        PROVE  Reclamation!Eject(x)
    BY <2>9, Zenon DEF IntervalEject, Eject, Spared, Reclamation!Eject
  <2>10. CASE UNCHANGED all_vars
    BY <2>10, Zenon DEF all_vars, vars
  <2> HIDE DEF linkedBar, retiredBar
  <2> QED BY <2>1, <2>2, <2>3, <2>4, <2>5, <2>6, <2>7, <2>8, <2>9, <2>10, Zenon
          DEF IntervalNext, Reclamation!Next
<1> QED BY IntervalInductive, <1>1, <1>2, PTL
        DEF IntervalSpec, ImplementsReclamation, Reclamation!Spec
=============================================================================
