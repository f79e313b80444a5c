---------------------------- MODULE StickyCounter ----------------------------
(***************************************************************************)
(* StickyCounter<T> of internal/utils.h: a wait-free counter on one atomic *)
(* word whose zero is permanent.  Every atomic instruction of increment,   *)
(* decrement and load is one step of the thread that runs it.  The two top *)
(* bits of the word are flags: a word is 0 .. 4*zero_pending_flag - 1.     *)
(*                                                                         *)
(* refs, claims and told_zero are history: the references that callers     *)
(* hold, how many decrements returned true, and whether some caller was    *)
(* told that the counter is zero since construction or the last reset.     *)
(***************************************************************************)
EXTENDS Integers

CONSTANTS
  Threads,
  zero_pending_flag,   \* 2^(w-2) for a w-bit word; 2^30 in counted_object
  Args,                \* the amounts callers add and subtract
  MaxFailed            \* bound: total amount added by increments that fail

ASSUME FlagAssumption == zero_pending_flag \in Nat \ {0, 1}
ASSUME ArgsAssumption == Args \subseteq Nat \ {0}
ASSUME MaxFailedAssumption == MaxFailed \in Nat

VARIABLES
  x,          \* the atomic word
  pc,         \* where each thread is in its operation
  refs,       \* history: references held by callers
  failed,     \* history: total amount added by failed increments
  claims,     \* history: decrements that returned true
  told_zero   \* history: a caller has been told "zero"

vars == <<x, pc, refs, failed, claims, told_zero>>

\* Mutant: T(1) << sizeof(T)*8, one bit too far.
ZeroFlagTooFar == 4 * zero_pending_flag

zero_flag == 2 * zero_pending_flag
Modulus == 4 * zero_pending_flag
max_value == zero_pending_flag - 1

Word(v) == v % Modulus

\* val & zero_flag
HasZero(val) == val >= zero_flag

\* val & zero_pending_flag
HasPending(val) ==
  \/ val >= zero_pending_flag /\ val < zero_flag
  \/ val >= zero_flag + zero_pending_flag

\* The word that the constructor and reset store.
InitialWord(desired) == IF desired = 0 THEN zero_flag ELSE desired

PCs == {"idle", "dec_cas", "dec_exchange", "load_cas"}

Goto(t, from, to) ==
  /\ pc[t] = from
  /\ pc' = [pc EXCEPT ![t] = to]

Init ==
  /\ \E desired \in 0..max_value :
       /\ x = InitialWord(desired)
       /\ refs = desired
       /\ claims = IF desired = 0 THEN 1 ELSE 0
  /\ pc = [t \in Threads |-> "idle"]
  /\ failed = 0
  /\ told_zero = FALSE

-----------------------------------------------------------------------------
\* increment(arg): the word is added to whether or not the counter is zero;
\* only the return value depends on the flag.
Increment(t, arg) ==
  /\ pc[t] = "idle"
  /\ x' = Word(x + arg)
  /\ \/ /\ ~HasZero(x)
        /\ refs + arg <= max_value
        /\ refs' = refs + arg
        /\ UNCHANGED <<failed, told_zero>>
     \/ /\ HasZero(x)
        /\ failed + arg <= MaxFailed
        /\ failed' = failed + arg
        /\ told_zero' = TRUE
        /\ UNCHANGED refs
  /\ UNCHANGED <<pc, claims>>

\* Mutant: fetch_sub(1) whatever the argument is.
DecrementByOne(t, arg) ==
  /\ arg <= refs
  /\ refs' = refs - arg
  /\ x' = Word(x - 1)
  /\ Goto(t, "idle", IF x = arg THEN "dec_cas" ELSE "idle")
  /\ UNCHANGED <<failed, claims, told_zero>>

\* decrement(arg), the fetch_sub.  The caller gives up references it holds.
Decrement(t, arg) ==
  /\ arg <= refs
  /\ refs' = refs - arg
  /\ x' = Word(x - arg)
  /\ Goto(t, "idle", IF x = arg THEN "dec_cas" ELSE "idle")
  /\ UNCHANGED <<failed, claims, told_zero>>

\* Mutant: a decrement that loses the CAS returns false even when a load has
\* already stuck the counter on its behalf.
DecrementCasNoHelp(t) ==
  /\ Goto(t, "dec_cas", "idle")
  /\ IF x = 0
     THEN x' = zero_flag /\ claims' = claims + 1 /\ told_zero' = TRUE
     ELSE UNCHANGED <<x, claims, told_zero>>
  /\ UNCHANGED <<refs, failed>>

\* Mutant: the zero is stored without comparing.
DecrementCasBlind(t) ==
  /\ Goto(t, "dec_cas", "idle")
  /\ x' = zero_flag /\ claims' = claims + 1 /\ told_zero' = TRUE
  /\ UNCHANGED <<refs, failed>>

\* decrement(arg), compare_exchange_strong(0, zero_flag).
DecrementCas(t) ==
  /\ \/ /\ x = 0
        /\ x' = zero_flag
        /\ claims' = claims + 1
        /\ told_zero' = TRUE
        /\ Goto(t, "dec_cas", "idle")
     \/ /\ x # 0
        /\ Goto(t, "dec_cas", IF HasPending(x) THEN "dec_exchange" ELSE "idle")
        /\ UNCHANGED <<x, claims, told_zero>>
  /\ UNCHANGED <<refs, failed>>

\* Mutant: the value that the exchange returns is not examined.
DecrementExchangeBlind(t) ==
  /\ Goto(t, "dec_exchange", "idle")
  /\ x' = zero_flag
  /\ claims' = claims + 1
  /\ told_zero' = TRUE
  /\ UNCHANGED <<refs, failed>>

\* Mutant: exchange(0) takes the zero flag away with the pending flag.
DecrementExchangeUnsticks(t) ==
  /\ Goto(t, "dec_exchange", "idle")
  /\ x' = 0
  /\ claims' = IF HasPending(x) THEN claims + 1 ELSE claims
  /\ told_zero' = (told_zero \/ HasPending(x))
  /\ UNCHANGED <<refs, failed>>

\* decrement(arg), exchange(zero_flag): of the decrements that see the
\* pending flag, the one whose exchange removes it returns true.
DecrementExchange(t) ==
  /\ Goto(t, "dec_exchange", "idle")
  /\ x' = zero_flag
  /\ claims' = IF HasPending(x) THEN claims + 1 ELSE claims
  /\ told_zero' = (told_zero \/ HasPending(x))
  /\ UNCHANGED <<refs, failed>>

\* load(), the atomic load; a nonzero word is the answer.
Load(t) ==
  /\ Goto(t, "idle", IF x = 0 THEN "load_cas" ELSE "idle")
  /\ told_zero' = (told_zero \/ HasZero(x))
  /\ UNCHANGED <<x, refs, failed, claims>>

\* Mutant: load reports a zero it has not made permanent.
LoadCasReadOnly(t) ==
  /\ Goto(t, "load_cas", "idle")
  /\ told_zero' = (told_zero \/ x = 0 \/ HasZero(x))
  /\ UNCHANGED <<x, refs, failed, claims>>

\* load(), compare_exchange_strong(0, zero_flag | zero_pending_flag): makes
\* permanent, on behalf of the decrement, a zero it is about to report.
LoadCas(t) ==
  /\ Goto(t, "load_cas", "idle")
  /\ x' = IF x = 0 THEN zero_flag + zero_pending_flag ELSE x
  /\ told_zero' = (told_zero \/ HasZero(x'))
  /\ UNCHANGED <<refs, failed, claims>>

\* reset(desired): permitted when the counter is zero, not racing with an
\* increment or a decrement.
Reset(desired) ==
  /\ HasZero(x)
  /\ \A t \in Threads : pc[t] \notin {"dec_cas", "dec_exchange"}
  /\ x' = InitialWord(desired)
  /\ refs' = desired
  /\ claims' = IF desired = 0 THEN 1 ELSE 0
  /\ failed' = 0
  /\ told_zero' = FALSE
  /\ UNCHANGED pc

-----------------------------------------------------------------------------
\* The steps that a thread inside an operation takes next.
Proceed(t) == DecrementCas(t) \/ DecrementExchange(t) \/ LoadCas(t)

Next ==
  \/ \E t \in Threads :
       \/ \E arg \in Args : Increment(t, arg) \/ Decrement(t, arg)
       \/ Load(t)
       \/ Proceed(t)
  \/ \E desired \in 0..max_value : Reset(desired)

Spec == Init /\ [][Next]_vars

\* The scheduler runs every thread that is inside an operation: there is no
\* lock and no loop in the class that could keep it from its next step.
FairSpec == Spec /\ \A t \in Threads : WF_vars(Proceed(t))

-----------------------------------------------------------------------------
TypeOK ==
  /\ x \in 0..(Modulus - 1)
  /\ pc \in [Threads -> PCs]
  /\ refs \in 0..max_value
  /\ failed \in 0..MaxFailed
  /\ claims \in Nat
  /\ told_zero \in BOOLEAN

\* Conservation: as long as the counter is not stuck the word is exactly the
\* number of references, whatever increments have overtaken a decrement that
\* reached zero and has not published it yet (utils.h:146-149).
WordCountsReferences == ~HasZero(x) => x = refs

\* "other racing threads can not increment the counter back up from zero"
\* (utils.h:105-107): after any caller has been told zero, by a false
\* increment, a true decrement or a load of 0, nobody holds a reference.
NoResurrection == told_zero => refs = 0

\* Of all the decrements racing to zero with resurrecting increments and
\* helping loads between them, at most one returns true: the memory that the
\* counter guards is freed once (counted_object.h:75, 107).
ClaimedOnce == claims <= 1

\* When no operation is in flight and no reference is left, some decrement
\* has returned true: the memory is not leaked.
NotLeaked ==
  (refs = 0 /\ \A t \in Threads : pc[t] = "idle") => claims = 1

\* "If the current value is zero, it is guaranteed to remain zero until the
\* counter is reset" (utils.h:154-155), as a property of steps.
ZeroIsPermanent ==
  [][HasZero(x) => HasZero(x') \/ \E desired \in 0..max_value : Reset(desired)]_vars

\* A counter at zero is claimed by a decrement, unless an increment got in
\* first or the counter is reset.
ZeroIsClaimed == (refs = 0) ~> (claims = 1 \/ refs > 0)

\* The counter implements the lifetime of the memory it guards.
Lifetime == INSTANCE ReferenceLifetime WITH
  count <- refs, stuck <- HasZero(x), claimed <- (claims > 0)

ImplementsLifetime == Lifetime!Spec
=============================================================================
