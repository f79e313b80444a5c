------------------------- MODULE StickyCounterProofs -------------------------
(***************************************************************************)
(* The safety properties of StickyCounter for every set of threads, every  *)
(* word size and every set of amounts, as long as fewer than               *)
(* zero_pending_flag failed increments reach a counter that is stuck:      *)
(* more would carry into the flag bits.                                    *)
(***************************************************************************)
EXTENDS StickyCounter, TLAPS

\* The stuck word is the flags plus what failed increments have added.
Stuck(base) == base <= x /\ x <= base + failed

\* The inductive invariant.  The properties alone are not inductive: they do
\* not say who will claim a zero that is not claimed yet.
ICount ==
  ~HasZero(x) => x = refs /\ claims = 0 /\ failed = 0 /\ told_zero = FALSE

IStuck ==
  HasZero(x) =>
    /\ refs = 0
    /\ \/ Stuck(zero_flag) /\ claims = 1
       \/ Stuck(zero_flag + zero_pending_flag) /\ claims = 0

\* A decrement is on its way to every zero that is not claimed.
IClaimant ==
  claims = 0 /\ refs = 0 =>
    \E t \in Threads : pc[t] \in {"dec_cas", "dec_exchange"}

IExchange == \A t \in Threads : pc[t] = "dec_exchange" => HasZero(x)

IInv == TypeOK /\ ICount /\ IStuck /\ IClaimant /\ IExchange

NoOverflow == MaxFailed < zero_pending_flag

USE FlagAssumption, ArgsAssumption, MaxFailedAssumption

\* A value that fits the word is stored unchanged.
LEMMA WordFits == \A v \in 0..(Modulus - 1) : Word(v) = v
  BY DEF Word, Modulus

\* The constructor establishes the invariant.
LEMMA InitInv == Init => IInv
<1>. SUFFICES ASSUME Init PROVE IInv
  BY Zenon
<1>1. PICK desired \in 0..max_value :
        /\ x = InitialWord(desired)
        /\ refs = desired
        /\ claims = IF desired = 0 THEN 1 ELSE 0
  BY Zenon DEF Init
<1>2. x \in 0..(Modulus - 1) /\ claims \in Nat /\ refs \in 0..max_value
  BY <1>1 DEF InitialWord, zero_flag, Modulus, max_value
<1>3. failed \in 0..MaxFailed /\ pc \in [Threads -> PCs]
  BY DEF Init, PCs
<1>6. told_zero \in BOOLEAN
  BY Zenon DEF Init
<1>4. ICount /\ IStuck
  <2>1. CASE desired = 0
    BY <1>1, <2>1 DEF Init, ICount, IStuck, Stuck, InitialWord, HasZero, zero_flag
  <2>2. CASE desired # 0
    BY <1>1, <2>2 DEF Init, ICount, IStuck, InitialWord, HasZero, zero_flag, max_value
  <2>. QED
    BY <2>1, <2>2, Zenon
<1>5. IClaimant /\ IExchange
  BY <1>1 DEF Init, IClaimant, IExchange
<1>. QED
  BY <1>2, <1>3, <1>4, <1>5, <1>6, Zenon DEF IInv, TypeOK

\* The invariant with the bit tests as inequalities, as the steps below use it.
LEMMA Shape ==
  ASSUME IInv, NoOverflow
  PROVE  /\ ~HasZero(x) => x \in 0..max_value /\ ~HasPending(x)
         /\ HasZero(x) => x + (MaxFailed - failed) < Modulus
         /\ HasZero(x) => (HasPending(x) <=> claims = 0)
  BY DEF NoOverflow, IInv, TypeOK, ICount, IStuck, Stuck, HasZero, HasPending,
         zero_flag, Modulus, max_value

\* increment preserves the invariant: a failed one only moves the low bits.
LEMMA IncrementInv ==
  ASSUME IInv, NoOverflow, NEW t \in Threads, NEW arg \in Args, Increment(t, arg)
  PROVE  IInv'
<1>1. arg \in Nat \ {0}
  BY Zenon
<1>2. CASE ~HasZero(x)
  <2>1. x' = x + arg /\ x' = refs' /\ x' \in 0..max_value
    BY <1>1, <1>2, WordFits
    DEF Increment, IInv, TypeOK, ICount, max_value, Modulus, HasZero
  <2>2. ~HasZero(x')
    BY <2>1 DEF HasZero, zero_flag, max_value
  <2>. QED
    BY <1>1, <1>2, <2>1, <2>2
    DEF Increment, IInv, TypeOK, ICount, IStuck, IClaimant, IExchange,
        Modulus, max_value
<1>3. CASE HasZero(x)
  <2>1. x' = x + arg /\ failed' = failed + arg /\ failed' <= MaxFailed
    BY <1>1, <1>3, Shape, WordFits DEF Increment, IInv, TypeOK, Modulus
  <2>2. HasZero(x') /\ x' < Modulus
    BY <1>1, <1>3, <2>1, Shape DEF HasZero, IInv, TypeOK, Modulus, zero_flag
  <2>3. IStuck'
    BY <1>1, <1>3, <2>1 DEF Increment, IInv, TypeOK, IStuck, Stuck, zero_flag, Modulus
  <2>4. told_zero' \in BOOLEAN /\ UNCHANGED <<pc, claims, refs>>
    BY <1>3, Zenon DEF Increment
  <2>5. TypeOK' /\ ICount'
    BY <1>1, <2>1, <2>2, <2>4 DEF IInv, TypeOK, ICount, Modulus
  <2>6. IClaimant' /\ IExchange'
    BY <2>2, <2>4, Zenon DEF IInv, IClaimant, IExchange
  <2>. QED
    BY <2>3, <2>5, <2>6, Zenon DEF IInv
<1>. QED
  BY <1>2, <1>3, Zenon

\* The fetch_sub preserves it: the thread that reaches zero is the claimant.
LEMMA DecrementInv ==
  ASSUME IInv, NoOverflow, NEW t \in Threads, NEW arg \in Args, Decrement(t, arg)
  PROVE  IInv'
<1>1. arg \in Nat \ {0} /\ ~HasZero(x) /\ x = refs
  BY DEF Decrement, IInv, TypeOK, IStuck, ICount
<1>2. x' = x - arg /\ x' = refs' /\ x' \in 0..max_value /\ ~HasZero(x')
  BY <1>1, WordFits
  DEF Decrement, IInv, TypeOK, HasZero, zero_flag, max_value, Modulus
<1>3. pc' \in [Threads -> PCs] /\ (x' = 0 => pc'[t] = "dec_cas")
  BY <1>1, <1>2 DEF Decrement, Goto, IInv, TypeOK, PCs
<1>4. TypeOK' /\ ICount' /\ IStuck'
  BY <1>1, <1>2, <1>3
  DEF Decrement, IInv, TypeOK, ICount, IStuck, Modulus, max_value
<1>5. IClaimant'
  BY <1>1, <1>2, <1>3, <1>4, Zenon DEF Decrement, IClaimant, IInv, TypeOK
<1>6. IExchange'
  BY <1>1, <1>2, Zenon DEF Decrement, Goto, IExchange, IInv, TypeOK
<1>. QED
  BY <1>4, <1>5, <1>6, Zenon DEF IInv

\* The CAS of decrement preserves it: it sticks an unstuck zero and claims
\* it, hands over to the exchange, or leaves a claimed or revived counter.
LEMMA DecrementCasInv ==
  ASSUME IInv, NoOverflow, NEW t \in Threads, DecrementCas(t)
  PROVE  IInv'
<1>1. CASE x = 0
  <2>1. ~HasZero(x) /\ x' = zero_flag /\ HasZero(x') /\ refs = 0 /\ claims' = 1
    BY <1>1 DEF DecrementCas, HasZero, zero_flag, IInv, ICount
  <2>. QED
    BY <1>1, <2>1
    DEF DecrementCas, Goto, IInv, TypeOK, ICount, IStuck, IClaimant,
        IExchange, Stuck, zero_flag, Modulus, PCs
<1>2. CASE x # 0 /\ HasPending(x)
  <2>1. HasZero(x)
    BY <1>2, Shape, Zenon
  <2>2. pc' = [pc EXCEPT ![t] = "dec_exchange"]
    BY <1>2, Zenon DEF DecrementCas, Goto
  <2>. QED
    BY <1>2, <2>1, <2>2, Zenon
    DEF DecrementCas, IInv, TypeOK, ICount, IStuck, IClaimant, IExchange,
        Stuck, HasZero, PCs
<1>3. CASE x # 0 /\ ~HasPending(x)
  <2>1. ~(claims = 0 /\ refs = 0)
    BY <1>3, Shape, Zenon DEF IInv, ICount
  <2>2. pc' = [pc EXCEPT ![t] = "idle"]
    BY <1>3, Zenon DEF DecrementCas, Goto
  <2>. QED
    BY <1>3, <2>1, <2>2, Zenon
    DEF DecrementCas, IInv, TypeOK, ICount, IStuck, IClaimant, IExchange,
        Stuck, HasZero, PCs
<1>. QED
  BY <1>1, <1>2, <1>3, Zenon

\* The exchange of decrement preserves it: it removes the pending flag and
\* claims, or finds both already done.
LEMMA DecrementExchangeInv ==
  ASSUME IInv, NoOverflow, NEW t \in Threads, DecrementExchange(t)
  PROVE  IInv'
<1>1. HasZero(x) /\ refs = 0
  BY Zenon DEF DecrementExchange, Goto, IInv, IExchange, IStuck
<1>2. claims' = 1 /\ x' = zero_flag /\ HasZero(x')
  BY <1>1, Shape
  DEF DecrementExchange, HasZero, IInv, TypeOK, IStuck, zero_flag
<1>. QED
  BY <1>1, <1>2
  DEF DecrementExchange, Goto, IInv, TypeOK, ICount, IStuck, IClaimant,
      IExchange, Stuck, zero_flag, Modulus, PCs

\* The atomic load changes nothing that is shared.
LEMMA LoadInv ==
  ASSUME IInv, NEW t \in Threads, Load(t)
  PROVE  IInv'
<1>1. /\ UNCHANGED <<x, refs, failed, claims>>
      /\ pc' \in [Threads -> PCs]
      /\ pc' = [pc EXCEPT ![t] = pc'[t]]
      /\ pc[t] = "idle" /\ pc'[t] \in {"idle", "load_cas"}
  BY Zenon DEF Load, Goto, IInv, TypeOK, PCs
<1>2. told_zero' = (told_zero \/ HasZero(x))
  BY Zenon DEF Load
<1>3. told_zero' \in BOOLEAN
  BY <1>2, Zenon
<1>4. ~HasZero(x) => told_zero' = told_zero
  BY <1>2, Zenon DEF IInv, TypeOK
<1>5. TypeOK' /\ ICount' /\ IStuck'
  BY <1>1, <1>3, <1>4, Zenon DEF IInv, TypeOK, ICount, IStuck, Stuck, HasZero
<1>6. IClaimant' /\ IExchange'
  BY <1>1, Zenon DEF IInv, TypeOK, IClaimant, IExchange, HasZero
<1>. QED
  BY <1>5, <1>6, Zenon DEF IInv

\* The CAS of load preserves it: the zero it sticks has a claimant.
LEMMA LoadCasInv ==
  ASSUME IInv, NoOverflow, NEW t \in Threads, LoadCas(t)
  PROVE  IInv'
<1>1. /\ UNCHANGED <<refs, failed, claims>>
      /\ pc' = [pc EXCEPT ![t] = "idle"]
      /\ pc[t] = "load_cas"
  BY Zenon DEF LoadCas, Goto
<1>2. pc' \in [Threads -> PCs] /\ IClaimant'
  BY <1>1, Zenon DEF IInv, TypeOK, IClaimant, PCs
<1>3. told_zero' \in BOOLEAN /\ (~HasZero(x') => told_zero' = told_zero)
  BY Zenon DEF LoadCas, IInv, TypeOK
<1>4. CASE x = 0
  <2>1. x' = zero_flag + zero_pending_flag /\ HasZero(x') /\ x' < Modulus
    BY <1>4 DEF LoadCas, HasZero, zero_flag, Modulus
  <2>2. refs = 0 /\ claims = 0 /\ failed = 0
    BY <1>4 DEF IInv, ICount, HasZero, zero_flag
  <2>. QED
    BY <1>1, <1>2, <1>3, <2>1, <2>2
    DEF IInv, TypeOK, ICount, IStuck, IExchange, Stuck, zero_flag, Modulus
<1>5. CASE x # 0
  <2>1. x' = x
    BY <1>5, Zenon DEF LoadCas
  <2>. QED
    BY <1>1, <1>2, <1>3, <2>1, Zenon
    DEF IInv, TypeOK, ICount, IStuck, IExchange, Stuck, HasZero, PCs
<1>. QED
  BY <1>4, <1>5, Zenon

\* reset preserves it: nobody is left inside a decrement.
LEMMA ResetInv ==
  ASSUME IInv, NEW desired \in 0..max_value, Reset(desired)
  PROVE  IInv'
<1>1. /\ x' = InitialWord(desired) /\ refs' = desired
      /\ claims' = IF desired = 0 THEN 1 ELSE 0
      /\ failed' = 0 /\ told_zero' = FALSE /\ pc' = pc
      /\ \A t \in Threads : pc[t] # "dec_exchange"
  BY Zenon DEF Reset
<1>2. x' \in 0..(Modulus - 1) /\ claims' \in Nat
  BY <1>1 DEF InitialWord, zero_flag, Modulus, max_value
<1>3. failed' \in 0..MaxFailed /\ pc' \in [Threads -> PCs] /\ refs' \in 0..max_value
  BY <1>1 DEF IInv, TypeOK
<1>6. told_zero' \in BOOLEAN
  BY <1>1, Zenon
<1>4. ICount' /\ IStuck'
  <2>1. CASE desired = 0
    BY <1>1, <2>1 DEF ICount, IStuck, Stuck, InitialWord, HasZero, zero_flag
  <2>2. CASE desired # 0
    BY <1>1, <2>2 DEF ICount, IStuck, InitialWord, HasZero, zero_flag, max_value
  <2>. QED
    BY <2>1, <2>2, Zenon
<1>5. IClaimant' /\ IExchange'
  BY <1>1 DEF IClaimant, IExchange
<1>. QED
  BY <1>2, <1>3, <1>4, <1>5, <1>6, Zenon DEF IInv, TypeOK

\* Every step of every thread preserves the invariant.
LEMMA NextInv ==
  ASSUME NoOverflow, IInv, [Next]_vars
  PROVE  IInv'
<1>1. CASE \E t \in Threads, arg \in Args : Increment(t, arg) \/ Decrement(t, arg)
  BY <1>1, IncrementInv, DecrementInv, Zenon
<1>2. CASE \E t \in Threads : Load(t) \/ Proceed(t)
  BY <1>2, LoadInv, DecrementCasInv, DecrementExchangeInv, LoadCasInv, Zenon DEF Proceed
<1>3. CASE \E desired \in 0..max_value : Reset(desired)
  BY <1>3, ResetInv, Zenon
<1>4. CASE UNCHANGED vars
  BY <1>4, Zenon
  DEF vars, IInv, TypeOK, ICount, IStuck, IClaimant, IExchange, Stuck, HasZero
<1>. QED
  BY <1>1, <1>2, <1>3, <1>4, Zenon DEF Next

\* The inductive invariant holds in every reachable state.
THEOREM Invariance == ASSUME NoOverflow PROVE Spec => []IInv
<1>1. IInv /\ [Next]_vars => IInv'
  BY NextInv, Zenon
<1>. QED
  BY InitInv, <1>1, PTL DEF Spec

\* Every operation leaves a well-formed counter.
THEOREM TypeCorrect == ASSUME NoOverflow PROVE Spec => []TypeOK
<1>1. IInv => TypeOK
  BY Zenon DEF IInv
<1>. QED
  BY Invariance, <1>1, PTL

\* An unstuck word is the number of references (utils.h:133-152).
THEOREM Conservation == ASSUME NoOverflow PROVE Spec => []WordCountsReferences
<1>1. IInv => WordCountsReferences
  BY Zenon DEF IInv, ICount, WordCountsReferences
<1>. QED
  BY Invariance, <1>1, PTL

\* After a false increment, a true decrement or a load of zero, nobody holds
\* a reference (utils.h:105-107).
THEOREM ZeroMeansNoReferences == ASSUME NoOverflow PROVE Spec => []NoResurrection
<1>1. IInv => NoResurrection
  BY Zenon DEF IInv, ICount, IStuck, NoResurrection
<1>. QED
  BY Invariance, <1>1, PTL

\* At most one decrement returns true (utils.h:148-149).
THEOREM FreedOnce == ASSUME NoOverflow PROVE Spec => []ClaimedOnce
<1>1. IInv => ClaimedOnce
  BY DEF IInv, ICount, IStuck, ClaimedOnce
<1>. QED
  BY Invariance, <1>1, PTL

\* At rest without references, a decrement has returned true.
THEOREM FreedAtRest == ASSUME NoOverflow PROVE Spec => []NotLeaked
<1>1. IInv => NotLeaked
  BY Zenon DEF IInv, ICount, IStuck, IClaimant, NotLeaked
<1>. QED
  BY Invariance, <1>1, PTL

\* No step but a reset takes the counter out of zero (utils.h:154-155).
LEMMA ZeroStep ==
  ASSUME NoOverflow, IInv, [Next]_vars, HasZero(x)
  PROVE  HasZero(x') \/ \E desired \in 0..max_value : Reset(desired)
<1>1. ASSUME NEW t \in Threads, NEW arg \in Args, Increment(t, arg)
      PROVE  HasZero(x')
  <2>1. arg \in Nat \ {0} /\ failed + arg <= MaxFailed /\ x' = Word(x + arg)
    BY <1>1, Zenon DEF Increment
  <2>2. x' = x + arg
    BY <2>1, Shape, WordFits DEF IInv, TypeOK, Modulus
  <2>. QED
    BY <2>1, <2>2 DEF HasZero, IInv, TypeOK, zero_flag, Modulus
<1>2. ASSUME NEW t \in Threads, NEW arg \in Args, Decrement(t, arg)
      PROVE  FALSE
  BY <1>2 DEF Decrement, IInv, IStuck
<1>3. ASSUME NEW t \in Threads, Load(t) \/ Proceed(t)
      PROVE  HasZero(x')
  BY <1>3 DEF Load, Proceed, DecrementCas, DecrementExchange, LoadCas, HasZero, zero_flag
<1>4. CASE UNCHANGED vars
  BY <1>4, Zenon DEF vars
<1>. QED
  BY <1>1, <1>2, <1>3, <1>4, Zenon DEF Next

\* A counter that reports zero stays zero until it is reset.
THEOREM ZeroForever == ASSUME NoOverflow PROVE Spec => ZeroIsPermanent
<1>1. IInv /\ [Next]_vars =>
        [HasZero(x) => HasZero(x') \/ \E desired \in 0..max_value : Reset(desired)]_vars
  BY ZeroStep, Zenon
<1>. QED
  BY Invariance, <1>1, PTL DEF Spec, ZeroIsPermanent

\* Every step of the counter is a step of the lifetime it implements, or
\* invisible to it: the fetch_sub and the fetch_add move references, the
\* CASes stick and claim the zero, the exchange claims it.
LEMMA LifetimeStep ==
  ASSUME NoOverflow, IInv, [Next]_vars
  PROVE  [Lifetime!Next]_(Lifetime!vars)
<1>. USE DEF Lifetime!Next, Lifetime!vars
<1>1. ASSUME NEW t \in Threads, NEW arg \in Args, Increment(t, arg)
      PROVE  Lifetime!Acquire \/ UNCHANGED Lifetime!vars
  <2>1. CASE HasZero(x)
    BY <1>1, <2>1, ZeroStep, Zenon DEF Increment, Next, Reset, IInv, TypeOK
  <2>2. CASE ~HasZero(x)
    <3>1. arg \in Nat \ {0} /\ refs' = refs + arg /\ claims' = claims
      BY <1>1, <2>2, Zenon DEF Increment
    <3>2. ~HasZero(x')
      BY <1>1, <2>2, <3>1, WordFits
      DEF Increment, HasZero, zero_flag, max_value, Modulus, IInv, TypeOK, ICount
    <3>3. refs' \in Nat /\ refs' > refs
      BY <3>1 DEF IInv, TypeOK, max_value
    <3>4. HasZero(x') = HasZero(x) /\ (claims' > 0) = (claims > 0)
      BY <2>2, <3>1, <3>2 DEF HasZero
    <3>. QED
      BY <2>2, <3>3, <3>4, Zenon DEF Lifetime!Acquire
  <2>. QED
    BY <2>1, <2>2, Zenon
<1>2. ASSUME NEW t \in Threads, NEW arg \in Args, Decrement(t, arg)
      PROVE  Lifetime!Release
  <2>1. arg \in Nat \ {0} /\ ~HasZero(x) /\ x = refs /\ arg <= refs
    BY <1>2 DEF Decrement, IInv, TypeOK, IStuck, ICount
  <2>2. ~HasZero(x') /\ refs' = refs - arg /\ claims' = claims
    BY <1>2, <2>1, WordFits
    DEF Decrement, HasZero, zero_flag, max_value, Modulus, IInv, TypeOK
  <2>3. refs' \in Nat /\ refs' < refs
    BY <2>1, <2>2 DEF IInv, TypeOK, max_value
  <2>4. HasZero(x') = HasZero(x) /\ (claims' > 0) = (claims > 0)
    BY <2>1, <2>2 DEF HasZero
  <2>. QED
    BY <2>1, <2>3, <2>4, Zenon DEF Lifetime!Release
<1>3. ASSUME NEW t \in Threads, DecrementCas(t)
      PROVE  Lifetime!Stick \/ UNCHANGED Lifetime!vars
  BY <1>3
  DEF DecrementCas, Lifetime!Stick, IInv, TypeOK, ICount, HasZero, zero_flag
<1>4. ASSUME NEW t \in Threads, DecrementExchange(t)
      PROVE  Lifetime!Claim \/ UNCHANGED Lifetime!vars
  <2>1. HasZero(x) /\ HasZero(x') /\ refs' = refs
    BY <1>4 DEF DecrementExchange, Goto, IInv, IExchange, HasZero, zero_flag
  <2>. QED
    BY <1>4, <2>1, Shape DEF DecrementExchange, Lifetime!Claim, IInv, TypeOK
<1>5. ASSUME NEW t \in Threads, LoadCas(t)
      PROVE  Lifetime!Stick \/ UNCHANGED Lifetime!vars
  BY <1>5 DEF LoadCas, Lifetime!Stick, IInv, TypeOK, ICount, HasZero, zero_flag
<1>6. ASSUME NEW desired \in 0..max_value, Reset(desired)
      PROVE  Lifetime!Restart
  <2>1. HasZero(x) /\ claims = 1
    BY <1>6, Shape, Zenon DEF Reset, IInv, IStuck, IClaimant
  <2>2. refs' = desired /\ HasZero(x') = (desired = 0) /\ (claims' > 0) = (desired = 0)
    BY <1>6 DEF Reset, InitialWord, HasZero, zero_flag, max_value
  <2>. QED
    BY <2>1, <2>2 DEF Lifetime!Restart, max_value
<1>7. CASE (\E t \in Threads : Load(t)) \/ UNCHANGED vars
  BY <1>7, Zenon DEF Load, vars
<1>. QED
  BY <1>1, <1>2, <1>3, <1>4, <1>5, <1>6, <1>7, Zenon DEF Next, Proceed

\* The counter implements the lifetime of the memory it guards.
THEOREM CounterImplementsLifetime == ASSUME NoOverflow PROVE Spec => ImplementsLifetime
<1>1. Init => Lifetime!Init
  BY DEF Init, Lifetime!Init, InitialWord, HasZero, zero_flag, max_value
<1>2. IInv /\ [Next]_vars => [Lifetime!Next]_(Lifetime!vars)
  BY LifetimeStep, Zenon
<1>. QED
  BY Invariance, <1>1, <1>2, PTL DEF Spec, ImplementsLifetime, Lifetime!Spec
=============================================================================
