-------------------------- MODULE LoginLimiterProofs --------------------------
(***************************************************************************)
(* Theorems about LoginLimiter, for every number of logins and Bearer      *)
(* checks in progress and for all thresholds and lockouts.  The argument:  *)
(* a login's own failures are among those the bucket counts, and its       *)
(* reservation stands from the check until its failure is counted; and a   *)
(* lockout in force is never longer than the one the next failure brings.  *)
(***************************************************************************)
EXTENDS LoginLimiter, FiniteSetTheorems, TLAPS

-----------------------------------------------------------------------------
(* The inductive invariant. *)

Pending == {a \in Login \cup Bearer : pc[a] \in {"verifying", "checked"}}

Reserved == {l \in Login : pc[l] \in {"verifying", "ending"}}

\* Each kind of attempt is at its own places.
Kinds ==
  /\ \A l \in Login : pc[l] # "checked"
  /\ \A b \in Bearer : pc[b] \in {"idle", "checked"}

\* Whatever the pending attempts come to, the counter stays within its bound.
RoomKept == bucket.failures + Cardinality(Pending) <= MaxFailures

\* The bucket counts every failure of a login, and exists while one is in flight.
Counted ==
  /\ own <= bucket.failures
  /\ bucket.in_flight > 0 => bucket.tracked

\* A lockout is owed to the failures, and at most as long as they call for.
LockEarned(s) ==
  s.lock > 0 =>
    /\ s.failures >= FailureThreshold
    /\ s.lock <= LockoutFor(s.failures - FailureThreshold)

IInv ==
  /\ TypeOK
  /\ Kinds /\ RoomKept /\ Counted /\ LockEarned(bucket)
  /\ InFlightExact /\ BurstBounded

-----------------------------------------------------------------------------
(* Lockouts. *)

\* The powers of two that a lockout can be multiplied by.
LEMMA Powers ==
  /\ \A k \in 0..15 : 2^k \in Nat
  /\ \A k \in 0..14 : 2^(k + 1) = 2 * 2^k
<1>. DEFINE p(k) == 2^k
<1>1. /\ p(0) = 1 /\ p(1) = 2 /\ p(2) = 4 /\ p(3) = 8 /\ p(4) = 16 /\ p(5) = 32
      /\ p(6) = 64 /\ p(7) = 128 /\ p(8) = 256 /\ p(9) = 512 /\ p(10) = 1024
      /\ p(11) = 2048 /\ p(12) = 4096 /\ p(13) = 8192 /\ p(14) = 16384 /\ p(15) = 32768
  OBVIOUS
<1>. HIDE DEF p
<1>2. \A k \in 0..15 : p(k) \in Nat
  BY <1>1
<1>3. \A k \in 0..14 : p(k + 1) = 2 * p(k)
  BY <1>1
<1>. QED
  BY <1>2, <1>3, Zenon DEF p

\* cooldown_for: no lockout is longer than MaxLockout, and none is shorter than
\* that of one failure fewer.
LEMMA Lockouts ==
  ASSUME NEW n \in Nat
  PROVE  /\ LockoutFor(n) \in 0..MaxLockout
         /\ LockoutFor(n) <= LockoutFor(n + 1)
<1>. DEFINE e(m) == IF m <= 1 THEN 0 ELSE IF m > 16 THEN 15 ELSE m - 1
            s(m) == BaseLockout * 2 ^ e(m)
<1>1. /\ e(n) \in 0..15 /\ e(n + 1) \in 0..15
      /\ e(n + 1) = e(n) \/ (e(n) \in 0..14 /\ e(n + 1) = e(n) + 1)
  OBVIOUS
<1>2. /\ \A m : LockoutFor(m) = IF s(m) < MaxLockout THEN s(m) ELSE MaxLockout
  BY DEF LockoutFor
<1>. HIDE DEF e
<1>3. s(n) \in Nat /\ s(n + 1) \in Nat
  <2>1. 2 ^ e(n) \in Nat /\ 2 ^ e(n + 1) \in Nat
    BY <1>1, Powers
  <2>2. \A x, y \in Nat : x * y \in Nat
    OBVIOUS
  <2>. QED
    BY <2>1, <2>2, LoginLimiterAssumption
<1>4. s(n) <= s(n + 1)
  <2>1. CASE e(n + 1) = e(n)
    BY <1>3, <2>1
  <2>2. CASE e(n) \in 0..14 /\ e(n + 1) = e(n) + 1
    <3>1. 2 ^ e(n) \in Nat /\ 2 ^ e(n + 1) = 2 * 2 ^ e(n)
      BY <1>1, <2>2, Powers
    <3>2. \A x, y \in Nat : x * y <= x * (2 * y)
      OBVIOUS
    <3>. QED
      BY <3>1, <3>2, LoginLimiterAssumption
  <2>. QED
    BY <1>1, <2>1, <2>2
<1>. HIDE DEF s
<1>. QED
  BY <1>2, <1>3, <1>4, LoginLimiterAssumption

\* record_failure counts one more failure and never shortens a lockout.
LEMMA FailureRecorded ==
  ASSUME bucket \in AttemptState, bucket.failures < MaxFailures, LockEarned(bucket)
  PROVE  /\ RecordFailure(bucket) \in AttemptState
         /\ RecordFailure(bucket).failures = bucket.failures + 1
         /\ RecordFailure(bucket).in_flight = bucket.in_flight
         /\ RecordFailure(bucket).tracked
         /\ RecordFailure(bucket).lock >= bucket.lock
         /\ LockEarned(RecordFailure(bucket))
<1>. DEFINE n == bucket.failures + 1
            lock == IF n >= FailureThreshold
                    THEN LockoutFor(n - FailureThreshold) ELSE bucket.lock
<1>1. /\ bucket.failures \in Nat /\ n \in 0..MaxFailures /\ n \in Nat
      /\ bucket.lock \in 0..MaxLockout /\ bucket.lock \in Nat
      /\ StaleAfter \in 0..StaleAfter
  BY LoginLimiterAssumption DEF AttemptState
<1>2. /\ RecordFailure(bucket) =
           [bucket EXCEPT !.tracked = TRUE, !.failures = n, !.recent = StaleAfter,
                          !.lock = lock]
  BY DEF RecordFailure
<1>3. CASE n >= FailureThreshold
  <2>1. n - FailureThreshold \in Nat
    BY <1>1, <1>3, LoginLimiterAssumption
  <2>2. lock \in 0..MaxLockout /\ lock = LockoutFor(n - FailureThreshold)
    BY <1>3, <2>1, Lockouts
  <2>3. lock >= bucket.lock
    <3>1. CASE bucket.lock = 0
      BY <2>2, <3>1, LoginLimiterAssumption
    <3>2. CASE bucket.lock > 0
      <4>1. /\ bucket.failures - FailureThreshold \in Nat
            /\ bucket.lock <= LockoutFor(bucket.failures - FailureThreshold)
        BY <1>1, <3>2, LoginLimiterAssumption DEF LockEarned
      <4>2. /\ LockoutFor(bucket.failures - FailureThreshold) \in 0..MaxLockout
            /\ LockoutFor(bucket.failures - FailureThreshold)
                 <= LockoutFor(bucket.failures - FailureThreshold + 1)
        BY <4>1, Lockouts
      <4>3. bucket.failures - FailureThreshold + 1 = n - FailureThreshold
        BY <1>1, LoginLimiterAssumption
      <4>. HIDE DEF lock, n
      <4>. QED
        BY <1>1, <2>2, <4>1, <4>2, <4>3, LoginLimiterAssumption
    <3>. QED
      BY <1>1, <3>1, <3>2
  <2>. HIDE DEF lock, n
  <2>4. LockEarned([bucket EXCEPT !.tracked = TRUE, !.failures = n,
                                  !.recent = StaleAfter, !.lock = lock])
    BY <1>1, <1>3, <2>2, LoginLimiterAssumption DEF LockEarned, AttemptState
  <2>. QED
    BY <1>1, <1>2, <2>2, <2>3, <2>4 DEF AttemptState, n
<1>4. CASE n < FailureThreshold
  <2>1. bucket.lock = 0 /\ lock = bucket.lock
    BY <1>1, <1>4, LoginLimiterAssumption DEF LockEarned
  <2>. HIDE DEF lock, n
  <2>2. RecordFailure(bucket) =
          [bucket EXCEPT !.tracked = TRUE, !.failures = n, !.recent = StaleAfter, !.lock = 0]
    BY <1>2, <2>1
  <2>3. RecordFailure(bucket) \in AttemptState
    BY <1>1, <2>1, <2>2 DEF AttemptState
  <2>4. /\ RecordFailure(bucket).failures = n /\ RecordFailure(bucket).tracked
        /\ RecordFailure(bucket).in_flight = bucket.in_flight
        /\ RecordFailure(bucket).lock = 0
    BY <2>2 DEF AttemptState
  <2>. QED
    BY <2>1, <2>3, <2>4 DEF LockEarned, n
<1>. QED
  BY <1>1, <1>3, <1>4, LoginLimiterAssumption

-----------------------------------------------------------------------------
(* Attempts. *)

\* What the places of the attempts are, and that there are finitely many.
LEMMA Finite ==
  /\ IsFiniteSet(Pending) /\ IsFiniteSet(Reserved) /\ IsFiniteSet(Verifying)
  /\ Cardinality(Pending) \in Nat /\ Cardinality(Reserved) \in Nat
  /\ Cardinality(Verifying) \in Nat
  /\ Cardinality(Verifying) <= Cardinality(Reserved)
<1>1. IsFiniteSet(Login) /\ IsFiniteSet(Bearer) /\ IsFiniteSet(Login \cup Bearer)
  BY LoginLimiterAssumption, FS_Union
<1>2. /\ Pending \subseteq Login \cup Bearer /\ Reserved \subseteq Login
      /\ Verifying \subseteq Reserved
  BY DEF Pending, Reserved, Verifying, At
<1>3. IsFiniteSet(Pending) /\ IsFiniteSet(Reserved)
  BY <1>1, <1>2, FS_Subset
<1>4. IsFiniteSet(Verifying) /\ Cardinality(Verifying) <= Cardinality(Reserved)
  BY <1>2, <1>3, FS_Subset
<1>. QED
  BY <1>3, <1>4, FS_CardinalityType

\* What is added to a count, or taken from it, when one attempt moves.
LEMMA CountIn ==
  ASSUME NEW S, IsFiniteSet(S), NEW x, x \notin S
  PROVE  Cardinality(S \cup {x}) = Cardinality(S) + 1
BY FS_AddElement

LEMMA CountOut ==
  ASSUME NEW S, IsFiniteSet(S), NEW x, x \in S
  PROVE  Cardinality(S \ {x}) = Cardinality(S) - 1 /\ Cardinality(S) > 0
<1>1. Cardinality(S) # 0 /\ Cardinality(S) \in Nat
  BY FS_EmptySet, FS_CardinalityType
<1>. QED
  BY <1>1, FS_RemoveElement

\* The types of the bucket's fields, and what the invariant says of their counts.
LEMMA Fields ==
  ASSUME IInv
  PROVE  /\ bucket \in AttemptState /\ bucket.tracked \in BOOLEAN
         /\ bucket.failures \in Nat /\ bucket.failures \in 0..MaxFailures
         /\ bucket.lock \in Nat /\ bucket.lock \in 0..MaxLockout
         /\ bucket.recent \in 0..StaleAfter /\ own \in Nat
         /\ bucket.in_flight = Cardinality(Reserved) /\ bucket.in_flight \in Nat
BY LoginLimiterAssumption DEF IInv, TypeOK, AttemptState, InFlightExact, Reserved

\* An attempt that moves is where it moved to, and no other attempt is elsewhere.
LEMMA Moved ==
  ASSUME IInv, NEW a \in Login \cup Bearer,
         NEW place \in {"idle", "verifying", "ending", "checked"}, Go(a, place),
         place = "checked" => a \in Bearer,
         place \in {"verifying", "ending"} => a \in Login
  PROVE  /\ pc' \in [Login \cup Bearer -> {"idle", "verifying", "ending", "checked"}]
         /\ Kinds'
         /\ Pending' = IF place \in {"verifying", "checked"}
                       THEN Pending \cup {a} ELSE Pending \ {a}
         /\ Reserved' = IF place \in {"verifying", "ending"}
                        THEN Reserved \cup {a} ELSE Reserved \ {a}
         /\ Verifying' = IF place = "verifying"
                         THEN Verifying \cup {a} ELSE Verifying \ {a}
<1>1. /\ pc' \in [Login \cup Bearer -> {"idle", "verifying", "ending", "checked"}]
      /\ pc'[a] = place /\ \A x \in (Login \cup Bearer) \ {a} : pc'[x] = pc[x]
  BY DEF IInv, TypeOK, Go
<1>2. Login \cap Bearer = {}
  BY LoginLimiterAssumption
<1>3. Kinds'
  BY <1>1, <1>2 DEF IInv, Kinds
<1>4. Pending' = IF place \in {"verifying", "checked"}
                 THEN Pending \cup {a} ELSE Pending \ {a}
  BY <1>1 DEF Pending
<1>5. Reserved' = IF place \in {"verifying", "ending"}
                  THEN Reserved \cup {a} ELSE Reserved \ {a}
  BY <1>1, <1>2 DEF Reserved
<1>6. Verifying' = IF place = "verifying" THEN Verifying \cup {a} ELSE Verifying \ {a}
  BY <1>1, <1>2 DEF Verifying, At
<1>. QED
  BY <1>1, <1>3, <1>4, <1>5, <1>6

\* A password login is let in, with its slot reserved.
LEMMA BeginKeeps ==
  ASSUME IInv, NEW l \in Login, Begin(l)
  PROVE  IInv' /\ bucket'.lock = bucket.lock
<1>1. /\ pc[l] = "idle" /\ Go(l, "verifying") /\ own' = own
      /\ bucket' = [bucket EXCEPT !.tracked = TRUE, !.in_flight = @ + 1]
      /\ IF bucket.failures >= FailureThreshold
         THEN bucket.in_flight = 0
         ELSE bucket.failures + bucket.in_flight < FailureThreshold
      /\ bucket.failures + Cardinality(Pending) < MaxFailures
  BY DEF Begin, At, Room, Pending
<1>2. /\ Pending' = Pending \cup {l} /\ l \notin Pending
      /\ Reserved' = Reserved \cup {l} /\ l \notin Reserved
      /\ Verifying' = Verifying \cup {l} /\ l \notin Verifying
      /\ pc' \in [Login \cup Bearer -> {"idle", "verifying", "ending", "checked"}]
      /\ Kinds'
  BY <1>1, Moved DEF Pending, Reserved, Verifying, At
<1>3. /\ Cardinality(Pending') = Cardinality(Pending) + 1
      /\ Cardinality(Reserved') = Cardinality(Reserved) + 1
      /\ Cardinality(Verifying') = Cardinality(Verifying) + 1
  BY <1>2, CountIn, Finite
<1>4. /\ bucket'.failures = bucket.failures /\ bucket'.lock = bucket.lock
      /\ bucket'.in_flight = bucket.in_flight + 1 /\ bucket'.tracked
      /\ bucket' \in AttemptState
  <2>1. bucket \in AttemptState /\ bucket.in_flight + 1 \in Nat
    BY Fields
  <2>2. bucket' = [bucket EXCEPT !.tracked = TRUE, !.in_flight = bucket.in_flight + 1]
    BY <1>1
  <2>. QED
    BY <2>1, <2>2 DEF AttemptState
<1>5. TypeOK'
  BY <1>1, <1>2, <1>4 DEF IInv, TypeOK
<1>6. RoomKept'
  BY <1>1, <1>3, <1>4, Fields, Finite, LoginLimiterAssumption DEF RoomKept
<1>7. Counted' /\ LockEarned(bucket)'
  BY <1>1, <1>4 DEF IInv, Counted, LockEarned
<1>8. InFlightExact'
  BY <1>3, <1>4, Fields DEF InFlightExact, Reserved
<1>9. BurstBounded'
  BY <1>1, <1>3, Fields, Finite, LoginLimiterAssumption DEF IInv, Counted, BurstBounded
<1>. QED
  BY <1>2, <1>4, <1>5, <1>6, <1>7, <1>8, <1>9 DEF IInv

\* An attempt that is counted as a failure has room for it.
LEMMA RoomFor ==
  ASSUME IInv, NEW a \in Pending
  PROVE  bucket.failures < MaxFailures
<1>1. Cardinality(Pending) > 0
  BY CountOut, Finite
<1>. QED
  BY <1>1, Fields, Finite, LoginLimiterAssumption DEF IInv, RoomKept

\* A password login has its answer: one guess fewer is outstanding, and one more
\* failure is counted, or all of them are forgiven.
LEMMA VerdictKeeps ==
  ASSUME IInv, NEW l \in Login, Refuse(l) \/ Accept(l)
  PROVE  IInv' /\ (Refuse(l) => bucket'.lock >= bucket.lock)
<1>1. pc[l] = "verifying" /\ Go(l, "ending")
  BY DEF Refuse, Accept, At
<1>2. /\ Pending' = Pending \ {l} /\ l \in Pending
      /\ Reserved' = Reserved \cup {l} /\ l \in Reserved
      /\ Verifying' = Verifying \ {l} /\ l \in Verifying
      /\ pc' \in [Login \cup Bearer -> {"idle", "verifying", "ending", "checked"}]
      /\ Kinds'
  BY <1>1, Moved DEF Pending, Reserved, Verifying, At
<1>3. /\ Cardinality(Pending') = Cardinality(Pending) - 1 /\ Cardinality(Pending) > 0
      /\ Reserved' = Reserved
      /\ Cardinality(Verifying') = Cardinality(Verifying) - 1 /\ Cardinality(Verifying) > 0
  BY <1>2, CountOut, Finite
<1>4. CASE Refuse(l)
  <2>1. bucket' = RecordFailure(bucket) /\ own' = own + 1
    BY <1>4 DEF Refuse
  <2>2. /\ bucket' \in AttemptState /\ bucket'.failures = bucket.failures + 1
        /\ bucket'.in_flight = bucket.in_flight /\ bucket'.tracked
        /\ bucket'.lock >= bucket.lock /\ LockEarned(bucket')
    BY <1>2, <2>1, RoomFor, Fields, FailureRecorded DEF IInv
  <2>3. TypeOK'
    BY <1>2, <2>1, <2>2 DEF IInv, TypeOK
  <2>4. RoomKept' /\ Counted'
    BY <1>3, <2>1, <2>2, Fields, Finite, LoginLimiterAssumption
    DEF IInv, RoomKept, Counted
  <2>5. InFlightExact'
    BY <1>3, <2>2, Fields DEF InFlightExact, Reserved
  <2>6. BurstBounded'
    BY <1>3, <2>1, Fields, Finite, LoginLimiterAssumption DEF IInv, BurstBounded
  <2>7. LockEarned(bucket)'
    BY <2>2 DEF LockEarned
  <2>. QED
    BY <1>2, <2>2, <2>3, <2>4, <2>5, <2>6, <2>7 DEF IInv
<1>5. CASE Accept(l)
  <2>1. bucket' = [bucket EXCEPT !.failures = 0, !.lock = 0] /\ own' = 0
    BY <1>5 DEF Accept, RecordSuccess
  <2>2. /\ bucket' \in AttemptState /\ bucket'.failures = 0 /\ bucket'.lock = 0
        /\ bucket'.in_flight = bucket.in_flight /\ bucket'.tracked = bucket.tracked
    <3>1. 0 \in 0..MaxFailures /\ 0 \in 0..MaxLockout /\ bucket \in AttemptState
      BY Fields, LoginLimiterAssumption
    <3>. QED
      BY <2>1, <3>1 DEF AttemptState
  <2>3. TypeOK'
    BY <1>2, <2>1, <2>2 DEF IInv, TypeOK
  <2>4. RoomKept' /\ Counted' /\ LockEarned(bucket)'
    BY <1>3, <2>1, <2>2, Fields, Finite, LoginLimiterAssumption
    DEF IInv, RoomKept, Counted, LockEarned
  <2>5. InFlightExact'
    BY <1>3, <2>2, Fields DEF InFlightExact, Reserved
  <2>6. BurstBounded'
    BY <1>3, <2>1, Fields, Finite, LoginLimiterAssumption DEF IInv, BurstBounded
  <2>7. ~Refuse(l)
    BY <2>1, Fields DEF Refuse
  <2>. QED
    BY <1>2, <2>3, <2>4, <2>5, <2>6, <2>7 DEF IInv
<1>. QED
  BY <1>4, <1>5

\* A handler of a login ends, and its slot with it.
LEMMA FinishKeeps ==
  ASSUME IInv, NEW l \in Login, Finish(l)
  PROVE  IInv' /\ bucket'.lock = bucket.lock
<1>1. /\ pc[l] \in {"verifying", "ending"} /\ Go(l, "idle") /\ own' = own
      /\ bucket' = ReleaseSlot(bucket)
  BY DEF Finish
<1>2. /\ Pending' = Pending \ {l} /\ Reserved' = Reserved \ {l}
      /\ Verifying' = Verifying \ {l} /\ l \in Reserved
      /\ pc' \in [Login \cup Bearer -> {"idle", "verifying", "ending", "checked"}]
      /\ Kinds'
  BY <1>1, Moved DEF Reserved
<1>3. /\ Cardinality(Reserved') = Cardinality(Reserved) - 1 /\ Cardinality(Reserved) > 0
      /\ Cardinality(Pending') <= Cardinality(Pending) /\ Cardinality(Pending') \in Nat
      /\ Cardinality(Verifying') <= Cardinality(Verifying) /\ Cardinality(Verifying') \in Nat
  <2>1. Pending' \subseteq Pending /\ Verifying' \subseteq Verifying
    BY <1>2
  <2>. QED
    BY <1>2, <2>1, CountOut, Finite, FS_Subset, FS_CardinalityType
<1>4. bucket' = [bucket EXCEPT !.in_flight = bucket.in_flight - 1]
  BY <1>1, <1>3, Fields DEF ReleaseSlot, IInv, Counted
<1>5. /\ bucket'.failures = bucket.failures /\ bucket'.lock = bucket.lock
      /\ bucket'.in_flight = bucket.in_flight - 1 /\ bucket'.tracked = bucket.tracked
      /\ bucket' \in AttemptState
  <2>1. bucket \in AttemptState /\ bucket.in_flight - 1 \in Nat
    BY <1>3, Fields
  <2>. QED
    BY <1>4, <2>1 DEF AttemptState
<1>6. TypeOK'
  BY <1>1, <1>2, <1>5 DEF IInv, TypeOK
<1>7. RoomKept' /\ Counted' /\ LockEarned(bucket)'
  BY <1>1, <1>3, <1>5, Fields, Finite, LoginLimiterAssumption
  DEF IInv, RoomKept, Counted, LockEarned
<1>8. InFlightExact'
  BY <1>3, <1>5, Fields DEF InFlightExact, Reserved
<1>9. BurstBounded'
  BY <1>1, <1>3, Fields, Finite, LoginLimiterAssumption DEF IInv, BurstBounded
<1>. QED
  BY <1>2, <1>5, <1>6, <1>7, <1>8, <1>9 DEF IInv

-----------------------------------------------------------------------------
(* Bearer checks, the cleanup task and the clock. *)

\* A Bearer check passes the lockout, and may fail later.
LEMMA BearerCheckKeeps ==
  ASSUME IInv, NEW b \in Bearer, BearerCheck(b)
  PROVE  IInv' /\ bucket'.lock = bucket.lock
<1>1. /\ pc[b] = "idle" /\ Go(b, "checked") /\ UNCHANGED <<bucket, own>>
      /\ bucket.failures + Cardinality(Pending) < MaxFailures
  BY DEF BearerCheck, At, Room, Pending
<1>2. /\ Pending' = Pending \cup {b} /\ b \notin Pending
      /\ Reserved' = Reserved \ {b} /\ b \notin Reserved
      /\ Verifying' = Verifying \ {b} /\ b \notin Verifying
      /\ pc' \in [Login \cup Bearer -> {"idle", "verifying", "ending", "checked"}]
      /\ Kinds'
  BY <1>1, Moved DEF Pending, Reserved, Verifying, At
<1>3. Cardinality(Pending') = Cardinality(Pending) + 1
  BY <1>2, CountIn, Finite
<1>4. Reserved' = Reserved /\ Verifying' = Verifying
  BY <1>2
<1>5. TypeOK'
  BY <1>1, <1>2 DEF IInv, TypeOK
<1>6. RoomKept'
  BY <1>1, <1>3, Fields, Finite, LoginLimiterAssumption DEF RoomKept
<1>7. Counted' /\ LockEarned(bucket)'
  BY <1>1 DEF IInv, Counted, LockEarned
<1>8. InFlightExact' /\ BurstBounded'
  BY <1>1, <1>4 DEF IInv, InFlightExact, Reserved, BurstBounded
<1>. QED
  BY <1>1, <1>2, <1>5, <1>6, <1>7, <1>8 DEF IInv

\* A Bearer check fails, or passes.
LEMMA BearerEndsKeeps ==
  ASSUME IInv, NEW b \in Bearer, BearerEnds(b)
  PROVE  IInv' /\ bucket'.lock >= bucket.lock
<1>1. /\ pc[b] = "checked" /\ Go(b, "idle") /\ own' = own
      /\ bucket' \in {RecordFailure(bucket), bucket}
  BY DEF BearerEnds, At
<1>2. /\ Pending' = Pending \ {b} /\ b \in Pending
      /\ Reserved' = Reserved \ {b} /\ b \notin Reserved
      /\ Verifying' = Verifying \ {b} /\ b \notin Verifying
      /\ pc' \in [Login \cup Bearer -> {"idle", "verifying", "ending", "checked"}]
      /\ Kinds'
  BY <1>1, Moved DEF Pending, Reserved, Verifying, At
<1>3. Cardinality(Pending') = Cardinality(Pending) - 1 /\ Cardinality(Pending) > 0
  BY <1>2, CountOut, Finite
<1>4. Reserved' = Reserved /\ Verifying' = Verifying
  BY <1>2
<1>5. /\ bucket' \in AttemptState /\ bucket'.failures \in {bucket.failures, bucket.failures + 1}
      /\ bucket'.in_flight = bucket.in_flight /\ (bucket.tracked => bucket'.tracked)
      /\ bucket'.lock >= bucket.lock /\ LockEarned(bucket')
  <2>1. CASE bucket' = bucket
    BY <2>1, Fields DEF IInv
  <2>2. CASE bucket' = RecordFailure(bucket)
    BY <1>2, <2>2, RoomFor, Fields, FailureRecorded DEF IInv
  <2>. QED
    BY <1>1, <2>1, <2>2
<1>6. TypeOK'
  BY <1>1, <1>2, <1>5 DEF IInv, TypeOK
<1>7. RoomKept' /\ Counted'
  BY <1>1, <1>3, <1>5, Fields, Finite, LoginLimiterAssumption DEF IInv, RoomKept, Counted
<1>8. LockEarned(bucket)'
  BY <1>5 DEF LockEarned
<1>9. InFlightExact' /\ BurstBounded'
  BY <1>1, <1>4, <1>5 DEF IInv, InFlightExact, Reserved, BurstBounded
<1>. QED
  BY <1>2, <1>5, <1>6, <1>7, <1>8, <1>9 DEF IInv

\* The cleanup task forgets a bucket that nobody is using.
LEMMA PruneKeeps ==
  ASSUME IInv, Prune
  PROVE  IInv' /\ bucket'.lock >= bucket.lock
<1>1. /\ bucket.lock = 0 /\ bucket.in_flight = 0
      /\ bucket' = Absent /\ own' = 0 /\ pc' = pc
  BY DEF Prune
<1>2. /\ bucket' \in AttemptState /\ bucket'.failures = 0 /\ bucket'.lock = 0
      /\ bucket'.in_flight = 0
  BY <1>1, LoginLimiterAssumption DEF Absent, AttemptState
<1>3. Pending' = Pending /\ Reserved' = Reserved /\ Verifying' = Verifying
  BY <1>1 DEF Pending, Reserved, Verifying, At
<1>4. TypeOK' /\ Kinds'
  BY <1>1, <1>2 DEF IInv, TypeOK, Kinds
<1>5. RoomKept' /\ Counted' /\ LockEarned(bucket)'
  BY <1>1, <1>2, <1>3, Fields, Finite, LoginLimiterAssumption
  DEF IInv, RoomKept, Counted, LockEarned
<1>6. InFlightExact'
  BY <1>1, <1>2, <1>3, Fields DEF InFlightExact, Reserved
<1>7. BurstBounded'
  BY <1>1, <1>3, Fields, Finite, LoginLimiterAssumption DEF BurstBounded
<1>. QED
  BY <1>1, <1>2, <1>4, <1>5, <1>6, <1>7 DEF IInv

\* Time passes.
LEMMA TickKeeps ==
  ASSUME IInv, Tick
  PROVE  IInv'
<1>1. /\ bucket' = [bucket EXCEPT !.lock = IF bucket.lock > 0 THEN bucket.lock - 1 ELSE 0,
                                  !.recent = IF bucket.recent > 0 THEN bucket.recent - 1 ELSE 0]
      /\ UNCHANGED <<pc, own>>
  BY DEF Tick
<1>. DEFINE lock == IF bucket.lock > 0 THEN bucket.lock - 1 ELSE 0
            recent == IF bucket.recent > 0 THEN bucket.recent - 1 ELSE 0
<1>2. /\ lock \in 0..MaxLockout /\ lock <= bucket.lock /\ lock \in Nat
      /\ recent \in 0..StaleAfter
  BY Fields, LoginLimiterAssumption
<1>. HIDE DEF lock, recent
<1>3. /\ bucket' \in AttemptState /\ bucket'.failures = bucket.failures
      /\ bucket'.in_flight = bucket.in_flight /\ bucket'.tracked = bucket.tracked
      /\ bucket'.lock = lock
  <2>1. bucket' = [bucket EXCEPT !.lock = lock, !.recent = recent]
    BY <1>1 DEF lock, recent
  <2>. QED
    BY <1>2, <2>1, Fields DEF AttemptState
<1>4. Pending' = Pending /\ Reserved' = Reserved /\ Verifying' = Verifying
  BY <1>1 DEF Pending, Reserved, Verifying, At
<1>5. TypeOK' /\ Kinds'
  BY <1>1, <1>3 DEF IInv, TypeOK, Kinds
<1>6. RoomKept' /\ Counted'
  BY <1>1, <1>3, <1>4 DEF IInv, RoomKept, Counted
<1>7. LockEarned(bucket)'
  <2>1. SUFFICES ASSUME lock > 0
                 PROVE  /\ bucket.failures >= FailureThreshold
                        /\ lock <= LockoutFor(bucket.failures - FailureThreshold)
    BY <1>3 DEF LockEarned
  <2>2. /\ bucket.failures >= FailureThreshold
        /\ bucket.lock <= LockoutFor(bucket.failures - FailureThreshold)
    BY <1>2, <2>1, Fields DEF IInv, LockEarned
  <2>3. bucket.failures - FailureThreshold \in Nat
    BY <2>2, Fields, LoginLimiterAssumption
  <2>4. LockoutFor(bucket.failures - FailureThreshold) \in 0..MaxLockout
    BY <2>3, Lockouts
  <2>. QED
    BY <1>2, <2>2, <2>4, Fields, LoginLimiterAssumption
<1>8. InFlightExact' /\ BurstBounded'
  BY <1>1, <1>3, <1>4 DEF IInv, InFlightExact, Reserved, BurstBounded
<1>. QED
  BY <1>5, <1>6, <1>7, <1>8 DEF IInv

-----------------------------------------------------------------------------
(* The invariant is inductive. *)

LEMMA InitIInv == Init => IInv
<1>. SUFFICES ASSUME Init PROVE IInv
  OBVIOUS
<1>1. bucket = Absent /\ pc = [a \in Login \cup Bearer |-> "idle"] /\ own = 0
  BY DEF Init
<1>2. /\ bucket \in AttemptState /\ bucket.failures = 0 /\ bucket.lock = 0
      /\ bucket.in_flight = 0
  BY <1>1, LoginLimiterAssumption DEF Absent, AttemptState
<1>3. /\ Pending = {} /\ Reserved = {} /\ Verifying = {}
  BY <1>1 DEF Pending, Reserved, Verifying, At
<1>4. /\ Cardinality(Pending) = 0 /\ Cardinality(Reserved) = 0
      /\ Cardinality(Verifying) = 0
  BY <1>3, FS_EmptySet
<1>5. TypeOK /\ Kinds
  BY <1>1, <1>2 DEF TypeOK, Kinds
<1>6. RoomKept /\ Counted /\ LockEarned(bucket)
  BY <1>1, <1>2, <1>4, LoginLimiterAssumption DEF RoomKept, Counted, LockEarned
<1>7. InFlightExact
  BY <1>2, <1>4 DEF InFlightExact, Reserved
<1>8. BurstBounded
  BY <1>1, <1>4, LoginLimiterAssumption DEF BurstBounded
<1>. QED
  BY <1>5, <1>6, <1>7, <1>8 DEF IInv

\* A step that lowers the lockout is the clock's or that of a login that succeeds.
LEMMA StepKeeps ==
  ASSUME IInv, [Next]_vars
  PROVE  /\ IInv'
         /\ bucket'.lock < bucket.lock => (Tick \/ \E l \in Login : Accept(l))
<1>. DEFINE Kept == IInv' /\ (bucket'.lock < bucket.lock => (Tick \/ \E l \in Login : Accept(l)))
<1>1. bucket.lock \in Nat /\ (IInv' => bucket'.lock \in Nat)
  <2>1. TypeOK /\ (IInv' => TypeOK')
    BY DEF IInv
  <2>. QED
    BY <2>1, LoginLimiterAssumption DEF TypeOK, AttemptState
<1>2. ASSUME NEW l \in Login, Begin(l) \/ Finish(l) PROVE Kept
  BY <1>1, <1>2, BeginKeeps, FinishKeeps
<1>3. ASSUME NEW l \in Login, Refuse(l) \/ Accept(l) PROVE Kept
  BY <1>1, <1>3, VerdictKeeps
<1>4. ASSUME NEW b \in Bearer, BearerCheck(b) \/ BearerEnds(b) PROVE Kept
  BY <1>1, <1>4, BearerCheckKeeps, BearerEndsKeeps
<1>5. CASE Prune
  BY <1>1, <1>5, PruneKeeps
<1>6. CASE Tick
  BY <1>6, TickKeeps
<1>7. CASE UNCHANGED vars
  <2>1. TypeOK' /\ Kinds' /\ RoomKept' /\ Counted' /\ LockEarned(bucket)'
    BY <1>7 DEF vars, IInv, TypeOK, Kinds, RoomKept, Counted, LockEarned, Pending
  <2>2. InFlightExact' /\ BurstBounded'
    BY <1>7 DEF vars, IInv, InFlightExact, BurstBounded, Verifying, At
  <2>. QED
    BY <1>1, <1>7, <2>1, <2>2 DEF IInv, vars
<1>. HIDE DEF Kept
<1>8. Kept
  BY <1>2, <1>3, <1>4, <1>5, <1>6, <1>7 DEF Next, Kept
<1>. QED
  BY <1>8 DEF Kept

(* Every reachable state of a bucket and its attempts satisfies the          *)
(* inductive invariant.                                                     *)
THEOREM Invariance == Spec => []IInv
<1>1. IInv /\ [Next]_vars => IInv'
  BY StepKeeps
<1>. QED
  BY <1>1, InitIInv, PTL DEF Spec

(* Type correctness of AttemptState: no lockout is longer than MAX_LOCKOUT.  *)
THEOREM Typed == Spec => []TypeOK
<1>1. IInv => TypeOK
  BY DEF IInv
<1>. QED
  BY <1>1, Invariance, PTL

(* try_begin_attempt: a burst of concurrent logins, of whatever size, gets   *)
(* no more guesses than the threshold, and past it one at a time.           *)
THEOREM Bursts == Spec => []BurstBounded
<1>1. IInv => BurstBounded
  BY DEF IInv
<1>. QED
  BY <1>1, Invariance, PTL

(* AttemptGuard: in_flight is exactly the number of logins in progress,      *)
(* however they end.                                                        *)
THEOREM Reservations == Spec => []InFlightExact
<1>1. IInv => InFlightExact
  BY DEF IInv
<1>. QED
  BY <1>1, Invariance, PTL

(* record_failure and prune_stale never shorten a lockout, for any base and  *)
(* any longest lockout: cooldown_for does not fall as failures rise.        *)
THEOREM Lockout == Spec => LockoutKept
<1>1. IInv /\ [Next]_vars
        => [bucket'.lock < bucket.lock => (Tick \/ \E l \in Login : Accept(l))]_vars
  BY StepKeeps
<1>. QED
  BY <1>1, Invariance, PTL DEF Spec, LockoutKept

=============================================================================
