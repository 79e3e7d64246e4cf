----------------------------- MODULE LoginLimiter -----------------------------
(***************************************************************************)
(* The limiter of admin credential attempts (admin/auth/rate_limit.rs) and *)
(* the two handlers that share one bucket of it: the password login        *)
(* (admin/auth/routes.rs), which reserves its attempt before the slow      *)
(* password check, and the Bearer check of the admin API                   *)
(* (auth/middleware.rs), which does not.  Buckets are independent, so this *)
(* is the life of one.                                                     *)
(*                                                                         *)
(* Time is relative: `lock` is what remains of the lockout, and `recent`   *)
(* what remains until the last failure goes stale.                         *)
(***************************************************************************)
EXTENDS Integers, FiniteSets

CONSTANTS
  Login,             \* slots of password logins in progress
  Bearer,            \* slots of Bearer checks in progress
  FailureThreshold,  \* 5
  BaseLockout,       \* 2 s
  MaxLockout,        \* 300 s
  StaleAfter,        \* 900 s
  MaxFailures        \* bound: `failures` counts in a u32

ASSUME LoginLimiterAssumption ==
  /\ IsFiniteSet(Login) /\ IsFiniteSet(Bearer)
  /\ Login \cap Bearer = {}
  /\ FailureThreshold \in Nat \ {0}
  /\ BaseLockout \in Nat \ {0}
  /\ MaxLockout \in Nat /\ MaxLockout >= BaseLockout
  /\ StaleAfter \in Nat
  /\ MaxFailures \in Nat

VARIABLES
  bucket,  \* the AttemptState of the address
  pc,      \* where each attempt is
  own      \* history: login failures since `failures` was last zero

vars == <<bucket, pc, own>>

-----------------------------------------------------------------------------
AttemptState ==
  [tracked : BOOLEAN, failures : 0..MaxFailures, in_flight : Nat,
   lock : 0..MaxLockout, recent : 0..StaleAfter]

Absent == [tracked |-> FALSE, failures |-> 0, in_flight |-> 0, lock |-> 0, recent |-> 0]

At(a, place) == pc[a] = place

Go(a, place) == pc' = [pc EXCEPT ![a] = place]

\* Fault model: the lockout is not capped.
LockoutFor_Uncapped(n) ==
  BaseLockout * 2 ^ (IF n <= 1 THEN 0 ELSE IF n > 16 THEN 15 ELSE n - 1)

\* cooldown_for: 2 s doubled with every failure from the second one over the
\* threshold, up to the longest lockout.
LockoutFor(n) ==
  LET secs == BaseLockout * 2 ^ (IF n <= 1 THEN 0 ELSE IF n > 16 THEN 15 ELSE n - 1)
  IN  IF secs < MaxLockout THEN secs ELSE MaxLockout

\* record_failure: from the threshold on, every failure locks the bucket anew.
RecordFailure(s) ==
  LET failures == s.failures + 1
  IN  [s EXCEPT !.tracked = TRUE, !.failures = failures, !.recent = StaleAfter,
                !.lock = IF failures >= FailureThreshold
                         THEN LockoutFor(failures - FailureThreshold) ELSE @]

\* record_success.
RecordSuccess(s) == [s EXCEPT !.failures = 0, !.lock = 0]

\* The drop of an AttemptGuard.
ReleaseSlot(s) ==
  IF s.tracked /\ s.in_flight > 0 THEN [s EXCEPT !.in_flight = @ - 1] ELSE s

\* The bound: no attempt starts that could take the counter past MaxFailures.
Room ==
  bucket.failures + Cardinality({a \in Login \cup Bearer : pc[a] \in {"verifying", "checked"}})
    < MaxFailures

-----------------------------------------------------------------------------
(* A password login. *)

\* Fault model: the lockout is checked and nothing is reserved.
Begin_Unreserved(l) ==
  /\ At(l, "idle") /\ Room
  /\ bucket.lock = 0
  /\ bucket' = [bucket EXCEPT !.tracked = TRUE, !.in_flight = @ + 1]
  /\ Go(l, "verifying")
  /\ UNCHANGED own

\* try_begin_attempt: the check and the reservation are one step.  An attempt
\* that is turned away changes nothing.
Begin(l) ==
  /\ At(l, "idle") /\ Room
  /\ bucket.lock = 0
  /\ IF bucket.failures >= FailureThreshold
     THEN bucket.in_flight = 0
     ELSE bucket.failures + bucket.in_flight < FailureThreshold
  /\ bucket' = [bucket EXCEPT !.tracked = TRUE, !.in_flight = @ + 1]
  /\ Go(l, "verifying")
  /\ UNCHANGED own

\* The password is wrong.
Refuse(l) ==
  /\ At(l, "verifying")
  /\ bucket' = RecordFailure(bucket)
  /\ own' = own + 1
  /\ Go(l, "ending")

\* The password is right: the session is created while the slot is still held.
Accept(l) ==
  /\ At(l, "verifying")
  /\ bucket' = RecordSuccess(bucket)
  /\ own' = 0
  /\ Go(l, "ending")

\* Fault model: the slot is given back only by a handler that runs to its end.
Finish_Leaks(l) ==
  /\ pc[l] \in {"verifying", "ending"}
  /\ bucket' = IF At(l, "ending") THEN ReleaseSlot(bucket) ELSE bucket
  /\ Go(l, "idle")
  /\ UNCHANGED own

\* The handler returns; or the database fails, or the client leaves, before the
\* password was checked.  Each of them drops the guard.
Finish(l) ==
  /\ pc[l] \in {"verifying", "ending"}
  /\ bucket' = ReleaseSlot(bucket)
  /\ Go(l, "idle")
  /\ UNCHANGED own

-----------------------------------------------------------------------------
(* A Bearer check. *)

\* Fault model: an attempt that is turned away starts the lockout over.
BearerCheck_Renews(b) ==
  /\ At(b, "idle") /\ Room
  /\ IF bucket.lock = 0
     THEN UNCHANGED bucket /\ Go(b, "checked")
     ELSE /\ bucket' = [bucket EXCEPT !.lock = LockoutFor(bucket.failures - FailureThreshold)]
          /\ UNCHANGED pc
  /\ UNCHANGED own

\* is_locked_out.
BearerCheck(b) ==
  /\ At(b, "idle") /\ Room
  /\ bucket.lock = 0
  /\ Go(b, "checked")
  /\ UNCHANGED <<bucket, own>>

\* Fault model: a secret that matches clears the bucket, as a login does.
BearerEnds_Clears(b) ==
  /\ At(b, "checked")
  /\ bucket' \in {RecordFailure(bucket), RecordSuccess(bucket)}
  /\ Go(b, "idle")
  /\ UNCHANGED own

\* secret_matches says no, or yes, which leaves the bucket alone.
BearerEnds(b) ==
  /\ At(b, "checked")
  /\ bucket' \in {RecordFailure(bucket), bucket}
  /\ Go(b, "idle")
  /\ UNCHANGED own

-----------------------------------------------------------------------------
\* Fault model: a stale bucket is cleared and not forgotten.
Prune_Clears ==
  /\ bucket.tracked
  /\ bucket.lock = 0 /\ bucket.recent = 0 /\ bucket.in_flight = 0
  /\ bucket' = [Absent EXCEPT !.tracked = TRUE]
  /\ own' = 0
  /\ UNCHANGED pc

\* prune_stale, from the cleanup task.
Prune ==
  /\ bucket.tracked
  /\ bucket.lock = 0 /\ bucket.recent = 0 /\ bucket.in_flight = 0
  /\ bucket' = Absent
  /\ own' = 0
  /\ UNCHANGED pc

Tick ==
  /\ bucket.lock > 0 \/ bucket.recent > 0
  /\ bucket' = [bucket EXCEPT !.lock = IF @ > 0 THEN @ - 1 ELSE 0,
                              !.recent = IF @ > 0 THEN @ - 1 ELSE 0]
  /\ UNCHANGED <<pc, own>>

Init ==
  /\ bucket = Absent
  /\ pc = [a \in Login \cup Bearer |-> "idle"]
  /\ own = 0

Next ==
  \/ \E l \in Login : Begin(l) \/ Refuse(l) \/ Accept(l) \/ Finish(l)
  \/ \E b \in Bearer : BearerCheck(b) \/ BearerEnds(b)
  \/ Prune \/ Tick

Spec == Init /\ [][Next]_vars

(* The clock advances and the cleanup task's interval fires.  Attempts come *)
(* and go, succeed, fail and hang as they please.                           *)
FairSpec == Spec /\ WF_vars(Tick) /\ WF_vars(Prune)

-----------------------------------------------------------------------------
TypeOK ==
  /\ bucket \in AttemptState
  /\ pc \in [Login \cup Bearer -> {"idle", "verifying", "ending", "checked"}]
  /\ own \in Nat

Verifying == {l \in Login : At(l, "verifying")}

(* SEC-05: at most FailureThreshold logins are outstanding or failed, so a  *)
(* burst of concurrent logins gets no more guesses than a sequence, and     *)
(* past the threshold one login is let through at a time.  Failures that    *)
(* the Bearer check put into the bucket only make it stricter.              *)
BurstBounded ==
  IF own < FailureThreshold
  THEN own + Cardinality(Verifying) <= FailureThreshold
  ELSE Cardinality(Verifying) <= 1

(* A reservation is given back exactly once, by whatever path its handler   *)
(* ends, and is never forgotten by the cleanup: a leaked one would keep the *)
(* admin out past the threshold for good, and a lost one would let in two.  *)
InFlightExact ==
  bucket.in_flight = Cardinality({l \in Login : pc[l] \in {"verifying", "ending"}})

(* A lockout ends by the clock or by a login that succeeds, and is never    *)
(* cut short: neither by the cleanup task nor by a later failure.           *)
LockoutKept ==
  [][bucket'.lock < bucket.lock => (Tick \/ \E l \in Login : Accept(l))]_vars

(* A lockout ends: those who keep trying while it lasts do not renew it.    *)
LockoutEnds == bucket.lock > 0 ~> bucket.lock = 0

(* SEC-19: once the attempts stop, the bucket is forgotten.                 *)
Quiet == \A a \in Login \cup Bearer : At(a, "idle")

QuietBucketForgotten == <>[]Quiet => <>[](~bucket.tracked)

=============================================================================
