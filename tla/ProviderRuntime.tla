---------------------------- MODULE ProviderRuntime ----------------------------
(***************************************************************************)
(* The health entry the gateway keeps for one (provider, model) pair       *)
(* (core/runtime.rs) and the backoff policy that sizes its cooldowns       *)
(* (proxy/backoff.rs), as operators on one entry.  The state machines that *)
(* hold a map of entries extend this module.                               *)
(*                                                                         *)
(* Time is relative: an entry stores `left`, the time that remains until   *)
(* `unavailable_until`, and a clock tick ages every entry.  It goes below  *)
(* zero down to -IdleRetention, the point after which prune_idle treats    *)
(* the entry as carrying no information; `unavailable_until: None` is that *)
(* same floor, because is_available, retry_in and prune_idle cannot tell   *)
(* the two apart.                                                          *)
(***************************************************************************)
EXTENDS Integers

CONSTANTS
  BaseCooldown,             \* 2 s: the first cooldown of the exponential ladder
  MaxCooldown,              \* 300 s: where the ladder is capped
  MaxBackoffLevel,          \* 15: the largest exponent the ladder uses
  FlatCooldown,             \* 30 s: the cooldown of an unmatched status
  MisconfiguredRetryAfter,  \* 300 s: the window of a Misconfigured entry
  IdleRetention,            \* 900 s: how long an elapsed entry is kept
  LevelMax,                 \* 255: the largest value of backoff_level, a u8
  MaxWindow                 \* the longest window any answer can impose

ASSUME ProviderRuntimeAssumption ==
  /\ BaseCooldown \in Nat \ {0}
  /\ MaxBackoffLevel \in Nat
  /\ IdleRetention \in Nat
  /\ LevelMax \in Nat \ {0}
  /\ MaxWindow \in Nat
  /\ {MaxCooldown, FlatCooldown, MisconfiguredRetryAfter} \subseteq 0..MaxWindow

-----------------------------------------------------------------------------
(* A missing map entry is the status "absent".  last_error is abstracted to *)
(* what produced the text: a fault of the provider, or a request that said  *)
(* nothing about the provider's health.                                     *)

Statuses == {"absent", "healthy", "cooling", "misconfigured"}

Texts == {"none", "fault", "request"}

Entry == [status : Statuses,
          level  : 0..LevelMax,
          left   : -IdleRetention..MaxWindow,
          why    : Texts]

Absent == [status |-> "absent", level |-> 0, left |-> -IdleRetention, why |-> "none"]

Healthy == [Absent EXCEPT !.status = "healthy"]

Tracked(e) == e.status # "absent"

\* DashMap's entry(key).or_default().
OrDefault(e) == IF Tracked(e) THEN e ELSE Healthy

Available(e) == e.left <= 0

-----------------------------------------------------------------------------
(* The backoff policy. *)

Capped(secs) == IF secs \in 0..MaxCooldown THEN secs ELSE MaxCooldown

CooldownFor(level) ==
  LET exp == IF level <= 1 THEN 0 ELSE level - 1
  IN  Capped(BaseCooldown * 2 ^ (IF exp > MaxBackoffLevel THEN MaxBackoffLevel ELSE exp))

\* `st.backoff_level + 1` of proxy/flow.rs is u8 arithmetic: it wraps.
NextLevel(e) == (OrDefault(e).level + 1) % (LevelMax + 1)

NextCooldown(e) == CooldownFor(NextLevel(e))

-----------------------------------------------------------------------------
(* The transitions of one entry. *)

RecordSuccess(e) == Healthy

\* Fault model: the level is not saturated.
RecordRetryable_Unsaturated(e, cooldown) ==
  [OrDefault(e) EXCEPT !.status = "cooling", !.level = @ + 1, !.left = cooldown]

RecordRetryable(e, cooldown) ==
  [OrDefault(e) EXCEPT !.status = "cooling",
                       !.level  = IF @ < LevelMax THEN @ + 1 ELSE @,
                       !.left   = cooldown]

\* Fault model: a rejected credential starts the entry from the default.
MarkMisconfigured_Forgets(e) ==
  [Healthy EXCEPT !.status = "misconfigured", !.left = MisconfiguredRetryAfter]

MarkMisconfigured(e) ==
  [OrDefault(e) EXCEPT !.status = "misconfigured", !.left = MisconfiguredRetryAfter]

\* Fault model: entry().or_default() where the code has get_mut().
NoteError_Creates(e, why) == [OrDefault(e) EXCEPT !.why = why]

NoteError(e, why) == IF Tracked(e) THEN [e EXCEPT !.why = why] ELSE e

ResetToHealthy(e) == IF Tracked(e) THEN Healthy ELSE e

MarkTracked(e) == IF Tracked(e) THEN MarkMisconfigured(e) ELSE e

\* Fault model: only entries that once cooled are pruned.
PruneIdle_KeepsHealthy(e) ==
  IF e.status = "healthy" \/ e.left > -IdleRetention THEN e ELSE Absent

PruneIdle(e) == IF e.left > -IdleRetention THEN e ELSE Absent

Age(e) == IF e.left > -IdleRetention THEN [e EXCEPT !.left = @ - 1] ELSE e

=============================================================================
