------------------------------- MODULE Failover -------------------------------
(***************************************************************************)
(* Proxied requests failing over across the members of a pool              *)
(* (proxy/flow.rs, handle_proxy_inner), all sharing one map of health      *)
(* entries (AppState::runtime) with each other, with the admin handlers    *)
(* that reset or drop entries, with the background token refresh that      *)
(* marks them, and with the cleanup task that prunes them.                 *)
(*                                                                         *)
(* Each action is one stretch of a handler between two await points, or    *)
(* between two separate locks of the map: tasks run on several threads, so *)
(* another task's step can fall in either gap.  A log() row that follows   *)
(* its update of the map after one more await is written with the update:  *)
(* no other task reads it.                                                 *)
(***************************************************************************)
EXTENDS ProviderRuntime, Sequences

CONSTANTS
  Req,               \* request slots: the proxied requests in flight at once
  Key,               \* the (provider, model) pairs that own a health entry
  Provider,
  ProviderOf,        \* the provider half of a key
  Kind,              \* the ProviderKind of each provider
  Selections,        \* the member orders select() can hand to a request
  HeaderWaits,       \* windows a Retry-After header can ask for (capped)
  QuotaWaits,        \* windows a usage-limit body can ask for
  BackgroundPeriod   \* 6 h: the period of the background refresh

ASSUME FailoverAssumption ==
  /\ ProviderOf \in [Key -> Provider]
  /\ Kind \in [Provider -> {"passthrough", "codex", "commandcode"}]
  /\ Selections \subseteq Seq(Key)
  /\ HeaderWaits \subseteq 0..MaxWindow
  /\ QuotaWaits \subseteq 0..MaxWindow
  /\ BackgroundPeriod \in Nat

VARIABLES
  runtime,      \* AppState::runtime
  transport,    \* transport_cache() of the commandcode adapter
  storing,      \* the providers whose new Command Code key is being stored
  req,          \* the local state of each request's handler
  background,   \* time left until the background refresh may fail again
  past          \* history: what the upstreams have answered for each key

vars == <<runtime, transport, storing, req, background, past>>

-----------------------------------------------------------------------------
(* The local state of a handler.                                           *)
(*   via    which upstream call is outstanding: the first one, the retry   *)
(*          with refreshed credentials, or the retry over the other        *)
(*          Command Code transport                                         *)
(*   over   the transport build_request chose for the first call           *)
(*   cool   a cooldown computed under one lock of the map and recorded     *)
(*          under the next                                                 *)
(*   err    last_error_body changed and attribute_error has not seen it    *)
(*   tried  ~tried.is_empty();  wait: the least retry_in of `skipped`, and *)
(*          once answered, the Retry-After header                          *)
(*   calls, logs   upstream calls and log() rows for the current member    *)
(*   contacted     history: some upstream was called for this request      *)

NoWait == -1

Transports == {"provider", "generate"}

Request ==
  [pc : {"idle", "attribute", "check", "dispatch", "sent", "level", "penalise",
         "transform", "refresh", "exhausted", "done"},
   sel : Seq(Key), pos : Nat \ {0},
   via : {"first", "refresh", "transport"},
   over : Transports,
   cool : 0..MaxWindow,
   err : Texts,
   tried : BOOLEAN,
   wait : NoWait..MaxWindow,
   calls : Nat, logs : Nat,
   contacted : BOOLEAN,
   answer : {"none", "refused", "served", "embedded", "relayed", "unavailable", "gone"}]

Fresh(sel) ==
  [pc |-> "attribute", sel |-> sel, pos |-> 1, via |-> "first",
   over |-> "provider", cool |-> 0, err |-> "none", tried |-> FALSE, wait |-> NoWait,
   calls |-> 0, logs |-> 0, contacted |-> FALSE, answer |-> "none"]

Member(r) == req[r].sel[req[r].pos]

Put(r, q) == req' = [req EXCEPT ![r] = q]

At(r, place) == req[r].pc = place

\* One log() row for the current member.
Logged(q) == [q EXCEPT !.logs = @ + 1]

\* The next upstream call goes out.
Calling(q, via) ==
  [q EXCEPT !.pc = "sent", !.via = via, !.calls = @ + 1, !.contacted = TRUE]

\* The handler returns, and its frame is gone.
Answered(q, answer) ==
  [Fresh(<<>>) EXCEPT !.pc = "done", !.answer = answer, !.wait = q.wait,
                      !.calls = q.calls, !.logs = q.logs, !.contacted = q.contacted]

\* Fault model: the loop does not advance past the member that failed.
MoveOn_Stays(r, q, why) ==
  Put(r, [q EXCEPT !.pc = "attribute", !.err = "none", !.cool = 0])

\* `continue`: on to the next member.  The failure text may equal the one
\* attribute_error saw last, and then it is not attributed again.
MoveOn(r, q, why) ==
  \E err \in {why, "none"} :
    Put(r, [q EXCEPT !.pc = "attribute", !.pos = @ + 1, !.err = err, !.cool = 0])

Update(k, e) == runtime' = [runtime EXCEPT ![k] = e]

\* What the upstream answered for k, for the properties only.
Saw(k, what) ==
  past' = [past EXCEPT ![k] = IF @ = "faulted" THEN @ ELSE what]

-----------------------------------------------------------------------------
(* A request arrives and loads the published snapshot; select() orders the *)
(* members, or the model is unknown or not the caller's to address.        *)

Arrive(r) ==
  /\ req[r].pc \in {"idle", "done"}
  /\ \/ \E sel \in Selections : Put(r, Fresh(sel))
     \/ Put(r, Answered(Fresh(<<>>), "refused"))
  /\ UNCHANGED <<runtime, transport, storing, background, past>>

\* attribute_error, at the head of each iteration and after the last.
Attribute(r) ==
  /\ At(r, "attribute")
  /\ LET q == req[r] IN
       /\ Put(r, [q EXCEPT !.err = "none",
                           !.pc = IF q.pos <= Len(q.sel) THEN "check" ELSE "exhausted"])
       /\ IF q.err = "none" THEN UNCHANGED runtime
          ELSE LET k == q.sel[q.pos - 1] IN Update(k, NoteError(runtime[k], q.err))
  /\ UNCHANGED <<transport, storing, background, past>>

\* Fault model: finding a member unavailable renews its window.
Check_Renews(r) ==
  /\ At(r, "check")
  /\ LET k == Member(r) IN
       IF Available(runtime[k])
       THEN /\ Put(r, [req[r] EXCEPT !.pc = "dispatch"])
            /\ UNCHANGED runtime
       ELSE /\ Put(r, [req[r] EXCEPT !.pc = "attribute", !.pos = @ + 1])
            /\ Update(k, MarkMisconfigured(runtime[k]))
  /\ UNCHANGED <<transport, storing, background, past>>

\* `state.runtime.get`: a member that is cooling down is skipped.
Check(r) ==
  /\ At(r, "check")
  /\ LET q == [req[r] EXCEPT !.calls = 0, !.logs = 0]
         e == runtime[Member(r)]
     IN  IF Available(e)
         THEN Put(r, [q EXCEPT !.pc = "dispatch"])
         ELSE Put(r, [q EXCEPT !.pc = "attribute", !.pos = @ + 1,
                               !.wait = IF @ = NoWait \/ e.left < @ THEN e.left ELSE @])
  /\ UNCHANGED <<runtime, transport, storing, background, past>>

\* The stored credentials are read, after an await: the provider is not ready,
\* or build_request fails, or the request goes out.
Dispatch(r) ==
  /\ At(r, "dispatch")
  /\ LET q == req[r]
         over == transport[ProviderOf[Member(r)]]
     IN
       \/ MoveOn(r, q, IF q.tried THEN "none" ELSE "request")
          /\ UNCHANGED past
       \/ MoveOn(r, [q EXCEPT !.tried = TRUE], "request")
          /\ UNCHANGED past
       \/ Put(r, Calling([q EXCEPT !.tried = TRUE, !.over = over], "first"))
          /\ Saw(Member(r), "called")
  /\ UNCHANGED <<runtime, transport, storing, background>>

-----------------------------------------------------------------------------
(* The upstream's answers to an outstanding call. *)

\* http.execute fails: the cooldown is computed and recorded under one lock.
Unreachable(r) ==
  /\ At(r, "sent")
  /\ LET k == Member(r) IN
       /\ Update(k, RecordRetryable(runtime[k], NextCooldown(runtime[k])))
       /\ Saw(k, "faulted")
  /\ MoveOn(r, Logged(req[r]), "fault")
  /\ UNCHANGED <<transport, storing, background>>

\* ErrorClass::Success: the entry is cleared before the body is transformed.
Succeeds(r) ==
  /\ At(r, "sent")
  /\ Update(Member(r), RecordSuccess(runtime[Member(r)]))
  /\ Put(r, [req[r] EXCEPT !.pc = "transform"])
  /\ UNCHANGED <<transport, storing, background, past>>

\* transform_response: the client is served; or the body embeds an error with
\* a status, which is relayed; or with none, and the next member is tried.
Transform(r) ==
  /\ At(r, "transform")
  /\ \/ \E answer \in {"served", "embedded"} :
          Put(r, Answered(Logged(req[r]), answer))
     \/ MoveOn(r, Logged(req[r]), "request")
  /\ UNCHANGED <<runtime, transport, storing, background, past>>

\* Fault model: the retry's rejection is not logged.
Rejects_Unlogged(r) ==
  /\ At(r, "sent")
  /\ IF req[r].via = "first"
     THEN Put(r, Answered(Logged(req[r]), "relayed"))
     ELSE MoveOn(r, req[r], "request")
  /\ UNCHANGED <<runtime, transport, storing, background, past>>

\* ErrorClass::NonRetryable: relayed after a first call, moved past after a retry.
Rejects(r) ==
  /\ At(r, "sent")
  /\ IF req[r].via = "first"
     THEN Put(r, Answered(Logged(req[r]), "relayed"))
     ELSE MoveOn(r, Logged(req[r]), "request")
  /\ UNCHANGED <<runtime, transport, storing, background, past>>

\* ErrorClass::AuthExpired after a first call: codex with a refresh token goes
\* on to refresh it, anything else is misconfigured and the answer is relayed.
Unauthorized(r) ==
  /\ At(r, "sent")
  /\ req[r].via = "first"
  /\ LET k == Member(r) IN
       \/ /\ Kind[ProviderOf[k]] = "codex"
          /\ Put(r, [req[r] EXCEPT !.pc = "refresh"])
          /\ UNCHANGED <<runtime, past>>
       \/ /\ Update(k, MarkMisconfigured(runtime[k]))
          /\ Put(r, Answered(Logged(req[r]), "relayed"))
          /\ Saw(k, "faulted")
  /\ UNCHANGED <<transport, storing, background>>

\* ErrorClass::AuthExpired after a retry.
StillUnauthorized(r) ==
  /\ At(r, "sent")
  /\ req[r].via # "first"
  /\ Update(Member(r), MarkMisconfigured(runtime[Member(r)]))
  /\ MoveOn(r, Logged(req[r]), "fault")
  /\ Saw(Member(r), "faulted")
  /\ UNCHANGED <<transport, storing, background>>

\* refresh_and_persist_detached returns: new credentials and one retry (or its
\* build_request fails), InvalidGrant, or a transient error.
Refreshed(r) ==
  /\ At(r, "refresh")
  /\ LET q == req[r]
         k == Member(r)
     IN  \/ /\ Put(r, Calling(q, "refresh")) \/ MoveOn(r, Logged(q), "request")
            /\ UNCHANGED <<runtime, past>>
         \/ /\ \E e \in {MarkMisconfigured(runtime[k]),
                         RecordRetryable(runtime[k], NextCooldown(runtime[k]))} : Update(k, e)
            /\ MoveOn(r, Logged(q), "fault")
            /\ Saw(k, "faulted")
  /\ UNCHANGED <<transport, storing, background>>

\* ErrorClass::Retryable: the upstream says how long to wait, or the status is
\* 408, 429 or 5xx and the backoff level says it, or it is any other status.
Busy(r) ==
  /\ At(r, "sent")
  /\ LET q == req[r]
         explicit == CASE q.via = "first"     -> HeaderWaits \cup QuotaWaits \cup {FlatCooldown}
                       [] q.via = "refresh"   -> HeaderWaits \cup {FlatCooldown}
                       [] q.via = "transport" -> {}
     IN  \/ Put(r, [q EXCEPT !.pc = "level"])
         \/ \E cool \in explicit : Put(r, [q EXCEPT !.pc = "penalise", !.cool = cool])
  /\ Saw(Member(r), "faulted")
  /\ UNCHANGED <<runtime, transport, storing, background>>

\* 403 upgrade_required: while the remembered transport is the provider one,
\* remember the other and retry over it (or build_request fails); otherwise it
\* is any other refusal.
UpgradeRequired(r) ==
  /\ At(r, "sent")
  /\ req[r].via = "first"
  /\ LET p == ProviderOf[Member(r)] IN
       /\ Kind[p] = "commandcode"
       /\ \/ /\ transport[p] = "provider"
             /\ transport' = [transport EXCEPT ![p] = "generate"]
             /\ Put(r, Calling(req[r], "transport")) \/ MoveOn(r, Logged(req[r]), "request")
             /\ UNCHANGED past
          \/ /\ transport[p] = "generate"
             /\ Put(r, [req[r] EXCEPT !.pc = "penalise", !.cool = FlatCooldown])
             /\ Saw(Member(r), "faulted")
             /\ UNCHANGED transport
  /\ UNCHANGED <<runtime, storing, background>>

\* The level is read under one lock of the map, which creates the entry ...
ReadLevel(r) ==
  /\ At(r, "level")
  /\ LET e == runtime[Member(r)] IN
       /\ Update(Member(r), OrDefault(e))
       /\ Put(r, [req[r] EXCEPT !.pc = "penalise", !.cool = NextCooldown(e)])
  /\ UNCHANGED <<transport, storing, background, past>>

\* ... and the cooldown is recorded under the next.
Penalise(r) ==
  /\ At(r, "penalise")
  /\ Update(Member(r), RecordRetryable(runtime[Member(r)], req[r].cool))
  /\ MoveOn(r, Logged(req[r]), "fault")
  /\ UNCHANGED <<transport, storing, background, past>>

\* Fault model: the hint is given whenever some member was skipped.
GiveUp_AlwaysHints(r) ==
  /\ At(r, "exhausted")
  /\ Put(r, Answered(req[r], "unavailable"))
  /\ UNCHANGED <<runtime, transport, storing, background, past>>

\* Every member was skipped, not ready or failed: 503, with a Retry-After
\* only when nothing was attempted.
GiveUp(r) ==
  /\ At(r, "exhausted")
  /\ LET q == req[r] IN
       Put(r, [Answered(q, "unavailable") EXCEPT !.wait = IF q.tried THEN NoWait ELSE @])
  /\ UNCHANGED <<runtime, transport, storing, background, past>>

\* The client goes away and axum drops the handler's future.
Disconnect(r) ==
  /\ req[r].pc \notin {"idle", "done"}
  /\ Put(r, Answered(Fresh(<<>>), "gone"))
  /\ UNCHANGED <<runtime, transport, storing, background, past>>

-----------------------------------------------------------------------------
(* The other tasks that touch the map. *)

KeysOf(p) == {k \in Key : ProviderOf[k] = p}

\* Apply Op to every entry of provider p.
ForProvider(p, Op(_)) ==
  runtime' = [k \in Key |-> IF k \in KeysOf(p) THEN Op(runtime[k]) ELSE runtime[k]]

\* reset_provider_to_healthy, which an admin reaches by editing, reconnecting or
\* disconnecting the provider, or by a probe that succeeds.
AdminReset(p) ==
  /\ ForProvider(p, ResetToHealthy)
  /\ UNCHANGED <<transport, storing, req, background, past>>

\* Deleting the provider drops its entries.
DeleteProvider(p) ==
  /\ ForProvider(p, LAMBDA e : Absent)
  /\ UNCHANGED <<transport, storing, req, background, past>>

\* A Command Code key is stored: the transport is forgotten first, and the
\* entries are reset once the key has been written and the snapshot reloaded;
\* not so by a browser login, nor when the write fails.
StoreKey(p) ==
  /\ Kind[p] = "commandcode"
  /\ p \notin storing
  /\ transport' = [transport EXCEPT ![p] = "provider"]
  /\ storing' = storing \cup {p}
  /\ UNCHANGED <<runtime, req, background, past>>

KeyStored(p) ==
  /\ p \in storing
  /\ storing' = storing \ {p}
  /\ ForProvider(p, ResetToHealthy) \/ UNCHANGED runtime
  /\ UNCHANGED <<transport, req, background, past>>

\* A validate-model probe meets upgrade_required (what its retry does next is
\* AdminReset, or nothing).
ProbeUpgrade(p) ==
  /\ Kind[p] = "commandcode"
  /\ transport[p] = "provider"
  /\ transport' = [transport EXCEPT ![p] = "generate"]
  /\ UNCHANGED <<runtime, storing, req, background, past>>

\* The background refresh gets invalid_grant: mark_provider_misconfigured.
BackgroundInvalidGrant(p) ==
  /\ Kind[p] = "codex"
  /\ background[p] = 0
  /\ background' = [background EXCEPT ![p] = BackgroundPeriod]
  /\ ForProvider(p, MarkTracked)
  /\ past' = [k \in Key |-> IF k \in KeysOf(p) /\ Tracked(runtime[k]) THEN "faulted"
                                                                      ELSE past[k]]
  /\ UNCHANGED <<transport, storing, req>>

\* prune_idle, from the cleanup task.
Sweep ==
  /\ runtime' = [k \in Key |-> PruneIdle(runtime[k])]
  /\ UNCHANGED <<transport, storing, req, background, past>>

\* Time passes.
Tick ==
  /\ runtime' = [k \in Key |-> Age(runtime[k])]
  /\ background' = [p \in Provider |-> IF background[p] > 0 THEN background[p] - 1 ELSE 0]
  /\ UNCHANGED <<transport, storing, req, past>>

-----------------------------------------------------------------------------
Init ==
  /\ runtime = [k \in Key |-> Absent]
  /\ transport = [p \in Provider |-> "provider"]
  /\ req = [r \in Req |-> [Fresh(<<>>) EXCEPT !.pc = "idle"]]
  /\ storing = {}
  /\ background = [p \in Provider |-> 0]
  /\ past = [k \in Key |-> "untouched"]

\* What a request's own task does once it has started.
Handle(r) ==
  \/ Attribute(r) \/ Check(r) \/ Dispatch(r)
  \/ Unreachable(r) \/ Succeeds(r) \/ Transform(r) \/ Rejects(r)
  \/ Unauthorized(r) \/ StillUnauthorized(r) \/ Refreshed(r)
  \/ Busy(r) \/ UpgradeRequired(r) \/ ReadLevel(r) \/ Penalise(r)
  \/ GiveUp(r)

Admin(p) ==
  \/ AdminReset(p) \/ DeleteProvider(p) \/ StoreKey(p) \/ KeyStored(p)
  \/ ProbeUpgrade(p)

Next ==
  \/ \E r \in Req : Arrive(r) \/ Handle(r) \/ Disconnect(r)
  \/ \E p \in Provider : Admin(p) \/ BackgroundInvalidGrant(p)
  \/ Sweep \/ Tick

Spec == Init /\ [][Next]_vars

(* A handler's task is scheduled, and every upstream call ends: the client  *)
(* has a connect timeout and an idle read timeout.  The clock advances, and *)
(* the cleanup task's interval fires: it is much shorter than the quiet     *)
(* part of a refresh period, in which an entry can be pruned, so an entry   *)
(* that is prunable again and again is pruned.  Nothing is assumed of       *)
(* callers, of admins or of what the upstreams answer.                      *)
Fairness ==
  /\ \A r \in Req : WF_vars(Handle(r))
  /\ SF_vars(Sweep)
  /\ WF_vars(Tick)

FairSpec == Spec /\ Fairness

-----------------------------------------------------------------------------
TypeOK ==
  /\ runtime \in [Key -> Entry]
  /\ transport \in [Provider -> Transports]
  /\ storing \subseteq Provider
  /\ req \in [Req -> Request]
  /\ background \in [Provider -> 0..BackgroundPeriod]
  /\ past \in [Key -> {"untouched", "called", "faulted"}]

(* A member gets one upstream call and at most one retry, whatever the      *)
(* upstreams answer, and by the time its handler moves on or answers, a     *)
(* member that was called has exactly one row in the request log.           *)
AttemptsAccounted ==
  \A r \in Req : LET q == req[r] IN
    /\ q.calls <= 2 /\ q.logs <= 1
    /\ (q.pc \in {"attribute", "exhausted"} \/ (q.pc = "done" /\ q.answer # "gone"))
         => (q.logs = 1 <=> q.calls > 0)

(* SEC-03 and SEC-01: looking a member up never gives it an entry, and no   *)
(* entry is put in cooldown by anything but a fault of its own upstream: a  *)
(* rejected request, a body that cannot be transformed or a client that     *)
(* left never makes a member unavailable to other callers.                  *)
OnlyFaultsCool ==
  \A k \in Key :
    /\ Tracked(runtime[k]) => past[k] # "untouched"
    /\ runtime[k].status \in {"cooling", "misconfigured"} => past[k] = "faulted"

(* A 503 carries a Retry-After only when no upstream was called for this    *)
(* request, and then a positive one; a served, relayed or embedded answer   *)
(* had an upstream call behind it, and a refusal had none.                  *)
HonestAnswer ==
  \A r \in Req : LET q == req[r] IN
    At(r, "done") =>
      CASE q.answer = "unavailable" -> q.wait # NoWait => (q.wait > 0 /\ ~q.contacted)
        [] q.answer = "gone"        -> TRUE
        [] q.answer = "refused"     -> ~q.contacted
        [] OTHER                    -> q.contacted

(* An entry's escalation is lost only to a success or a reset, which make   *)
(* it healthy, to the deletion of its provider, or to pruning after a full  *)
(* IdleRetention of quiet: neither two failures recorded at once nor the    *)
(* cleanup task let a provider that keeps failing start again from the      *)
(* bottom of the ladder.                                                    *)
EscalationKept ==
  [][\A k \in Key :
       runtime'[k].level < runtime[k].level =>
         \/ runtime'[k] = Healthy
         \/ runtime'[k] = Absent /\ runtime[k].left = -IdleRetention
         \/ DeleteProvider(ProviderOf[k])]_vars

(* Every proxied request is answered or abandoned by its client: the        *)
(* failover loop ends whatever mixture of answers it meets.                 *)
EveryRequestEnds ==
  \A r \in Req : req[r].pc \notin {"idle", "done"} ~> At(r, "done")

(* BL-01: an entry that is out of service comes back into service without   *)
(* an admin or a restart, however long the upstream stays broken: skipping  *)
(* a member never extends its window.                                       *)
AlwaysReprobed ==
  \A k \in Key : ~Available(runtime[k]) ~> Available(runtime[k])

(* SEC-03: once traffic stops, the map empties, so it is bounded by recent  *)
(* failures and not by every pair ever called: neither the admin's resets   *)
(* nor the background refresh keep a dead entry alive.                      *)
Quiet == \A r \in Req : req[r].pc \in {"idle", "done"}

QuietMapEmpties ==
  <>[]Quiet => <>[](\A k \in Key : ~Tracked(runtime[k]))

-----------------------------------------------------------------------------
(* Three things the source and its docs say of the gateway that a run of    *)
(* the code breaks.                                                         *)

(* "so a spent 5h/weekly quota isn't re-probed every few minutes"           *)
(* (proxy/flow.rs): a window longer than the backoff ladder can give, which *)
(* only the upstream's own announcement imposes, runs out by the clock or   *)
(* is lifted by a success or a reset, and is never cut to a shorter one.    *)
QuotaHonoured ==
  [][\A k \in Key :
       (runtime[k].left > MaxCooldown /\ ~Available(runtime'[k]))
         => runtime'[k].left >= Age(runtime[k]).left]_vars

(* "retry the same provider once through the generate transport before the  *)
(* normal cooldown path" (proxy/flow.rs): upgrade_required from the         *)
(* provider transport is never answered with a cooldown right away.         *)
FallbackFirst ==
  [][\A r \in Req :
       (UpgradeRequired(r) /\ req[r].over = "provider") => req'[r].pc # "penalise"]_vars

=============================================================================
