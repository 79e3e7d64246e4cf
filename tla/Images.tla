--------------------------------- MODULE Images ---------------------------------
(***************************************************************************)
(* /v1/images (media/images.rs, media/codex_images.rs): a request takes    *)
(* one of a few permits and fails over along the members of an image pool. *)
(* A call spends the quota of an account for tens of seconds, so it is put *)
(* on record whatever becomes of it, and no second account is asked to     *)
(* draw what the first may be drawing already.                             *)
(*                                                                         *)
(* Cooldowns and backoff are in Failover; here a member is ready, cooling  *)
(* or misconfigured.  The pools are in Rotation, the refresh of tokens in  *)
(* TokenRefresh.                                                           *)
(***************************************************************************)
EXTENDS Integers, Sequences, FiniteSets

CONSTANTS
  Drawer,      \* members of image pools: a provider, and its image model
  Drawing,     \* requests for an image
  Selected,    \* what select_image may return: [members, direct]
  Limits,      \* ROUTER_MEDIA_MAX_CONCURRENCY may be one of these; zero counts as one
  Hosts        \* how many host models are configured

ASSUME ImagesAssumption ==
  /\ IsFiniteSet(Drawing)
  /\ Selected \subseteq [members : Seq(Drawer), direct : BOOLEAN]
  /\ Limits \subseteq Nat
  /\ Hosts \in Nat \ {0}

VARIABLES
  images,    \* MediaState.images_enabled
  limit,     \* how many permits there are
  permits,   \* permits left
  host,      \* MediaState.host_idx
  drawers,   \* health of each member
  drawing,   \* where each request is
  spent      \* history: [begun, tried, rows] of each request: generations that
             \* may have begun, attempts, and rows of the log

imageVars == <<images, limit, permits, host, drawers, drawing, spent>>

-----------------------------------------------------------------------------
Nobody == "nobody"

DrawingPlaces == {"none", "body", "pick", "creds", "call", "refresh", "stream"}

NoDrawing == [at |-> "none", admin |-> FALSE, members |-> <<>>, member |-> Nobody, from |-> 0,
              host |-> 0, refreshed |-> FALSE]

Unspent == [begun |-> 0, tried |-> 0, rows |-> 0]

Draws(r, d) == drawing' = [drawing EXCEPT ![r] = d]

\* Fault model: a request that leaves before it has a permit gives one back.
Holding_FromTheStart(r) == drawing[r].at # "none"

\* It has a permit.
Holding(r) == drawing[r].at \in {"pick", "creds", "call", "refresh", "stream"}

\* An attempt is in progress: its AttemptLog has not been sent.
Attempting(r) == drawing[r].at \in {"creds", "call", "refresh", "stream"}

\* host_idx, which a configuration with fewer hosts may leave behind.
FirstHost == IF host < Hosts THEN host ELSE Hosts - 1

\* attempt_hosts begins.
Calls(r, refreshed) ==
  Draws(r, [drawing[r] EXCEPT !.at = "call", !.from = FirstHost, !.host = FirstHost,
                              !.refreshed = refreshed])

-----------------------------------------------------------------------------
\* What becomes of a member.
Broken  == {"build_failed", "unauthorized", "forbidden", "no_host", "invalid_grant", "no_image"}
Cooling == {"send_failed", "retryable", "transient", "usage_limit", "timed_out", "read_failed"}

HealthAfter(m, outcome) ==
  IF outcome = "image" THEN "ready"
  ELSE IF outcome \in Broken THEN "misconfigured"
  ELSE IF outcome \in Cooling THEN "cooling" ELSE drawers[m]

\* Fault model: a timeout is like any other failure.
Final_ButTimeouts ==
  {"image", "read_failed", "relay", "rejected", "unknown", "refused", "incomplete"}

\* The outcomes that answer the client: no other member is tried.
Final == {"image", "timed_out", "read_failed", "relay", "rejected", "unknown", "refused", "incomplete"}

\* Upstream has accepted the request, or nobody knows, and has not said that it
\* did not draw.
MayHaveBegun(outcome) ==
  outcome \in {"image", "timed_out", "read_failed", "rejected", "unknown", "refused", "incomplete", "gone"}

Begins(outcome) == IF MayHaveBegun(outcome) THEN 1 ELSE 0

\* AttemptLog: once per attempt, by `finish` or when it is dropped.
OnRecord(r, outcome) ==
  [spent EXCEPT ![r] = [begun |-> @.begun + Begins(outcome), tried |-> @.tried,
                        rows  |-> @.rows + 1]]

\* An attempt has ended: on to the next member, or the answer.
Settles(r, outcome) ==
  LET m == drawing[r].member IN
  /\ drawers' = [drawers EXCEPT ![m] = HealthAfter(m, outcome)]
  /\ spent' = OnRecord(r, outcome)
  /\ IF outcome \in Final
     THEN Draws(r, NoDrawing) /\ permits' = permits + 1
     ELSE Draws(r, [drawing[r] EXCEPT !.at = "pick", !.member = Nobody]) /\ UNCHANGED permits

-----------------------------------------------------------------------------
\* admit: the switch is on, and somebody is calling.  Then the body is read.
AdmitDrawing(r, caller) ==
  /\ drawing[r].at = "none" /\ spent[r] = Unspent
  /\ images /\ caller # "anonymous"
  /\ Draws(r, [NoDrawing EXCEPT !.at = "body", !.admin = (caller = "admin")])
  /\ UNCHANGED <<images, limit, permits, host, drawers, spent>>

\* A bad request, an unknown model, a direct one of somebody else's than the
\* admin, or no permit: answered right away.
TurnDown(r) ==
  /\ drawing[r].at = "body"
  /\ Draws(r, NoDrawing)
  /\ UNCHANGED <<images, limit, permits, host, drawers, spent>>

AcquirePermit(r, s) ==
  /\ drawing[r].at = "body"
  /\ s.direct => drawing[r].admin
  /\ permits > 0
  /\ permits' = permits - 1
  /\ Draws(r, [drawing[r] EXCEPT !.at = "pick", !.members = s.members])
  /\ UNCHANGED <<images, limit, host, drawers, spent>>

\* A member that is not available is passed over without a trace; nobody left
\* is a 503.
PickMember(r) ==
  LET d == drawing[r] IN
  /\ d.at = "pick"
  /\ IF d.members = <<>> THEN Draws(r, NoDrawing) /\ permits' = permits + 1 /\ UNCHANGED spent
     ELSE LET m == Head(d.members) IN
          /\ UNCHANGED permits
          /\ IF drawers[m] # "ready"
             THEN Draws(r, [d EXCEPT !.members = Tail(@)]) /\ UNCHANGED spent
             ELSE /\ Draws(r, [d EXCEPT !.at = "creds", !.members = Tail(@), !.member = m])
                  /\ spent' = [spent EXCEPT ![r].tried = @ + 1]
  /\ UNCHANGED <<images, limit, host, drawers>>

LoadCredentials(r) ==
  /\ drawing[r].at = "creds"
  /\ Calls(r, FALSE)
  /\ UNCHANGED <<images, limit, permits, host, drawers, spent>>

\* attempt: what the call comes to before there is a body (classify_status).
Before == {"build_failed", "send_failed", "timed_out", "forbidden", "retryable", "relay"}

CallFails(r, outcome) ==
  /\ drawing[r].at = "call" /\ outcome \in Before
  /\ Settles(r, outcome)
  /\ UNCHANGED <<images, limit, host>>

\* attempt_hosts: this host is not supported (any more), on to the next one.
\* The 400 comes before any generation.
HostUnsupported(r) ==
  /\ drawing[r].at = "call"
  /\ IF drawing[r].host + 1 < Hosts
     THEN Draws(r, [drawing[r] EXCEPT !.host = @ + 1]) /\ UNCHANGED <<drawers, spent, permits>>
     ELSE Settles(r, "no_host")
  /\ UNCHANGED <<images, limit, host>>

\* A first 401 of a member with a refresh token.
CallUnauthorized(r, refreshable) ==
  /\ drawing[r].at = "call"
  /\ IF refreshable /\ ~drawing[r].refreshed
     THEN Draws(r, [drawing[r] EXCEPT !.at = "refresh"]) /\ UNCHANGED <<drawers, spent, permits>>
     ELSE Settles(r, "unauthorized")
  /\ UNCHANGED <<images, limit, host>>

\* refresh_and_persist_detached, and the same member once more.
RefreshEnds(r, result) ==
  /\ drawing[r].at = "refresh"
  /\ IF result = "ok"
     THEN Calls(r, TRUE) /\ UNCHANGED <<drawers, spent, permits>>
     ELSE Settles(r, result)
  /\ UNCHANGED <<images, limit, host>>

\* 2xx: the body is read to its end.
CallAccepted(r) ==
  /\ drawing[r].at = "call"
  /\ Draws(r, [drawing[r] EXCEPT !.at = "stream"])
  /\ UNCHANGED <<images, limit, permits, host, drawers, spent>>

\* parse_stream, if there is a whole body; a later host that was accepted is
\* remembered.
StreamEnds(r, outcome) ==
  /\ drawing[r].at = "stream"
  /\ host' = IF outcome \notin {"timed_out", "read_failed"} /\ drawing[r].host # drawing[r].from
             THEN drawing[r].host ELSE host
  /\ Settles(r, outcome)
  /\ UNCHANGED <<images, limit>>

\* The client leaves, and the future is dropped where it is.
DropDrawing(r) ==
  /\ drawing[r].at # "none"
  /\ Draws(r, NoDrawing)
  /\ permits' = permits + (IF Holding(r) THEN 1 ELSE 0)
  /\ spent' = IF drawing[r].at \in {"call", "stream"} THEN OnRecord(r, "gone")
              ELSE IF Attempting(r) THEN OnRecord(r, "left") ELSE spent
  /\ UNCHANGED <<images, limit, host, drawers>>

\* PATCH /admin/settings/images.
SwitchImages == images' = ~images /\ UNCHANGED <<limit, permits, host, drawers, drawing, spent>>

\* A cooldown ends, a member is edited or reset.
MemberReady(m) ==
  /\ drawers[m] # "ready"
  /\ drawers' = [drawers EXCEPT ![m] = "ready"]
  /\ UNCHANGED <<images, limit, permits, host, drawing, spent>>

-----------------------------------------------------------------------------
ImagesInit ==
  /\ images = FALSE /\ host = 0
  /\ limit \in {IF n = 0 THEN 1 ELSE n : n \in Limits} /\ permits = limit
  /\ drawers = [m \in Drawer |-> "ready"]
  /\ drawing = [r \in Drawing |-> NoDrawing]
  /\ spent = [r \in Drawing |-> Unspent]

ImagesNext ==
  \/ \E r \in Drawing :
       \/ \E c \in {"admin", "user", "anonymous"} : AdmitDrawing(r, c)
       \/ \E s \in Selected : AcquirePermit(r, s)
       \/ \E o \in Before : CallFails(r, o)
       \/ \E refreshable \in BOOLEAN : CallUnauthorized(r, refreshable)
       \/ \E result \in {"ok", "invalid_grant", "transient"} : RefreshEnds(r, result)
       \/ \E o \in {"image", "usage_limit", "rejected", "unknown", "refused", "no_image",
                    "incomplete", "timed_out", "read_failed"} : StreamEnds(r, o)
       \/ TurnDown(r) \/ PickMember(r) \/ LoadCredentials(r) \/ HostUnsupported(r) \/ CallAccepted(r) \/ DropDrawing(r)
  \/ \E m \in Drawer : MemberReady(m)
  \/ SwitchImages

ImagesSpec == ImagesInit /\ [][ImagesNext]_imageVars

-----------------------------------------------------------------------------
DrawingType ==
  [at : DrawingPlaces, admin : BOOLEAN, members : Seq(Drawer), member : Drawer \cup {Nobody},
   from : 0..(Hosts - 1), host : 0..(Hosts - 1), refreshed : BOOLEAN]

ImagesTypeOK ==
  /\ images \in BOOLEAN /\ limit \in Nat \ {0} /\ permits \in 0..limit /\ host \in 0..(Hosts - 1)
  /\ drawers \in [Drawer -> {"ready", "cooling", "misconfigured"}]
  /\ drawing \in [Drawing -> DrawingType]
  /\ spent \in [Drawing -> [begun : Nat, tried : Nat, rows : Nat]]

(* A prompt is drawn at most once, unless upstream said that it was not: no    *)
(* other account is asked while one may still be drawing.  And every attempt   *)
(* is on record once it is over, and its permit back, even if the client left  *)
(* in the middle (images.rs: generate, AttemptLog).                            *)
DrawnOnce ==
  /\ \A r \in Drawing :
       /\ spent[r].begun <= 1
       /\ spent[r].rows = spent[r].tried - (IF Attempting(r) THEN 1 ELSE 0)
  /\ permits = limit - Cardinality({r \in Drawing : Holding(r)})

=============================================================================
