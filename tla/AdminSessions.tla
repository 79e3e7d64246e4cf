----------------------------- MODULE AdminSessions -----------------------------
(***************************************************************************)
(* The admin's password and the sessions it opens: rows of admin_users and *)
(* admin_sessions (admin/auth/session.rs, admin/auth/routes.rs), the       *)
(* middleware that lets requests in (auth/middleware.rs), and `1router     *)
(* setup --reset-admin-password`, which writes both tables from a process  *)
(* of its own (onboarding.rs).  No two statements share a transaction.     *)
(* The limit on failed attempts is in LoginLimiter.                        *)
(***************************************************************************)
EXTENDS Integers

CONSTANTS
  Browser,    \* clients of the admin API
  Token,      \* session tokens, in the order they are made
  Password,   \* passwords
  Ttl,        \* SESSION_TTL
  Lifetime,   \* ABSOLUTE_LIFETIME
  Until       \* bound: the clock stops here

ASSUME SessionAssumption ==
  /\ Token \subseteq Nat \ {0} /\ Password # {}
  /\ Ttl \in Nat \ {0} /\ Lifetime \in Nat /\ Ttl <= Lifetime
  /\ Until \in Nat

VARIABLES
  now,        \* Utc::now()
  password,   \* admin_users: what its hash is of
  sessions,   \* admin_sessions: [token, created, expires]
  cookie,     \* the token each browser keeps, 0 if it has none
  visit,      \* the request each browser has in progress
  reset,      \* `1router setup --reset-admin-password`
  deleted     \* history: tokens whose rows were deleted

sessionVars == <<now, password, sessions, cookie, visit, reset, deleted>>

-----------------------------------------------------------------------------
NoCookie == 0

NoRow == [token |-> NoCookie, created |-> 0, expires |-> 0]

VisitPlaces == {"away", "verify", "create", "renew", "handle", "reverify", "rehash", "sweep"}

Tasks == {"login", "view", "logout", "password"}

AnyPassword == CHOOSE p \in Password : TRUE

\* row: the session as it was read; right: whether the password given is the
\* one that was read; new: the one that is to replace it.
Away == [at |-> "away", task |-> "view", row |-> NoRow, right |-> FALSE, new |-> AnyPassword]

Moves(b, v) == visit' = [visit EXCEPT ![b] = v]

Leaves(b, v, place) == Moves(b, [v EXCEPT !.at = place])

Made == {s.token : s \in sessions} \cup deleted

Delete(gone) ==
  /\ sessions' = sessions \ gone
  /\ deleted' = deleted \cup {s.token : s \in gone}

-----------------------------------------------------------------------------
\* POST /admin/auth/login: the row is read, ...
Login(b, given) ==
  /\ visit[b].at = "away"
  /\ Moves(b, [Away EXCEPT !.at = "verify", !.task = "login", !.right = (given = password)])
  /\ UNCHANGED <<now, password, sessions, cookie, reset, deleted>>

\* ... the password verified on another thread, ...
Verify(b) ==
  /\ visit[b].at = "verify"
  /\ IF visit[b].right THEN Leaves(b, visit[b], "create") ELSE Moves(b, Away)
  /\ UNCHANGED <<now, password, sessions, cookie, reset, deleted>>

\* ... and a session created, under a random token.
CreateSession(b) ==
  /\ visit[b].at = "create"
  /\ \E t \in Token \ Made :
       /\ \A u \in Token \ Made : t <= u
       /\ sessions' = sessions \cup {[token |-> t, created |-> now, expires |-> now + Ttl]}
       /\ cookie' = [cookie EXCEPT ![b] = t]
  /\ Moves(b, Away)
  /\ UNCHANGED <<now, password, reset, deleted>>

\* validate_session (a request that is not a GET needs a header too).  A request
\* without a session may have the shared secret, or an identity on the admins'
\* list (row = NoRow).
Present(b, task, secret) ==
  LET live == {s \in sessions : s.token = cookie[b] /\ s.expires > now} IN
  /\ visit[b].at = "away"
  /\ \/ \E s \in live : ~secret /\ Moves(b, [Away EXCEPT !.at = "renew", !.task = task, !.row = s])
     \/ live = {} /\ secret /\ Moves(b, [Away EXCEPT !.at = "handle", !.task = task])
  /\ UNCHANGED <<now, password, sessions, cookie, reset, deleted>>

\* Sliding, up to a week after the login.
NewExpiry(s, time) ==
  IF time + Ttl < s.created + Lifetime THEN time + Ttl ELSE s.created + Lifetime

\* More than half of the session, as it was read, is over.
WantsRenewal(s, time) ==
  /\ 2 * (s.expires - time) <= s.expires - s.created
  /\ NewExpiry(s, time) > s.expires

\* Fault model: a renewal puts the row back.
Renewed_Upsert(table, s, time) ==
  {r \in table : r.token # s.token} \cup {[s EXCEPT !.expires = NewExpiry(s, time)]}

\* UPDATE: nothing happens to a row that is gone.
Renewed(table, s, time) ==
  {IF r.token = s.token THEN [r EXCEPT !.expires = NewExpiry(s, time)] ELSE r : r \in table}

\* renew_if_needed; an error of its UPDATE is ignored.
Renew(b) ==
  LET s == visit[b].row IN
  /\ visit[b].at = "renew"
  /\ sessions' = IF WantsRenewal(s, now) THEN Renewed(sessions, s, now) ELSE sessions
  /\ Leaves(b, visit[b], "handle")
  /\ UNCHANGED <<now, password, cookie, reset, deleted>>

-----------------------------------------------------------------------------
\* Any other handler.
HandleOther(b) ==
  /\ visit[b].at = "handle" /\ visit[b].task = "view"
  /\ Moves(b, Away)
  /\ UNCHANGED <<now, password, sessions, cookie, reset, deleted>>

\* POST /admin/auth/logout: every session goes.
Logout(b) ==
  /\ visit[b].at = "handle" /\ visit[b].task = "logout"
  /\ Delete(sessions)
  /\ cookie' = [cookie EXCEPT ![b] = NoCookie]
  /\ Moves(b, Away)
  /\ UNCHANGED <<now, password, reset>>

\* PUT /admin/auth/password: the row is read, ...
ReadPassword(b, given) ==
  /\ visit[b].at = "handle" /\ visit[b].task = "password"
  /\ Moves(b, [visit[b] EXCEPT !.at = "reverify", !.right = (given = password)])
  /\ UNCHANGED <<now, password, sessions, cookie, reset, deleted>>

\* ... the current password verified, ...
VerifyCurrent(b, new) ==
  /\ visit[b].at = "reverify"
  /\ IF visit[b].right
     THEN Moves(b, [visit[b] EXCEPT !.at = "rehash", !.new = new])
     ELSE Moves(b, Away)
  /\ UNCHANGED <<now, password, sessions, cookie, reset, deleted>>

\* ... the new one written, ...
WritePassword(b) ==
  /\ visit[b].at = "rehash"
  /\ password' = visit[b].new
  /\ Leaves(b, visit[b], "sweep")
  /\ UNCHANGED <<now, sessions, cookie, reset, deleted>>

\* ... and every session but the request's own deleted.
SweepOthers(b) ==
  /\ visit[b].at = "sweep"
  /\ Delete({s \in sessions : s.token # visit[b].row.token})
  /\ Moves(b, Away)
  /\ UNCHANGED <<now, password, cookie, reset>>

\* The client leaves at an await, or a statement fails.
Abandon(b) ==
  /\ visit[b].at # "away"
  /\ Moves(b, Away)
  /\ UNCHANGED <<now, password, sessions, cookie, reset, deleted>>

-----------------------------------------------------------------------------
\* reset_admin_password.
ResetPassword(new) ==
  /\ ~reset
  /\ password' = new /\ reset' = TRUE
  /\ UNCHANGED <<now, sessions, cookie, visit, deleted>>

ResetSessions ==
  /\ reset
  /\ Delete(sessions)
  /\ reset' = FALSE
  /\ UNCHANGED <<now, password, cookie, visit>>

\* The command ends between the two.
ResetFails == reset /\ reset' = FALSE /\ UNCHANGED <<now, password, sessions, cookie, visit, deleted>>

\* delete_expired, at the start and every ten minutes.
DeleteExpired ==
  /\ Delete({s \in sessions : s.expires < now})
  /\ UNCHANGED <<now, password, cookie, visit, reset>>

PassTime == now < Until /\ now' = now + 1 /\ UNCHANGED <<password, sessions, cookie, visit, reset, deleted>>

-----------------------------------------------------------------------------
SessionsInit ==
  /\ now = 0 /\ password = AnyPassword
  /\ sessions = {} /\ deleted = {}
  /\ cookie = [b \in Browser |-> NoCookie]
  /\ visit = [b \in Browser |-> Away]
  /\ reset = FALSE

SessionsNext ==
  \/ \E b \in Browser :
       \/ \E p \in Password : Login(b, p) \/ ReadPassword(b, p) \/ VerifyCurrent(b, p)
       \/ \E t \in Tasks \ {"login"}, secret \in BOOLEAN : Present(b, t, secret)
       \/ Verify(b) \/ CreateSession(b) \/ Renew(b) \/ HandleOther(b) \/ Logout(b)
       \/ WritePassword(b) \/ SweepOthers(b) \/ Abandon(b)
  \/ \E p \in Password : ResetPassword(p)
  \/ ResetSessions \/ ResetFails \/ DeleteExpired \/ PassTime

SessionsSpec == SessionsInit /\ [][SessionsNext]_sessionVars

-----------------------------------------------------------------------------
SessionRow == [token : Token, created : 0..Until, expires : Nat]

SessionsTypeOK ==
  /\ now \in 0..Until /\ password \in Password
  /\ sessions \subseteq SessionRow /\ deleted \subseteq Token
  /\ \A s, r \in sessions : s.token = r.token => s = r
  /\ cookie \in [Browser -> Token \cup {NoCookie}]
  /\ visit \in [Browser -> [at : VisitPlaces, task : Tasks, row : SessionRow \cup {NoRow},
                            right : BOOLEAN, new : Password]]
  /\ reset \in BOOLEAN

(* A session that a logout, a change or a reset of the password or its expiry  *)
(* has ended stays ended, though requests that were let in before go on to     *)
(* renew it; and no renewal takes a session past its absolute lifetime         *)
(* (session.rs: renew_if_needed).                                              *)
SessionsEnd ==
  \A s \in sessions : s.token \notin deleted /\ s.expires <= s.created + Lifetime

=============================================================================
