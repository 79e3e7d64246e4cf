------------------------------ MODULE OAuthLogins ------------------------------
(***************************************************************************)
(* How a provider gets its credentials (providers/oauth_routes.rs): a      *)
(* redirect pasted by the admin, a device code that a task polls for, a    *)
(* browser login that calls back on a port of this machine                 *)
(* (commandcode/browser_login.rs), and a pasted key.  The first and the    *)
(* last are one request each, or two; the others are tasks that go on      *)
(* after the request has been answered and report on a board, which the    *)
(* page polls.  OpenAI and Command Code are the user's side here: they     *)
(* approve, deny or answer nothing.                                        *)
(*                                                                         *)
(* Resetting the health of the provider is in Failover, publishing the     *)
(* snapshot in Catalog, the refresh of tokens in TokenRefresh.             *)
(***************************************************************************)
EXTENDS Integers, FiniteSets

CONSTANTS
  CodexAccount,  \* providers of kind oauth_codex
  KeyAccount,    \* providers of kind oauth_command_code
  Attempt,       \* logins begun
  Polls          \* DEVICE_LOGIN_TTL, in polls

ASSUME LoginsAssumption ==
  /\ CodexAccount \cap KeyAccount = {}
  /\ Polls \in Nat

VARIABLES
  oauth,   \* provider_oauth_state: [pkce, creds], the login each is from
  board,   \* device_logins and commandcode_logins
  login,   \* where each login is
  reader,  \* a request for the status of a provider
  stored   \* history: logins whose credentials were written

loginVars == <<oauth, board, login, reader, stored>>

-----------------------------------------------------------------------------
Accounts == CodexAccount \cup KeyAccount

NoLogin == "no login"

NoState == [pkce |-> NoLogin, creds |-> NoLogin]

Blank == [status |-> "not_started", login |-> NoLogin]

\* waiting, bind, device: a request of the admin's; given, with the user; poll,
\* listen, grant, store, live, judge, post: a task; exchange, write, clear: a
\* request that completes a login.
Places == {"unused", "waiting", "given", "exchange", "write", "clear", "device", "poll", "grant",
           "store", "live", "judge", "bind", "listen", "keep", "post", "over"}

Unused == [at |-> "unused", account |-> NoLogin, left |-> 0, result |-> "pending"]

Turns(l, r) == login' = [login EXCEPT ![l] = r]

Goes(l, place) == Turns(l, [login[l] EXCEPT !.at = place])

\* A task has something to report.
Reports(l, place, result) == Turns(l, [login[l] EXCEPT !.at = place, !.result = result])

Posts(p, status, l) == board' = [board EXCEPT ![p] = [status |-> status, login |-> l]]

\* upsert_oauth_tokens: the account and its credentials; PKCE stays.
Keeps(l) ==
  /\ oauth' = [oauth EXCEPT ![login[l].account].creds = l]
  /\ stored' = stored \cup {l}

-----------------------------------------------------------------------------
(* Codex, by a redirect that the admin pastes.                             *)

\* POST .../oauth/start: a verifier and a state of its own.
StartRedirect(l, p) ==
  /\ p \in CodexAccount /\ login[l].at = "unused"
  /\ oauth' = [oauth EXCEPT ![p].pkce = l]
  /\ Turns(l, [Unused EXCEPT !.at = "given", !.account = p])
  /\ UNCHANGED <<board, reader, stored>>

\* complete_oauth_exchange reads the row; the state of the redirect must be
\* that of the start which is there now.  Any other is turned down, and the
\* right one may still be pasted.
PasteRedirect(l) ==
  /\ login[l].at = "given"
  /\ oauth[login[l].account].pkce = l
  /\ Goes(l, "exchange")
  /\ UNCHANGED <<oauth, board, reader, stored>>

\* The code is exchanged; it can be used once.
ExchangeCode(l, ok) ==
  /\ login[l].at = "exchange"
  /\ Goes(l, IF ok THEN "write" ELSE "over")
  /\ UNCHANGED <<oauth, board, reader, stored>>

WriteTokens(l) ==
  /\ login[l].at = "write"
  /\ Keeps(l)
  /\ Goes(l, "clear")
  /\ UNCHANGED <<board, reader>>

\* clear_pkce: whichever login's it is by now.
ClearPkce(l) ==
  /\ login[l].at = "clear"
  /\ oauth' = [oauth EXCEPT ![login[l].account].pkce = NoLogin]
  /\ Goes(l, "over")
  /\ UNCHANGED <<board, reader, stored>>

-----------------------------------------------------------------------------
(* Codex, by a device code.                                                *)

IsCurrentAttempt(l) == board[login[l].account] = [status |-> "pending", login |-> l]

\* POST .../oauth/device/start asks upstream for a code, ...
StartDevice(l, p) ==
  /\ p \in CodexAccount /\ login[l].at = "unused"
  /\ Turns(l, [Unused EXCEPT !.at = "device", !.account = p])
  /\ UNCHANGED <<oauth, board, reader, stored>>

\* ... posts the login as pending and spawns its task.
SpawnDevice(l) ==
  /\ login[l].at = "device"
  /\ Posts(login[l].account, "pending", l)
  /\ Turns(l, [login[l] EXCEPT !.at = "poll", !.left = Polls])
  /\ UNCHANGED <<oauth, reader, stored>>

\* Fault model: a login that has run out of time ends without a word.
Expired_Silent(l) == Goes(l, "over")

Expired(l) == Reports(l, "judge", "error")

\* poll_device_login: sleep, still current?, still in time?, ask upstream.
Poll(l, answer) ==
  /\ login[l].at = "poll"
  /\ IF ~IsCurrentAttempt(l) THEN Reports(l, "judge", "error")
     ELSE IF login[l].left = 0 THEN Expired(l)
     ELSE CASE answer = "approved" -> Goes(l, "grant")
            [] answer \in {"pending", "unreachable"} ->
                 Turns(l, [login[l] EXCEPT !.left = @ - 1])
            [] answer = "refused" -> Reports(l, "judge", "error")
  /\ UNCHANGED <<oauth, board, reader, stored>>

\* exchange_code_with_redirect.
ExchangeGrant(l, ok) ==
  /\ login[l].at = "grant"
  /\ IF ok THEN Goes(l, "store") ELSE Reports(l, "judge", "error")
  /\ UNCHANGED <<oauth, board, reader, stored>>

\* store_codex_tokens, whether or not the login is still current.
StoreGrant(l, ok) ==
  /\ login[l].at = "store"
  /\ IF ok THEN Keeps(l) /\ Goes(l, "live")
           ELSE UNCHANGED <<oauth, stored>> /\ Reports(l, "judge", "error")
  /\ UNCHANGED <<board, reader>>

\* reload_snapshot may fail, and the tokens stay.
ReloadForGrant(l, ok) ==
  /\ login[l].at = "live"
  /\ Reports(l, "judge", IF ok THEN "success" ELSE "error")
  /\ UNCHANGED <<oauth, board, reader, stored>>

\* Only the current attempt may publish a result: checked here, ...
JudgeDevice(l) ==
  /\ login[l].at = "judge"
  /\ Goes(l, IF IsCurrentAttempt(l) THEN "post" ELSE "over")
  /\ UNCHANGED <<oauth, board, reader, stored>>

-----------------------------------------------------------------------------
(* Command Code, by a browser that calls back, or a pasted key.            *)

\* POST .../browser-login/start binds a port, ...
StartListener(l, p) ==
  /\ p \in KeyAccount /\ login[l].at = "unused"
  /\ Turns(l, [Unused EXCEPT !.at = "bind", !.account = p])
  /\ UNCHANGED <<oauth, board, reader, stored>>

\* ... posts the login as pending and spawns its task.
SpawnListener(l) ==
  /\ login[l].at = "bind"
  /\ Posts(login[l].account, "pending", l)
  /\ Goes(l, "listen")
  /\ UNCHANGED <<oauth, reader, stored>>

\* accept_loop: connections that break off, are not a POST of JSON to
\* /callback, or do not have the state of this login, leave it waiting; with
\* the state, an error or a whole callback ends it, and so do 15 seconds.
Callback(l, what) ==
  /\ login[l].at = "listen"
  /\ CASE what = "other" -> UNCHANGED login
       [] what \in {"denied", "timeout"} -> Reports(l, "post", "error")
       [] what = "key" -> Goes(l, "keep")
  /\ UNCHANGED <<oauth, board, reader, stored>>

\* store_commandcode_key.
KeepKey(l, ok) ==
  /\ login[l].at = "keep"
  /\ IF ok THEN Keeps(l) ELSE UNCHANGED <<oauth, stored>>
  /\ Reports(l, "post", IF ok THEN "success" ELSE "error")
  /\ UNCHANGED <<board, reader>>

\* ... and posted here; a browser login does not ask whether it is current.
PostResult(l) ==
  /\ login[l].at = "post"
  /\ Posts(login[l].account, login[l].result, l)
  /\ Goes(l, "over")
  /\ UNCHANGED <<oauth, reader, stored>>

\* POST .../commandcode/key: typed, or read from this machine's disk, which
\* only somebody at this machine may ask for.
SetKey(l, p, key, loopback) ==
  /\ p \in KeyAccount /\ login[l].at = "unused"
  /\ key = "typed" \/ loopback
  /\ Turns(l, [Unused EXCEPT !.at = "over", !.account = p])
  /\ oauth' = [oauth EXCEPT ![p].creds = l]
  /\ stored' = stored \cup {l}
  /\ UNCHANGED <<board, reader>>

-----------------------------------------------------------------------------
\* The client of a request leaves; tasks go on without theirs.
Desert(l) ==
  /\ login[l].at \in {"exchange", "write", "clear", "device", "bind"}
  /\ Goes(l, "over")
  /\ UNCHANGED <<oauth, board, reader, stored>>

\* GET .../status: the entry is read, ...
ReadStatus(p) ==
  /\ reader = NoLogin
  /\ board[p].status \in {"success", "error"}
  /\ reader' = p
  /\ UNCHANGED <<oauth, board, login, stored>>

\* ... and what is there by now removed.
RemoveStatus ==
  /\ reader # NoLogin
  /\ board' = [board EXCEPT ![reader] = Blank]
  /\ reader' = NoLogin
  /\ UNCHANGED <<oauth, login, stored>>

\* clear_oauth_tokens, and the cascade of a provider's deletion.
ForgetAccount(p) ==
  /\ oauth' = [oauth EXCEPT ![p] = NoState]
  /\ UNCHANGED <<board, login, reader, stored>>

\* The process stops: rows stay, tasks and boards do not.
StopLogins ==
  /\ board' = [p \in Accounts |-> Blank]
  /\ login' = [l \in Attempt |-> IF login[l].at \in {"unused", "given"} THEN login[l]
                                 ELSE [login[l] EXCEPT !.at = "over"]]
  /\ reader' = NoLogin
  /\ UNCHANGED <<oauth, stored>>

-----------------------------------------------------------------------------
LoginsInit ==
  /\ oauth = [p \in Accounts |-> NoState]
  /\ board = [p \in Accounts |-> Blank]
  /\ login = [l \in Attempt |-> Unused]
  /\ reader = NoLogin /\ stored = {}

LoginsNext ==
  \/ \E l \in Attempt :
       \/ \E p \in Accounts :
            \/ StartRedirect(l, p) \/ StartDevice(l, p) \/ StartListener(l, p)
            \/ \E key \in {"typed", "on disk"}, loopback \in BOOLEAN : SetKey(l, p, key, loopback)
       \/ \E ok \in BOOLEAN :
            ExchangeCode(l, ok) \/ ExchangeGrant(l, ok) \/ StoreGrant(l, ok) \/ ReloadForGrant(l, ok)
            \/ KeepKey(l, ok)
       \/ \E a \in {"approved", "pending", "unreachable", "refused"} : Poll(l, a)
       \/ \E w \in {"other", "denied", "timeout", "key"} : Callback(l, w)
       \/ PasteRedirect(l) \/ WriteTokens(l) \/ ClearPkce(l) \/ SpawnDevice(l) \/ JudgeDevice(l)
       \/ SpawnListener(l) \/ PostResult(l) \/ Desert(l)
  \/ \E p \in Accounts : ReadStatus(p) \/ ForgetAccount(p)
  \/ RemoveStatus \/ StopLogins

LoginsSpec == LoginsInit /\ [][LoginsNext]_loginVars

-----------------------------------------------------------------------------
LoginsTypeOK ==
  LET id == Attempt \cup {NoLogin} IN
  /\ oauth \in [Accounts -> [pkce : id, creds : id]]
  /\ board \in [Accounts -> [status : {"not_started", "pending", "success", "error"}, login : id]]
  /\ login \in [Attempt -> [at : Places, account : Accounts \cup {NoLogin}, left : 0..Polls,
                            result : {"pending", "success", "error"}]]
  /\ reader \in Accounts \cup {NoLogin} /\ stored \subseteq Attempt

(* What the page shows is true: a pending login has a task that is going to    *)
(* report on it, and one shown as successful has had its credentials stored,   *)
(* though starts, results and readers of the board overtake each other         *)
(* (oauth_routes.rs: start_device_login, start_commandcode_browser_login and   *)
(* their status handlers).                                                     *)
ShownIsTrue ==
  \A p \in Accounts :
    LET e == board[p] IN
    /\ e.status = "pending" =>
         login[e.login].at \in {"poll", "grant", "store", "live", "judge", "listen", "keep", "post"}
    /\ e.status = "success" => e.login \in stored

=============================================================================
