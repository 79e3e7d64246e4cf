------------------------------- MODULE Settings -------------------------------
(***************************************************************************)
(* The admin secret, the access mode of /v1 and the switch for images:     *)
(* each is in the environment, on disk and in the memory of the server     *)
(* (core/config.rs, core/settings.rs, admin/settings.rs).  main.rs         *)
(* resolves them at every start and writes down what it had to make up;    *)
(* the first start on a terminal goes through a wizard, and `1router       *)
(* setup` changes what is on disk from a process of its own                *)
(* (onboarding.rs).                                                        *)
(***************************************************************************)
EXTENDS Integers, FiniteSets

CONSTANTS
  Secret,       \* secrets a user may set, the generated and the default one
  Environments  \* what the service is started with: [secret, mode]

NotSet == "absent"

SettingModes == {"required", "open"}

ASSUME SettingsAssumption ==
  /\ NotSet \notin Secret
  /\ Environments \subseteq [secret : Secret \cup {NotSet}, mode : SettingModes \cup {NotSet}]

VARIABLES
  env,      \* ROUTER_SHARED_SECRET and ROUTER_REQUIRE_SHARED_SECRET
  disk,     \* .router_secret, and the rows of server_secrets
  server,   \* the process: what it has resolved, and what it serves with
  setting,  \* an admin request that changes a setting
  cli,      \* `1router setup`
  past      \* history, see PastType

settingsVars == <<env, disk, server, setting, cli, past>>

-----------------------------------------------------------------------------
ServerPlaces == {"down", "secret", "read", "resolved", "wizard", "up"}

\* `1router setup`: not there, about to write down a default mode, or at its menu.
CliPlaces == {"off", "menu"} \cup SettingModes

Down == [at |-> "down", existed |-> FALSE, secret |-> NotSet, mode |-> NotSet,
         origin |-> NotSet, images |-> FALSE]

NoSetting == [at |-> "none", what |-> "mode", value |-> NotSet]

DiskType == [secret : Secret \cup {NotSet}, mode : SettingModes \cup {NotSet}, images : BOOLEAN]

\* had: there was a secret before anything had decided on a mode.
\* chosen: the mode a user has put on disk.  told: the mode a user was told is
\* in force, by the process that serves now.  torn: a start was between making
\* up a secret and writing down the mode when it ended, or when `setup` began,
\* or a default was written over a mode chosen after the row was read.
PastType == [had : BOOLEAN, chosen : SettingModes \cup {NotSet},
             told : SettingModes \cup {NotSet}, torn : BOOLEAN]

\* resolve_shared_secret: was there one?
SecretExists == env.secret # NotSet \/ disk.secret # NotSet

SecretInForce == IF env.secret # NotSet THEN env.secret ELSE disk.secret

\* resolve_auth_mode: the environment, the row, or else required for whoever
\* had a secret before.
ModeInForce(existed) ==
  IF env.mode # NotSet THEN env.mode
  ELSE IF disk.mode # NotSet THEN disk.mode
  ELSE IF existed THEN "required" ELSE "open"

ModeOrigin ==
  IF env.mode # NotSet THEN "env" ELSE IF disk.mode # NotSet THEN "db" ELSE "default"

\* Fault model: a default is not written down.
WithMode_Forgotten(d, origin, mode) == d

\* main.rs: AuthModeSource::Default is persisted.
WithMode(d, origin, mode) == IF origin = "default" THEN [d EXCEPT !.mode = mode] ELSE d

\* A start has made up a secret and not yet written a mode.
HalfDecided == server.at \in {"secret", "read"} /\ ~server.existed

\* Another mode has been written since there was none.
WritesOver(mode) == disk.mode \notin {NotSet, mode}

-----------------------------------------------------------------------------
\* main.rs: the secret, and if there is none the published one (on a terminal)
\* or a generated one.
ResolveSecret(made) ==
  /\ server.at = "down"
  /\ server' = [Down EXCEPT !.at = "secret", !.existed = SecretExists,
                            !.secret = IF SecretExists THEN SecretInForce ELSE made]
  /\ disk' = IF SecretExists THEN disk ELSE [disk EXCEPT !.secret = made]
  /\ past' = [past EXCEPT !.told = NotSet]
  /\ UNCHANGED <<env, setting, cli>>

\* The mode, from the source of the secret as it was before the last step, ...
ReadMode ==
  /\ server.at = "secret"
  /\ server' = [server EXCEPT !.at = "read", !.mode = ModeInForce(server.existed),
                              !.origin = ModeOrigin]
  /\ UNCHANGED <<env, disk, setting, cli, past>>

\* ... and, if it is the default, set_bool.
ResolveMode ==
  /\ server.at = "read"
  /\ server' = [server EXCEPT !.at = "resolved"]
  /\ disk' = WithMode(disk, server.origin, server.mode)
  /\ past' = [past EXCEPT !.torn = @ \/ (server.origin = "default" /\ WritesOver(server.mode))]
  /\ UNCHANGED <<env, setting, cli>>

\* run_first_boot_wizard, on a terminal with no seed and no providers:
\* prompt_access_mode writes the row, unless the environment decides.
FirstBootWizard(mode) ==
  /\ server.at = "resolved"
  /\ server' = [server EXCEPT !.at = "wizard"]
  /\ IF env.mode # NotSet THEN UNCHANGED <<disk, past>>
     ELSE /\ disk' = [disk EXCEPT !.mode = mode]
          /\ past' = [past EXCEPT !.chosen = IF mode # disk.mode THEN mode ELSE @, !.told = mode]
  /\ UNCHANGED <<env, setting, cli>>

\* The state is put together from what was resolved, and the server listens.
Listen ==
  /\ server.at \in {"resolved", "wizard"}
  /\ server' = [server EXCEPT !.at = "up", !.images = disk.images]
  /\ UNCHANGED <<env, disk, setting, cli, past>>

\* The process stops, at any point of its start or later.
Stop ==
  /\ server.at # "down"
  /\ server' = Down
  /\ setting' = NoSetting
  /\ past' = [past EXCEPT !.torn = @ \/ HalfDecided]
  /\ UNCHANGED <<env, disk, cli>>

-----------------------------------------------------------------------------
\* PATCH /admin/settings/...: refused while the environment decides.
AskSetting(what, value) ==
  /\ server.at = "up" /\ setting.at = "none"
  /\ what = "mode" => server.origin # "env"
  /\ what = "secret" => env.secret = NotSet
  /\ setting' = [at |-> "persist", what |-> what, value |-> value]
  /\ UNCHANGED <<env, disk, server, cli, past>>

\* persist_secret and set_bool, ...
PersistSetting ==
  /\ setting.at = "persist"
  /\ disk' = [disk EXCEPT ![setting.what] = setting.value]
  /\ setting' = [setting EXCEPT !.at = "store"]
  /\ past' = IF setting.what = "mode" THEN [past EXCEPT !.chosen = setting.value] ELSE past
  /\ UNCHANGED <<env, server, cli>>

\* ... and then what the server serves with.
StoreSetting ==
  /\ setting.at = "store"
  /\ server' = [server EXCEPT ![setting.what] = setting.value]
  /\ setting' = NoSetting
  /\ past' = IF setting.what = "mode" THEN [past EXCEPT !.told = setting.value] ELSE past
  /\ UNCHANGED <<env, disk, cli>>

\* The client leaves at the await of set_bool, or the write fails.
LeaveSetting ==
  /\ setting.at = "persist" \/ (setting.at = "store" /\ setting.what # "secret")
  /\ setting' = NoSetting
  /\ UNCHANGED <<env, disk, server, cli, past>>

-----------------------------------------------------------------------------
\* `1router setup`: the mode is resolved ...
CliStart ==
  /\ cli = "off"
  /\ cli' = IF ModeOrigin = "default" THEN ModeInForce(SecretExists) ELSE "menu"
  /\ past' = [past EXCEPT !.torn = @ \/ HalfDecided]
  /\ UNCHANGED <<env, disk, server, setting>>

\* ... and written down, before the menu makes up a secret.
CliDefault ==
  /\ cli \in SettingModes
  /\ cli' = "menu"
  /\ disk' = WithMode(disk, "default", cli)
  /\ past' = [past EXCEPT !.torn = @ \/ WritesOver(cli)]
  /\ UNCHANGED <<env, server, setting>>

\* run_menu: resolve_or_prompt_secret.
CliSecret(made) ==
  /\ cli = "menu" /\ ~SecretExists
  /\ disk' = [disk EXCEPT !.secret = made]
  /\ UNCHANGED <<env, server, setting, cli, past>>

\* run_settings_menu.
CliRotate(secret) ==
  /\ cli = "menu" /\ env.secret = NotSet /\ disk.secret # NotSet
  /\ disk' = [disk EXCEPT !.secret = secret]
  /\ UNCHANGED <<env, server, setting, cli, past>>

CliMode(mode) ==
  /\ cli = "menu" /\ env.mode = NotSet /\ SecretExists /\ mode # disk.mode
  /\ disk' = [disk EXCEPT !.mode = mode]
  /\ past' = [past EXCEPT !.chosen = mode]
  /\ UNCHANGED <<env, server, setting, cli>>

CliQuit == cli # "off" /\ cli' = "off" /\ UNCHANGED <<env, disk, server, setting, past>>

-----------------------------------------------------------------------------
\* A new instance, or one from before there was an access mode.
SettingsInit ==
  /\ env \in Environments
  /\ \E s \in Secret \cup {NotSet} :
       /\ disk = [secret |-> s, mode |-> NotSet, images |-> FALSE]
       /\ past = [had |-> s # NotSet \/ env.secret # NotSet, chosen |-> NotSet,
                  told |-> NotSet, torn |-> FALSE]
  /\ server = Down /\ setting = NoSetting /\ cli = "off"

SettingsNext ==
  \/ \E s \in Secret : ResolveSecret(s) \/ CliSecret(s) \/ CliRotate(s) \/ AskSetting("secret", s)
  \/ \E m \in SettingModes : FirstBootWizard(m) \/ CliMode(m) \/ AskSetting("mode", m)
  \/ \E b \in BOOLEAN : AskSetting("images", b)
  \/ ReadMode \/ ResolveMode \/ Listen \/ Stop \/ PersistSetting \/ StoreSetting \/ LeaveSetting
  \/ CliStart \/ CliDefault \/ CliQuit

SettingsSpec == SettingsInit /\ [][SettingsNext]_settingsVars

-----------------------------------------------------------------------------
ServerType ==
  [at : ServerPlaces, existed : BOOLEAN, secret : Secret \cup {NotSet},
   mode : SettingModes \cup {NotSet}, origin : {"env", "db", "default", NotSet}, images : BOOLEAN]

SettingsTypeOK ==
  /\ env \in Environments /\ disk \in DiskType /\ past \in PastType /\ server \in ServerType
  /\ setting.at \in {"none", "persist", "store"}
  /\ setting.at # "none" =>
       \/ setting.what = "mode" /\ setting.value \in SettingModes
       \/ setting.what = "secret" /\ setting.value \in Secret
       \/ setting.what = "images" /\ setting.value \in BOOLEAN
  /\ cli \in CliPlaces

(* The mode a start resolves is the one a user has chosen last; for as long as *)
(* nobody has, a new instance is open and one that had a secret before is      *)
(* closed, at the first start and at all later ones, whichever of the server   *)
(* and `1router setup` ran first and made up the secret (main.rs,              *)
(* resolve_auth_mode).  Only a start that ended between the two, or a `setup`  *)
(* that began there, finds a secret and no mode, and closes a new instance;    *)
(* and of two processes that start at once, one may write the default it has   *)
(* read over what a user has just chosen in the other.  The environment is the *)
(* same at every start, and a choice counts only where it leaves the mode to   *)
(* the row.                                                                    *)
ModeIsKept ==
  [][server.at = "secret" /\ server'.at = "read" /\ server'.origin # "env" /\ ~past.torn =>
       server'.mode = IF past.chosen # NotSet THEN past.chosen
                      ELSE IF past.had THEN "required" ELSE "open"]_settingsVars

(* A server serves in the mode that its own wizard or its own settings page    *)
(* last confirmed.                                                             *)
ConfirmedModeServes ==
  server.at = "up" /\ past.told # NotSet => server.mode = past.told

=============================================================================
