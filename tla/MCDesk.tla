--------------------------------- MODULE MCDesk ---------------------------------
(***************************************************************************)
(* The parts of the system around the proxy.  They share no state, so a    *)
(* behaviour of theirs is one of each on its own: `part` says which of     *)
(* them acts in this one, and the others stay as they are.                 *)
(***************************************************************************)
EXTENDS Setup, Rotation, Settings, AdminSessions, UserKeys, OAuthLogins, Images

CONSTANTS Parts, p1, p2, q1, m1, m2, m3

PartNames == {"setup", "rotation", "settings", "sessions", "users", "logins", "images"}

ASSUME DeskAssumption == Parts \subseteq PartNames

VARIABLE part

deskVars == <<part, setupVars, rotationVars, settingsVars, sessionVars, userVars, loginVars, imageVars>>

-----------------------------------------------------------------------------
ProviderLike(id, kind, wire, model, effort) ==
  [id |-> id, kind |-> kind, wire |-> wire, model |-> model, effort |-> effort]

MCShapes ==
  {[kind |-> "passthrough", wire |-> "openai", model |-> "gpt-5", effort |-> "high"],
   [kind |-> "codex", wire |-> "anthropic", model |-> "plain", effort |-> None],
   [kind |-> "commandcode", wire |-> "anthropic", model |-> "claude", effort |-> "high"]}

\* A dump whose effort nobody has checked.
MCDumps ==
  {[providers |-> {ProviderLike(p1, "passthrough", "openai", "plain", "high")},
    pools |-> {}, members |-> {}]}

\* An empty database, and one with a member that inherits its model.
MCStarts ==
  {NoRows,
   [providers |-> {ProviderLike(p1, "passthrough", "openai", "gpt-5", None),
                   ProviderLike(p2, "codex", "anthropic", "plain", None)},
    pools     |-> {[id |-> q1, wire |-> "openai", modality |-> "chat"]},
    members   |-> {[pool |-> q1, provider |-> p1, model |-> None, priority |-> 3, effort |-> "high"]},
    tokens    |-> {p2}]}

MCEnvironments == [secret : {"absent", "s1"}, mode : {"absent", "open", "required"}]

\* An image pool of two, and one of them by its own name.
MCSelected == {[members |-> <<"d1", "d2">>, direct |-> FALSE], [members |-> <<"d2">>, direct |-> TRUE]}

-----------------------------------------------------------------------------
DeskInit ==
  /\ part \in Parts
  /\ wiz = Off
  /\ IF part = "setup" THEN CatalogInit
     ELSE /\ rows = NoRows /\ served = NoView /\ op = [a \in Admin |-> Idle]
          /\ lost = FALSE /\ unchecked = FALSE /\ edits = 0
  /\ RotationInit
  /\ IF part = "settings" THEN SettingsInit
     ELSE /\ env = [secret |-> NotSet, mode |-> NotSet]
          /\ disk = [secret |-> NotSet, mode |-> NotSet, images |-> FALSE]
          /\ past = [had |-> FALSE, chosen |-> NotSet, told |-> NotSet, torn |-> FALSE]
          /\ server = Down /\ setting = NoSetting /\ cli = "off"
  /\ SessionsInit
  /\ IF part = "users" THEN UserKeysInit
     ELSE /\ users = {} /\ dump = {} /\ made = 0 /\ retired = {}
          /\ clerk = [c \in Clerk |-> Free]
  /\ LoginsInit
  /\ ImagesInit /\ (part # "images" => limit = 1)

Rest(own) == \A v \in PartNames \ {own} :
  CASE v = "setup"    -> UNCHANGED setupVars
    [] v = "rotation" -> UNCHANGED rotationVars
    [] v = "settings" -> UNCHANGED settingsVars
    [] v = "sessions" -> UNCHANGED sessionVars
    [] v = "users"    -> UNCHANGED userVars
    [] v = "logins"   -> UNCHANGED loginVars
    [] v = "images"   -> UNCHANGED imageVars

DeskNext ==
  /\ UNCHANGED part
  /\ \/ part = "setup"    /\ SetupNext    /\ Rest("setup")
     \/ part = "rotation" /\ RotationNext /\ Rest("rotation")
     \/ part = "settings" /\ SettingsNext /\ Rest("settings")
     \/ part = "sessions" /\ SessionsNext /\ Rest("sessions")
     \/ part = "users"    /\ UserKeysNext /\ Rest("users")
     \/ part = "logins"   /\ LoginsNext   /\ Rest("logins")
     \/ part = "images"   /\ ImagesNext   /\ Rest("images")

DeskSpec == DeskInit /\ [][DeskNext]_deskVars

-----------------------------------------------------------------------------
(* The state of the part that acts has the shape that its module says.         *)
TypeOK ==
  /\ part \in Parts
  /\ CASE part = "setup"    -> SetupTypeOK
       [] part = "rotation" -> RotationTypeOK
       [] part = "settings" -> SettingsTypeOK
       [] part = "sessions" -> SessionsTypeOK
       [] part = "users"    -> UserKeysTypeOK
       [] part = "logins"   -> LoginsTypeOK
       [] part = "images"   -> ImagesTypeOK

=============================================================================
