--------------------------------- MODULE Setup ---------------------------------
(***************************************************************************)
(* The setup wizard (onboarding.rs): `1router setup`, a process of its own *)
(* that writes the same rows as a server which may be running beside it    *)
(* (Catalog), one query after another with prompts, browser logins and     *)
(* probes of the upstream in between.  Nothing of what it has written is   *)
(* undone when it fails, and an error of any step ends the process.        *)
(***************************************************************************)
EXTENDS Catalog

VARIABLE wiz  \* the wizard: where it is, and what it is working on

setupVars == <<rows, served, op, lost, unchecked, edits, wiz>>

-----------------------------------------------------------------------------
WizardPlaces == {"off", "menu", "confirm", "insert", "pkce", "paste", "probe", "key", "store",
                 "update", "merged", "announce", "pool", "rank", "join", "joining"}

\* merged: the row that is going to replace the provider's.  alone: nobody else
\* has written a row since this task began; clean: since the last check.
Off == [at |-> "off", kind |-> "passthrough", id |-> None, pool |-> None, wire |-> "openai",
        model |-> None, priority |-> 0, merged |-> {}, alone |-> TRUE, clean |-> FALSE]

Exit == wiz' = Off

StandsAt(place) == wiz' = [wiz EXCEPT !.at = place]

\* The wizard's writes are not published by anybody.
Writes(R) ==
  /\ rows' = R /\ op' = Disturbed(op)
  /\ lost' = (lost \/ View(rows') # View(rows))
  /\ UNCHANGED <<served, edits>>

Checked == UNCHANGED unchecked

\* Or somebody overtook the wizard between its check and its write.
CheckedBefore == unchecked' = (unchecked \/ ~wiz.clean)

Untouched == UNCHANGED catalogVars

TaskBegun == edits' = edits + 1 /\ UNCHANGED <<rows, served, op, lost, unchecked>>

\* `1router setup`, or the first start on a terminal: run_menu.
StartWizard == wiz.at = "off" /\ wiz' = [Off EXCEPT !.at = "menu"] /\ Untouched

\* Ctrl-C, at any prompt.
QuitWizard == wiz.at # "off" /\ Exit /\ Untouched

\* run_provider_menu: a kind, and a name that becomes the id.
ChooseKind(kind, id, wire, model) ==
  /\ wiz.at = "menu" /\ edits < MaxEdits
  /\ wiz' = [Off EXCEPT !.at = IF kind = "passthrough" THEN "confirm" ELSE "insert",
                        !.kind = kind, !.id = id,
                        !.wire = IF kind = "passthrough" THEN wire ELSE "anthropic",
                        !.model = IF kind = "passthrough" THEN model ELSE "pending"]
  /\ TaskBegun

\* confirm_upstream_model: the model as typed if it answers, or one of the
\* upstream's own list that does, or what is typed after all of them failed.
ConfirmModel(model) ==
  /\ wiz.at = "confirm"
  /\ wiz' = [wiz EXCEPT !.at = "insert", !.model = model]
  /\ Untouched

\* insert_provider.
InsertProvider ==
  /\ wiz.at = "insert"
  /\ IF ProviderOfId(rows, wiz.id) = {}
     THEN /\ Writes(PutProvider(rows, [id |-> wiz.id, kind |-> wiz.kind, wire |-> wiz.wire,
                                       model |-> wiz.model, effort |-> None]))
          /\ StandsAt(CASE wiz.kind = "passthrough" -> "announce"
                     [] wiz.kind = "codex" -> "pkce"
                     [] wiz.kind = "commandcode" -> "key")
          /\ Checked
     ELSE Exit /\ Untouched

Exists == ProviderOfId(rows, wiz.id) # {}

\* store_pkce refers to the provider's row.
StorePkce ==
  /\ wiz.at = "pkce"
  /\ IF Exists THEN StandsAt("paste") ELSE Exit
  /\ Untouched

\* Fault model: a failed exchange leaves the loop too.
AfterExchange_Breaks(ok) == "probe"

\* The prompt comes back until an exchange has succeeded.
AfterExchange(ok) == IF ok THEN "probe" ELSE "paste"

\* add_codex_provider: a redirect URL is pasted and its code exchanged
\* (complete_oauth_exchange, OAuthLogins), again and again until that works.
Paste(ok) ==
  /\ wiz.at = "paste"
  /\ ok => Exists
  /\ StandsAt(AfterExchange(ok))
  /\ IF ok THEN Writes([rows EXCEPT !.tokens = @ \cup {wiz.id}]) /\ Checked ELSE Untouched

\* probe_and_set_model: the first candidate that answers is kept, and if none
\* does the row stays as it is.  For Command Code a model is chosen or typed.
Probe(model) ==
  /\ wiz.at = "probe"
  /\ wiz' = [wiz EXCEPT !.model = model,
                        !.at = IF model = "pending" /\ wiz.kind = "codex" THEN "announce" ELSE "update"]
  /\ Untouched

\* prompt_commandcode_key: from disk, the browser or a paste; a denied login
\* and an empty key are errors.
ObtainKey(ok) ==
  /\ wiz.at = "key"
  /\ IF ok THEN StandsAt("store") ELSE Exit
  /\ Untouched

\* store_commandcode_key (its reset of the transport is in Failover).
StoreKey ==
  /\ wiz.at = "store"
  /\ IF Exists THEN Writes([rows EXCEPT !.tokens = @ \cup {wiz.id}]) /\ StandsAt("probe") /\ Checked
               ELSE Exit /\ Untouched

\* update_provider with a new model, as any other patch: read, merge and check ...
CheckModel ==
  LET e == Edit("patch_provider", [id |-> wiz.id, patch |-> [field |-> "model", value |-> wiz.model]])
  IN  /\ wiz.at = "update"
      /\ IF Merged(e) = {} THEN Exit
         ELSE wiz' = [wiz EXCEPT !.at = "merged", !.merged = Merged(e), !.clean = TRUE]
      /\ Untouched

\* ... then write all of the row, without noticing if it is gone.
UpdateModel ==
  /\ wiz.at = "merged"
  /\ wiz' = [wiz EXCEPT !.at = "announce", !.merged = {}, !.clean = FALSE]
  /\ IF Exists THEN /\ \E p \in wiz.merged : Writes(PutProvider(rows, p))
                    /\ CheckedBefore
     ELSE Untouched

\* "added '<name>' - call it as ..."
Announce == wiz.at = "announce" /\ wiz' = [Off EXCEPT !.at = "menu"] /\ Untouched

-----------------------------------------------------------------------------
\* run_pool_menu: a provider from the list, and the name of a pool.
ChoosePool(p, pool) ==
  /\ wiz.at = "menu" /\ edits < MaxEdits
  /\ wiz' = [Off EXCEPT !.at = "pool", !.id = p.id, !.kind = p.kind, !.wire = p.wire, !.pool = pool]
  /\ TaskBegun

\* assign_to_pool opens the pool if there is none, in the provider's format.
OpenPool ==
  /\ wiz.at = "pool"
  /\ StandsAt("rank")
  /\ IF PoolOfId(rows, wiz.pool) # {} THEN Untouched
     ELSE Writes(PutPool(rows, [id |-> wiz.pool, wire |-> wiz.wire, modality |-> "chat"])) /\ Checked

\* next_priority: one past the highest.
NextPriority(members) == Max({0} \cup {m.priority : m \in members}) + 1

Rank ==
  /\ wiz.at = "rank"
  /\ wiz' = [wiz EXCEPT !.at = "join",
               !.priority = NextPriority({m \in rows.members : m.pool = wiz.pool})]
  /\ Untouched

Joining == [pool |-> wiz.pool, provider |-> wiz.id, model |-> None,
            priority |-> wiz.priority, effort |-> None]

\* upsert_member: the checks of the admin API ...
CheckJoin ==
  /\ wiz.at = "join"
  /\ IF Passes(Edit("put_member", Joining))
     THEN wiz' = [wiz EXCEPT !.at = "joining", !.clean = TRUE]
     ELSE Exit
  /\ Untouched

\* ... and its INSERT, which refers to the pool and to the provider.
Join ==
  /\ wiz.at = "joining"
  /\ IF KeysHold(PutMember(rows, Joining))
     THEN /\ Writes(PutMember(rows, Joining)) /\ CheckedBefore
          /\ wiz' = [Off EXCEPT !.at = "menu"]
     ELSE Exit /\ Untouched

-----------------------------------------------------------------------------
WizardStep ==
  \/ StartWizard \/ QuitWizard
  \/ \E s \in Shapes, id \in Provider : ChooseKind(s.kind, id, s.wire, s.model)
  \/ \E m \in Models \ {"pending"} : ConfirmModel(m)
  \/ InsertProvider \/ StorePkce \/ StoreKey \/ CheckModel \/ UpdateModel \/ Announce
  \/ \E ok \in BOOLEAN : Paste(ok) \/ ObtainKey(ok)
  \/ \E m \in Models : Probe(m)
  \/ \E p \in rows.providers, q \in Pool : ChoosePool(p, q)
  \/ OpenPool \/ Rank \/ CheckJoin \/ Join

SetupInit == CatalogInit /\ wiz = Off

\* A write of the server's disturbs what the wizard has read.
ServerStep ==
  /\ CatalogNext
  /\ wiz' = [wiz EXCEPT !.alone = @ /\ (rows' = rows \/ wiz.at \in {"off", "menu"}),
                        !.clean = @ /\ View(rows') = View(rows)]

SetupNext == WizardStep \/ ServerStep

SetupSpec == SetupInit /\ [][SetupNext]_setupVars

-----------------------------------------------------------------------------
SetupTypeOK ==
  /\ CatalogTypeOK
  /\ wiz.at \in WizardPlaces /\ wiz.kind \in Kinds /\ wiz.wire \in Wires
  /\ wiz.id \in Provider \cup {None} /\ wiz.pool \in Pool \cup {None}
  /\ wiz.model \in Models \cup {None} /\ wiz.priority \in Nat /\ wiz.merged \subseteq ProviderRow
  /\ wiz.alone \in BOOLEAN /\ wiz.clean \in BOOLEAN

(* A provider the wizard announces as added can be called: its row has the     *)
(* model it says, and if it is of an OAuth kind somebody has logged in,        *)
(* however many pastes, exchanges and probes failed before                     *)
(* (onboarding.rs: add_codex_provider, add_commandcode_provider).              *)
AnnouncedIsReady ==
  wiz.at = "announce" /\ wiz.alone =>
    \E p \in ProviderOfId(rows, wiz.id) :
      p.model = wiz.model /\ (p.kind # "passthrough" => p.id \in rows.tokens)

=============================================================================
