---------------------------- MODULE Integrations ----------------------------
(***************************************************************************)
(* Integrations reconfigured while they serve.  The routes of              *)
(* modules/integrations and the adoption of modules/discovery write the    *)
(* stored configuration of a domain (integrations/save-domain-config.ts,   *)
(* integration-config.store.ts), and integrations/runtime.ts builds from   *)
(* it the manager that a holder then swaps in.                             *)
(*                                                                         *)
(* The domain is `iot', the only one whose savings add up: its row has the *)
(* devices of each backend.  One action is the code between two awaits.    *)
(***************************************************************************)
EXTENDS FiniteSets

CONSTANTS
  Kinds,        \* kinds of backend
  Devices,      \* what each may be configured with
  Unbuildable,  \* those no manager can be built with
  Editors,      \* requests in progress at once
  Env,          \* what is built without a row that can be applied
  None

ASSUME UnbuildableAssumption == Unbuildable \subseteq Devices

VARIABLES
  row,       \* the stored configuration, or None
  inUse,     \* what the manager that answers was built from
  edit,      \* each request: where it waits and what it is to write
  unapplied  \* history: the last change of the row was not followed by a build

integrationVars == <<row, inUse, edit, unapplied>>

\* The devices of each kind, None for a kind that is not in use.
Lists == (SUBSET Devices) \cup {None}
Nothing == [k \in Kinds |-> None]
NoEdit == [at |-> "idle", kind |-> None, config |-> Nothing, enabled |-> FALSE, adopts |-> FALSE]

\* tryBuild() with the effective configuration: the environment takes the
\* place of a row that is missing, disabled or that no manager can be built of.
LiveFrom(stored) ==
  IF /\ stored # None /\ stored.enabled
     /\ \A k \in Kinds : stored.config[k] # None => stored.config[k] \cap Unbuildable = {}
    THEN stored.config ELSE Env

IntegrationsInit ==
  /\ row = None /\ inUse = Env
  /\ edit = [e \in Editors |-> NoEdit]
  /\ unapplied = FALSE

-----------------------------------------------------------------------------
StoredConfig == IF row = None THEN Nothing ELSE row.config

Editing(e, k, list, enabled, adopts) ==
  edit' = [edit EXCEPT ![e] = [at |-> "merge", kind |-> k, config |-> [Nothing EXCEPT ![k] = list],
                               enabled |-> enabled, adopts |-> adopts]]

\* PUT /:domain names one backend, with its devices or without.
PutConfig(e, k, list, enabled) ==
  /\ edit[e].at = "idle"
  /\ Editing(e, k, list, enabled, FALSE)
  /\ UNCHANGED <<row, inUse, unapplied>>

\* valoresDe() and fusionaPrefill(): the device joins those of an enabled row.
Adopt(e, k, d) ==
  /\ edit[e].at = "idle"
  /\ LET known == IF row # None /\ row.enabled /\ row.config[k] # None THEN row.config[k] ELSE {}
     IN Editing(e, k, IF d \in known THEN None ELSE known \cup {d}, TRUE, TRUE)
  /\ UNCHANGED <<row, inUse, unapplied>>

\* saveDomainConfig() reads the row and lays the new values over it, ...
Merged(e) ==
  [k \in Kinds |->
     CASE edit[e].config[k] # None -> edit[e].config[k]
       [] StoredConfig[k] # None -> StoredConfig[k]
       [] OTHER -> IF k = edit[e].kind THEN {} ELSE None]

Merge(e) ==
  /\ edit[e].at = "merge"
  /\ edit' = [edit EXCEPT ![e].at = "upsert", ![e].config = Merged(e)]
  /\ UNCHANGED <<row, inUse, unapplied>>

\* ... and save() writes the result.
Upsert(e) ==
  /\ edit[e].at = "upsert"
  /\ row' = [config |-> edit[e].config, enabled |-> edit[e].enabled]
  /\ edit' = [edit EXCEPT ![e].at = "apply"]
  /\ UNCHANGED <<inUse, unapplied>>

\* DELETE /:domain.
Remove(e) ==
  /\ edit[e].at = "idle"
  /\ row' = None
  /\ edit' = [edit EXCEPT ![e].at = "apply"]
  /\ UNCHANGED <<inUse, unapplied>>

\* reconfigure(): the row is read; what follows up to the swap has no await
\* that another request could use (answers of the database keep their order).
WhatItSaved(e) == IF edit[e].kind = None THEN None
                  ELSE [config |-> edit[e].config, enabled |-> edit[e].enabled]
Effective(e) == row

Reconfigure(e) ==
  /\ edit[e].at = "apply"
  /\ inUse' = LiveFrom(Effective(e))
  /\ unapplied' = FALSE
  /\ edit' = [edit EXCEPT ![e] = NoEdit]
  /\ UNCHANGED row

\* A statement throws and the request with it.
EditFails(e) ==
  /\ edit[e].at # "idle"
  /\ unapplied' = (unapplied \/ edit[e].at = "apply")
  /\ edit' = [edit EXCEPT ![e] = NoEdit]
  /\ UNCHANGED <<row, inUse>>

\* buildIntegrationRuntime().
AgentStarts ==
  /\ inUse' = LiveFrom(row)
  /\ edit' = [e \in Editors |-> NoEdit]
  /\ unapplied' = FALSE
  /\ UNCHANGED row

IntegrationsNext ==
  \/ \E e \in Editors : \/ \E k \in Kinds, list \in Lists, on \in BOOLEAN : PutConfig(e, k, list, on)
                        \/ \E k \in Kinds, d \in Devices : Adopt(e, k, d)
                        \/ Merge(e) \/ Upsert(e) \/ Remove(e) \/ Reconfigure(e) \/ EditFails(e)
  \/ AgentStarts

IntegrationsSpec == IntegrationsInit /\ [][IntegrationsNext]_integrationVars

-----------------------------------------------------------------------------
\* Properties.

\* "Lo que el dominio tiene vivo" (runtime.ts): when nobody is between a
\* change and its application, the manager that answers is the one the stored
\* configuration calls for, whichever of two edits wrote or swapped last.
LiveIsSaved ==
  (\A e \in Editors : edit[e].at # "apply") /\ ~unapplied => inUse = LiveFrom(row)

\* "Añadir, nunca reemplazar" (discovery/adopt.ts): the adoption of a device
\* takes none away.
Keeps(e) == \A k \in Kinds : StoredConfig[k] # None => StoredConfig[k] \subseteq edit[e].config[k]
AdoptionAdds == [][\A e \in Editors : Upsert(e) /\ edit[e].adopts => Keeps(e)]_integrationVars
=============================================================================
