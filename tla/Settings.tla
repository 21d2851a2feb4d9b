------------------------------ MODULE Settings ------------------------------
(***************************************************************************)
(* The settings document (store/settings.py): one row of JSON with a       *)
(* section for the model, the web search, the notifications and Telegram.  *)
(* A request to change a section loads the document, replaces the section  *)
(* and saves the whole; nothing locks it in between.                       *)
(*                                                                         *)
(* A section is its one secret and one value for all the rest of it.       *)
(***************************************************************************)
CONSTANTS
  Sections,     \* those in use, the notifications among them
  Values,       \* what a form can hold besides its secret
  Secrets,
  Blank,        \* an empty field
  Stored,       \* bound: the documents to begin with
  Savers        \* bound: settings requests in flight

Notify == "notify"

Forms == [rest : Values \cup {Blank}, secret : Secrets \cup {Blank}]
Documents == [Sections -> Forms]

ASSUME SettingsAssumption ==
  /\ Notify \in Sections
  /\ Blank \notin Values \cup Secrets
  /\ Stored \subseteq Documents

VARIABLES
  doc,          \* the settings row
  saving        \* the requests

settingsVars == <<doc, saving>>

NotSaving == [pc |-> "idle"]

SettingsInit ==
  /\ doc \in Stored
  /\ saving = [s \in Savers |-> NotSaving]

Hook == doc[Notify].rest
-----------------------------------------------------------------------------
(* The notifications have no secret; elsewhere a blank one keeps the       *)
(* stored one.                                                             *)
NewSection(section, form, stored) ==
  IF section = Notify \/ form.secret # Blank THEN form ELSE [form EXCEPT !.secret = stored.secret]

Loads(s, section, form) ==
  /\ saving[s] = NotSaving
  /\ section = Notify => form.secret = Blank
  /\ saving' = [saving EXCEPT ![s] = [pc |-> "save", section |-> section, form |-> form, loaded |-> doc]]
  /\ UNCHANGED doc

(* Mutant: the document is made of the new section alone. *)
SavesItsSection(s) ==
  /\ saving[s].pc = "save"
  /\ doc' = [x \in Sections |->
               IF x = saving[s].section THEN NewSection(x, saving[s].form, saving[s].loaded[x])
                                        ELSE [rest |-> Blank, secret |-> Blank]]
  /\ saving' = [saving EXCEPT ![s] = NotSaving]

Saves(s) ==
  /\ saving[s].pc = "save"
  /\ doc' = [saving[s].loaded EXCEPT ![saving[s].section] = NewSection(saving[s].section, saving[s].form, @)]
  /\ saving' = [saving EXCEPT ![s] = NotSaving]

(* A number of the form is not a number: nothing is saved. *)
Rejects(s) ==
  /\ saving[s].pc = "save" /\ saving[s].section # Notify
  /\ saving' = [saving EXCEPT ![s] = NotSaving]
  /\ UNCHANGED doc
-----------------------------------------------------------------------------
SettingsTypeOK ==
  /\ doc \in Documents
  /\ saving \in [Savers -> {NotSaving}
                   \cup [pc : {"save"}, section : Sections, form : Forms, loaded : Documents]]
=============================================================================
