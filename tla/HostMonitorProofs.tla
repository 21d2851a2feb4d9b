-------------------------- MODULE HostMonitorProofs --------------------------
(***************************************************************************)
(* No first alert is swallowed, for any number of hosts, racing polls and  *)
(* settings requests.                                                      *)
(*                                                                         *)
(* The argument: while nobody asks for no webhook there is one, also in    *)
(* every document a request has loaded; so a poll that is about to send    *)
(* does send.  And a poll calls an issue known only because a poll before  *)
(* it made it so, which has sent it or is still about to.                  *)
(***************************************************************************)
EXTENDS HostMonitor, ServiceCheck, TLAPS

Told(h, k) == k \in told[h] \/ AboutToTell(h, k) \/ unhooked

(* The webhook goes only when somebody asks for that. *)
HookStays ==
  unhooked \/ ( /\ Hook # Blank
                /\ \A s \in Savers : saving[s].pc = "save" =>
                     /\ saving[s].loaded[Notify].rest # Blank
                     /\ saving[s].section = Notify => saving[s].form.rest # Blank )

(* What a poll takes for known was told. *)
KnownWasTold ==
  \A t \in Threads : at[t].pc = "remember" => \A k \in at[t].before : Told(at[t].host, k)

MonitorInv == TypeOK /\ HookStays /\ KnownWasTold /\ SuppressedWasTold

SaveShape == [pc : {"save"}, section : Sections, form : Forms, loaded : Documents]
RememberShape == [pc : {"remember"}, host : Hosts, keys : SUBSET IssueKeys, before : SUBSET IssueKeys]
NotifyShape == [pc : {"notify"}, host : Hosts, new : SUBSET IssueKeys]

(* What a request and a poll that are doing something look like. *)
LEMMA Shapes ==
  ASSUME TypeOK
  PROVE  /\ \A s \in Savers : saving[s].pc = "save" => saving[s] \in SaveShape
         /\ \A t \in Threads :
              /\ at[t].pc = "probe" => at[t] \in [pc : {"probe"}, host : Hosts]
              /\ at[t].pc \in {"store", "compare"} =>
                   at[t] \in [pc : {"store", "compare"}, host : Hosts, reading : Readings]
              /\ at[t].pc = "remember" => at[t] \in RememberShape
              /\ at[t].pc = "notify" => at[t] \in NotifyShape
  <1>1. \A s \in Savers : saving[s] \in {NotSaving} \cup SaveShape
    BY DEF TypeOK, SettingsTypeOK, SaveShape
  <1>2. \A t \in Threads : at[t] \in PollShape  BY DEF TypeOK
  <1>3. \A s \in Savers : saving[s].pc = "save" => saving[s] \in SaveShape
    BY <1>1 DEF NotSaving
  <1>4. QED  BY <1>2, <1>3 DEF PollShape, NoPoll, RememberShape, NotifyShape

(* A saved section is a section. *)
LEMMA NewSectionTyped ==
  ASSUME NEW x \in Sections, NEW form \in Forms, NEW stored \in Forms
  PROVE  /\ NewSection(x, form, stored) \in Forms
         /\ NewSection(x, form, stored).rest = form.rest
  BY DEF NewSection, Forms

(* Issues have keys. *)
LEMMA IssuesTyped ==
  ASSUME NEW r \in Readings
  PROVE  Issues(r) \in SUBSET IssueKeys /\ Snapshot(r) \in [status : {"unknown", "ok", "warn", "bad"}, issues : SUBSET IssueKeys]
  BY DEF Issues, IssueKeys, Snapshot, Status

(* A step keeps the state well typed. *)
LEMMA TypeStep == TypeOK /\ [Next]_vars => TypeOK'
<1> SUFFICES ASSUME TypeOK, [Next]_vars PROVE TypeOK'
  OBVIOUS
<1> USE DEF TypeOK, SettingsTypeOK
<1>a. NoPoll \in PollShape /\ Cycle \in Threads /\ Pollers \subseteq Threads
  BY DEF PollShape, Threads
<1>1. CASE CycleStarts
  BY <1>1 DEF CycleStarts, settingsVars
<1>2. ASSUME NEW t \in Threads, NEW h \in Hosts, at' = [at EXCEPT ![t] = Probing(h)]
      PROVE at' \in [Threads -> PollShape]
  BY <1>2 DEF Probing, PollShape
<1>3. ASSUME NEW h \in Hosts, CycleTakes(h) PROVE TypeOK'
  BY <1>2, <1>3, <1>a DEF CycleTakes, settingsVars
<1>4. ASSUME NEW p \in Pollers, NEW h \in Hosts, PollAsked(p, h) PROVE TypeOK'
  BY <1>2, <1>4, <1>a DEF PollAsked, settingsVars
<1>5. ASSUME NEW t \in Threads, Poll(t) PROVE TypeOK'
  <2>1. CASE Probes(t)
    <3>1. [pc |-> "store", host |-> at[t].host, reading |-> world[at[t].host]] \in PollShape
      BY <2>1, Shapes DEF Probes, PollShape
    <3>2. QED  BY <2>1, <3>1 DEF Probes, settingsVars
  <2>2. CASE Stores(t)
    <3>1. at[t] \in [pc : {"store", "compare"}, host : Hosts, reading : Readings]
      BY <2>2, Shapes DEF Stores
    <3>2. [at[t] EXCEPT !.pc = "compare"] \in PollShape  BY <3>1 DEF PollShape
    <3>3. QED  BY <2>2, <3>1, <3>2, IssuesTyped DEF Stores, settingsVars
  <2>3. CASE Fails(t)
    <3>1. ProbeFailed \in [status : {"unknown", "ok", "warn", "bad"}, issues : SUBSET IssueKeys]
      BY DEF ProbeFailed, IssueKeys
    <3>2. at[t].pc = "store" => Snapshot(at[t].reading) \in [status : {"unknown", "ok", "warn", "bad"}, issues : SUBSET IssueKeys]
      BY Shapes, IssuesTyped
    <3>3. snap' \in [Hosts -> [status : {"unknown", "ok", "warn", "bad"}, issues : SUBSET IssueKeys]]
      BY <2>3, <3>1, <3>2 DEF Fails
    <3>4. QED  BY <1>a, <2>3, <3>3 DEF Fails, settingsVars
  <2>4. CASE Compares(t)
    <3>1. at[t] \in [pc : {"store", "compare"}, host : Hosts, reading : Readings]
      BY <2>4, Shapes DEF Compares
    <3>2. [pc |-> "remember", host |-> at[t].host, keys |-> Issues(at[t].reading),
           before |-> prev[at[t].host]] \in PollShape
      BY <3>1, IssuesTyped DEF PollShape
    <3>3. QED  BY <2>4, <3>2 DEF Compares, settingsVars
  <2>5. CASE Remembers(t)
    <3>1. at[t] \in RememberShape  BY <2>5, Shapes DEF Remembers
    <3>2. [pc |-> "notify", host |-> at[t].host, new |-> New(t)] \in PollShape
      BY <3>1 DEF RememberShape, PollShape, New
    <3>3. QED  BY <1>a, <2>5, <3>1, <3>2 DEF Remembers, settingsVars, RememberShape
  <2>6. CASE Notifies(t)
    <3>1. at[t] \in NotifyShape  BY <2>6, Shapes DEF Notifies
    <3>2. told' \in [Hosts -> SUBSET IssueKeys]  BY <2>6, <3>1 DEF Notifies, NotifyShape
    <3>3. QED  BY <1>a, <2>6, <3>2 DEF Notifies, settingsVars
  <2>7. QED  BY <1>5, <2>1, <2>2, <2>3, <2>4, <2>5, <2>6 DEF Poll
<1>6. ASSUME NEW h \in Hosts, DeletesHost(h) \/ \E r \in Readings : WorldChanges(h, r) PROVE TypeOK'
  BY <1>6 DEF DeletesHost, WorldChanges, Mishap, settingsVars
<1>7. ASSUME NEW s \in Savers, NEW x \in Sections, NEW f \in Forms, SettingsAsked(s, x, f)
      PROVE TypeOK'
  <2>1. [pc |-> "save", section |-> x, form |-> f, loaded |-> doc] \in SaveShape
    BY DEF SaveShape
  <2>2. saving' \in [Savers -> {NotSaving} \cup SaveShape]
    BY <1>7, <2>1 DEF SettingsAsked, Loads, SaveShape
  <2>3. unhooked' \in BOOLEAN  BY <1>7, Zenon DEF SettingsAsked
  <2>4. mishaps' \in Nat  BY <1>7 DEF SettingsAsked, Mishap
  <2>5. UNCHANGED <<doc, hosts, todo, world, snap, prev, at, told>>
    BY <1>7 DEF SettingsAsked, Loads, monitorVars
  <2>6. QED  BY <2>2, <2>3, <2>4, <2>5 DEF SaveShape
<1>8. ASSUME NEW s \in Savers, SettingsAnswered(s) PROVE TypeOK'
  <2>1. UNCHANGED <<monitorVars, mishaps, told, unhooked>>  BY <1>8 DEF SettingsAnswered
  <2>2. saving[s] \in SaveShape  BY <1>8, Shapes DEF SettingsAnswered, Saves, Rejects
  <2>3. \A stored \in Forms : NewSection(saving[s].section, saving[s].form, stored) \in Forms
    BY <2>2, NewSectionTyped DEF SaveShape
  <2>4. doc' \in Documents
    BY <1>8, <2>2, <2>3 DEF SettingsAnswered, Saves, Rejects, SaveShape, Documents
  <2>5. saving' \in [Savers -> {NotSaving} \cup SaveShape]
    BY <1>8 DEF SettingsAnswered, Saves, Rejects, SaveShape
  <2>6. QED  BY <2>1, <2>4, <2>5 DEF monitorVars, SaveShape
<1>9. CASE Restart
  <2>1. NoSnap \in [status : {"unknown", "ok", "warn", "bad"}, issues : SUBSET IssueKeys]
    BY DEF NoSnap
  <2>2. QED  BY <1>9, <1>a, <2>1 DEF Restart, Mishap
<1>10. CASE UNCHANGED vars
  BY <1>10 DEF vars, settingsVars, monitorVars
<1>11. QED
  BY <1>1, <1>3, <1>4, <1>5, <1>6, <1>7, <1>8, <1>9, <1>10 DEF Next

(* At the start nothing is known and nothing is on its way. *)
LEMMA MonitorInit == Init => MonitorInv
<1> SUFFICES ASSUME Init PROVE MonitorInv
  OBVIOUS
<1>1. SettingsTypeOK /\ doc \in Documents
  BY SettingsAssumption DEF Init, SettingsInit, SettingsTypeOK
<1>2. TypeOK
  <2>1. NoSnap \in [status : {"unknown", "ok", "warn", "bad"}, issues : SUBSET IssueKeys]
    BY DEF NoSnap
  <2>2. world \in [Hosts -> Readings]  BY MonitorAssumption DEF Init
  <2>3. unhooked \in BOOLEAN  BY Zenon DEF Init
  <2>4. QED  BY <1>1, <2>1, <2>2, <2>3 DEF Init, TypeOK, PollShape
<1>3. HookStays  BY DEF Init, SettingsInit, HookStays, NotSaving
<1>4. KnownWasTold  BY DEF Init, KnownWasTold, NoPoll
<1>5. SuppressedWasTold  BY DEF Init, SuppressedWasTold
<1>6. QED  BY <1>2, <1>3, <1>4, <1>5 DEF MonitorInv

(* A step keeps the webhook unless somebody asks for none. *)
LEMMA HookStep == TypeOK /\ HookStays /\ [Next]_vars => HookStays'
<1> SUFFICES ASSUME TypeOK, HookStays, [Next]_vars PROVE HookStays'
  OBVIOUS
<1>1. ASSUME UNCHANGED <<settingsVars, unhooked>> PROVE HookStays'
  BY <1>1 DEF HookStays, Hook, settingsVars
<1>2. ASSUME NEW s \in Savers, NEW x \in Sections, NEW f \in Forms, SettingsAsked(s, x, f)
      PROVE HookStays'
  <2>1. /\ doc' = doc
        /\ saving' = [saving EXCEPT ![s] = [pc |-> "save", section |-> x, form |-> f, loaded |-> doc]]
        /\ unhooked' = (unhooked \/ (x = Notify /\ f.rest = Blank))
    BY <1>2 DEF SettingsAsked, Loads
  <2>2. saving'[s] = [pc |-> "save", section |-> x, form |-> f, loaded |-> doc]
        /\ \A q \in Savers : q # s => saving'[q] = saving[q]
    BY <2>1 DEF TypeOK, SettingsTypeOK
  <2>3. CASE unhooked'  BY <2>3 DEF HookStays
  <2>4. CASE ~unhooked'
    <3>1. ~unhooked /\ (x = Notify => f.rest # Blank)  BY <2>1, <2>4
    <3>2. Hook # Blank /\ Hook' # Blank  BY <2>1, <3>1 DEF HookStays, Hook
    <3>3. ASSUME NEW q \in Savers, saving'[q].pc = "save"
          PROVE /\ saving'[q].loaded[Notify].rest # Blank
                /\ saving'[q].section = Notify => saving'[q].form.rest # Blank
      <4>1. CASE q = s  BY <2>2, <3>1, <3>2, <4>1 DEF Hook
      <4>2. CASE q # s  BY <2>2, <3>1, <3>3, <4>2 DEF HookStays
      <4>3. QED  BY <4>1, <4>2
    <3>4. QED  BY <3>2, <3>3 DEF HookStays
  <2>5. QED  BY <2>3, <2>4
<1>3. ASSUME NEW s \in Savers, SettingsAnswered(s) PROVE HookStays'
  <2>1. saving[s] \in SaveShape  BY <1>3, Shapes DEF SettingsAnswered, Saves, Rejects
  <2>2. unhooked' = unhooked /\ \A q \in Savers : saving'[q] = saving[q] \/ saving'[q] = NotSaving
    BY <1>3 DEF SettingsAnswered, Saves, Rejects, TypeOK, SettingsTypeOK
  <2>3. CASE unhooked  BY <2>2, <2>3 DEF HookStays
  <2>4. CASE ~unhooked
    <3>1. Hook' # Blank
      <4>1. CASE Rejects(s)  BY <2>4, <4>1 DEF Rejects, HookStays, Hook
      <4>2. CASE Saves(s)
        <5>1. doc' = [saving[s].loaded EXCEPT ![saving[s].section] =
                        NewSection(saving[s].section, saving[s].form, saving[s].loaded[saving[s].section])]
          BY <4>2 DEF Saves
        <5>2. saving[s].loaded \in [Sections -> Forms] /\ saving[s].section \in Sections /\ saving[s].form \in Forms
          BY <2>1 DEF SaveShape, Documents
        <5>3. /\ saving[s].loaded[Notify].rest # Blank
              /\ saving[s].section = Notify => saving[s].form.rest # Blank
          BY <2>1, <2>4 DEF HookStays, SaveShape
        <5>4. CASE saving[s].section = Notify
          <6>1. doc'[Notify] = NewSection(Notify, saving[s].form, saving[s].loaded[Notify])
            BY <5>1, <5>2, <5>4
          <6>2. doc'[Notify].rest = saving[s].form.rest
            BY <5>2, <5>4, <6>1, NewSectionTyped
          <6>3. QED  BY <5>3, <5>4, <6>2 DEF Hook
        <5>5. CASE saving[s].section # Notify
          BY <5>1, <5>2, <5>3, <5>5, SettingsAssumption DEF Hook
        <5>6. QED  BY <5>4, <5>5
      <4>3. QED  BY <1>3, <4>1, <4>2 DEF SettingsAnswered
    <3>2. QED  BY <2>2, <2>4, <3>1 DEF HookStays, NotSaving
  <2>5. QED  BY <2>3, <2>4
<1>4. CASE Restart
  BY <1>4 DEF Restart, HookStays, Hook, NotSaving
<1>5. CASE CycleStarts \/ \E h \in Hosts : CycleTakes(h)
  BY <1>1, <1>5 DEF CycleStarts, CycleTakes
<1>6. CASE \E p \in Pollers, h \in Hosts : PollAsked(p, h)
  BY <1>1, <1>6 DEF PollAsked
<1>7. CASE \E t \in Threads : Poll(t)
  BY <1>1, <1>7 DEF Poll, Probes, Stores, Fails, Compares, Remembers, Notifies
<1>8. CASE \E h \in Hosts : DeletesHost(h) \/ \E r \in Readings : WorldChanges(h, r)
  BY <1>1, <1>8 DEF DeletesHost, WorldChanges
<1>9. CASE UNCHANGED vars
  BY <1>1, <1>9 DEF vars
<1>10. QED  BY <1>2, <1>3, <1>4, <1>5, <1>6, <1>7, <1>8, <1>9 DEF Next

(* A step keeps what was told told. *)
LEMMA ToldStep ==
  MonitorInv /\ [Next]_vars => KnownWasTold' /\ SuppressedWasTold'
<1> SUFFICES ASSUME MonitorInv, [Next]_vars PROVE KnownWasTold' /\ SuppressedWasTold'
  OBVIOUS
<1> DEFINE Goal == KnownWasTold' /\ SuppressedWasTold'
<1>0. TypeOK /\ HookStays /\ KnownWasTold /\ SuppressedWasTold  BY DEF MonitorInv
<1>1. ASSUME \A h \in Hosts, k \in IssueKeys : Told(h, k) => Told(h, k)',
             \A t \in Threads : at'[t] = at[t] \/ at'[t].pc # "remember",
             prev' = prev
      PROVE Goal
  <2>1. \A h \in Hosts : prev[h] \subseteq IssueKeys  BY <1>0 DEF TypeOK
  <2>2. SuppressedWasTold'
    BY <1>0, <1>1, <2>1 DEF SuppressedWasTold, Told
  <2>3. ASSUME NEW t \in Threads, at'[t].pc = "remember", NEW k \in at'[t].before
        PROVE Told(at[t].host, k)'
    <3>1. at'[t] = at[t]  BY <1>1, <2>3
    <3>2. at[t] \in RememberShape  BY <1>0, <2>3, <3>1, Shapes
    <3>3. Told(at[t].host, k)  BY <1>0, <2>3, <3>1 DEF KnownWasTold
    <3>4. at[t].host \in Hosts /\ k \in IssueKeys  BY <2>3, <3>1, <3>2 DEF RememberShape
    <3>5. QED  BY <1>1, <3>1, <3>3, <3>4
  <2>4. KnownWasTold'  BY <2>3 DEF KnownWasTold
  <2>5. QED  BY <2>2, <2>4
<1>2. ASSUME told' = told, unhooked => unhooked',
             \A t \in Threads : at[t].pc = "notify" => at'[t] = at[t]
      PROVE \A h \in Hosts, k \in IssueKeys : Told(h, k) => Told(h, k)'
  BY <1>2 DEF Told, AboutToTell
<1>3. CASE CycleStarts \/ \E h \in Hosts : CycleTakes(h)
  BY <1>0, <1>1, <1>2, <1>3 DEF CycleStarts, CycleTakes, Probing, NoPoll, TypeOK, PollShape, Threads
<1>4. CASE \E p \in Pollers, h \in Hosts : PollAsked(p, h)
  BY <1>0, <1>1, <1>2, <1>4 DEF PollAsked, Probing, NoPoll, TypeOK, PollShape
<1>5. ASSUME NEW t \in Threads, Probes(t) \/ Stores(t) \/ Fails(t) PROVE Goal
  <2>1. /\ \A u \in Threads : u # t => at'[u] = at[u]
        /\ at[t].pc \in {"probe", "store"} /\ UNCHANGED <<told, unhooked, prev>>
    BY <1>0, <1>5 DEF Probes, Stores, Fails, TypeOK
  <2>2. at'[t].pc \in {"idle", "store", "compare"}
    <3>1. CASE Probes(t) \/ Fails(t)  BY <1>0, <3>1 DEF Probes, Fails, NoPoll, TypeOK
    <3>2. CASE Stores(t)
      <4>1. at[t] \in [pc : {"store", "compare"}, host : Hosts, reading : Readings]
        BY <1>0, <3>2, Shapes DEF Stores
      <4>2. at'[t] = [at[t] EXCEPT !.pc = "compare"]  BY <1>0, <3>2 DEF Stores, TypeOK
      <4>3. QED  BY <4>1, <4>2
    <3>3. QED  BY <1>5, <3>1, <3>2
  <2>3. QED  BY <1>1, <1>2, <2>1, <2>2
<1>6. ASSUME NEW t \in Threads, Compares(t) PROVE Goal
  <2>1. /\ \A u \in Threads : u # t => at'[u] = at[u]
        /\ UNCHANGED <<told, unhooked, prev>>
        /\ at'[t] = [pc |-> "remember", host |-> at[t].host, keys |-> Issues(at[t].reading),
                     before |-> prev[at[t].host]]
        /\ at[t].pc = "compare"
    BY <1>0, <1>6 DEF Compares, TypeOK
  <2>2. \A h \in Hosts, k \in IssueKeys : Told(h, k) => Told(h, k)'  BY <1>2, <2>1
  <2>3. \A h \in Hosts : prev[h] \subseteq IssueKeys  BY <1>0 DEF TypeOK
  <2>4. \A h \in Hosts : \A k \in prev[h] : Told(h, k)  BY <1>0 DEF SuppressedWasTold, Told
  <2>5. SuppressedWasTold'  BY <2>1, <2>2, <2>3, <2>4 DEF SuppressedWasTold, Told
  <2>6. ASSUME NEW u \in Threads, at'[u].pc = "remember", NEW k \in at'[u].before
        PROVE Told(at[u].host, k)' /\ at'[u].host = at[u].host
    <3>1. CASE u = t
      <4>1. at[t].host \in Hosts  BY <1>0, <2>1, Shapes
      <4>2. QED  BY <2>1, <2>2, <2>3, <2>4, <2>6, <3>1, <4>1
    <3>2. CASE u # t
      <4>1. at'[u] = at[u]  BY <2>1, <3>2
      <4>2. at[u] \in RememberShape /\ Told(at[u].host, k)
        BY <1>0, <2>6, <4>1, Shapes DEF KnownWasTold
      <4>3. QED  BY <2>2, <2>6, <4>1, <4>2 DEF RememberShape
    <3>3. QED  BY <3>1, <3>2
  <2>7. QED  BY <2>5, <2>6 DEF KnownWasTold
<1>7. ASSUME NEW t \in Threads, Remembers(t) PROVE Goal
  <2>1. /\ at[t] \in RememberShape /\ at[t].keys \subseteq IssueKeys
        /\ \E host \in Hosts : at[t].host = host
    BY <1>0, <1>7, Shapes DEF Remembers, RememberShape
  <2>2. PICK host \in Hosts : at[t].host = host  BY <2>1
  <2>3. /\ \A u \in Threads : u # t => at'[u] = at[u]
        /\ at'[t] = IF New(t) # {} THEN [pc |-> "notify", host |-> host, new |-> New(t)] ELSE NoPoll
        /\ UNCHANGED <<told, unhooked>> /\ at[t].pc = "remember"
        /\ prev'[host] = at[t].keys /\ \A h \in Hosts : h # host => prev'[h] = prev[h]
    BY <1>0, <1>7, <2>2 DEF Remembers, TypeOK
  <2>4. \A h \in Hosts, k \in IssueKeys : Told(h, k) => Told(h, k)'  BY <1>2, <2>3
  <2>5. \A k \in New(t) : Told(host, k)'
    <3>1. ASSUME NEW k \in New(t) PROVE Told(host, k)'
      <4>1. at'[t].pc = "notify" /\ at'[t].host = host /\ k \in at'[t].new  BY <2>3, <3>1
      <4>2. QED  BY <4>1 DEF Told, AboutToTell
    <3>2. QED  BY <3>1
  <2>6. \A k \in at[t].keys : Told(host, k)'
    <3>1. \A k \in at[t].before : Told(host, k)  BY <1>0, <2>3, <2>2 DEF KnownWasTold
    <3>2. QED  BY <2>1, <2>4, <2>5, <3>1 DEF New
  <2>7. SuppressedWasTold'
    <3>1. \A h \in Hosts : prev[h] \subseteq IssueKeys /\ \A k \in prev[h] : Told(h, k)
      BY <1>0 DEF SuppressedWasTold, Told, TypeOK
    <3>2. \A h \in Hosts : \A k \in prev'[h] : Told(h, k)'
      <4>1. ASSUME NEW h \in Hosts, NEW k \in prev'[h] PROVE Told(h, k)'
        <5>1. CASE h = host  BY <2>3, <2>6, <4>1, <5>1
        <5>2. CASE h # host  BY <2>3, <2>4, <3>1, <4>1, <5>2
        <5>3. QED  BY <5>1, <5>2
      <4>2. QED  BY <4>1
    <3>3. QED  BY <3>2 DEF SuppressedWasTold, Told
  <2>8. KnownWasTold'
    <3>1. ASSUME NEW u \in Threads, at'[u].pc = "remember", NEW k \in at'[u].before
          PROVE Told(at[u].host, k)' /\ at'[u] = at[u]
      <4>1. u # t /\ at'[u] = at[u]  BY <2>3, <3>1 DEF NoPoll
      <4>2. at[u] \in RememberShape /\ Told(at[u].host, k)
        BY <1>0, <3>1, <4>1, Shapes DEF KnownWasTold
      <4>3. QED  BY <2>4, <3>1, <4>1, <4>2 DEF RememberShape
    <3>2. QED  BY <3>1 DEF KnownWasTold
  <2>9. QED  BY <2>7, <2>8
<1>8. ASSUME NEW t \in Threads, Notifies(t) PROVE Goal
  <2>1. at[t] \in NotifyShape  BY <1>0, <1>8, Shapes DEF Notifies
  <2>2. /\ \A u \in Threads : u # t => at'[u] = at[u]
        /\ at'[t] = NoPoll /\ UNCHANGED <<unhooked, prev>>
    BY <1>0, <1>8 DEF Notifies, TypeOK
  <2>3. ASSUME NEW h \in Hosts, NEW k \in IssueKeys, Told(h, k) PROVE Told(h, k)'
    <3>1. CASE unhooked  BY <2>2, <3>1 DEF Told
    <3>2. CASE ~unhooked
      <4>1. told' = [told EXCEPT ![at[t].host] = told[at[t].host] \cup at[t].new]
        BY <1>0, <1>8, <3>2 DEF Notifies, HookStays
      <4>2. \A i \in Hosts : told[i] \subseteq told'[i]  BY <1>0, <2>1, <4>1 DEF TypeOK, NotifyShape
      <4>3. at[t].new \subseteq told'[at[t].host]  BY <1>0, <2>1, <4>1 DEF TypeOK, NotifyShape
      <4>4. CASE k \in told[h]  BY <4>2, <4>4 DEF Told
      <4>5. CASE AboutToTell(h, k)
        <5>1. PICK u \in Threads : at[u].pc = "notify" /\ at[u].host = h /\ k \in at[u].new
          BY <4>5 DEF AboutToTell
        <5>2. CASE u = t  BY <4>3, <5>1, <5>2 DEF Told
        <5>3. CASE u # t
          <6>1. at'[u] = at[u]  BY <2>2, <5>3
          <6>2. QED  BY <5>1, <6>1 DEF Told, AboutToTell
        <5>4. QED  BY <5>2, <5>3
      <4>6. QED  BY <2>3, <3>2, <4>4, <4>5 DEF Told
    <3>3. QED  BY <3>1, <3>2
  <2>4. QED  BY <1>1, <2>2, <2>3 DEF NoPoll
<1>9. CASE \E h \in Hosts : DeletesHost(h) \/ \E r \in Readings : WorldChanges(h, r)
  BY <1>1, <1>2, <1>9 DEF DeletesHost, WorldChanges
<1>10. ASSUME NEW s \in Savers, NEW x \in Sections, NEW f \in Forms, SettingsAsked(s, x, f)
       PROVE Goal
  <2>1. UNCHANGED <<at, prev, told>>  BY <1>10 DEF SettingsAsked, monitorVars
  <2>2. unhooked => unhooked'  BY <1>10 DEF SettingsAsked
  <2>3. QED  BY <1>1, <1>2, <2>1, <2>2
<1>11. ASSUME NEW s \in Savers, SettingsAnswered(s) PROVE Goal
  BY <1>1, <1>2, <1>11 DEF SettingsAnswered, monitorVars
<1>12. CASE Restart
  BY <1>12 DEF Restart, KnownWasTold, SuppressedWasTold, NoPoll
<1>13. CASE UNCHANGED vars
  BY <1>1, <1>2, <1>13 DEF vars, monitorVars
<1>14. QED
  BY <1>3, <1>4, <1>5, <1>6, <1>7, <1>8, <1>9, <1>10, <1>11, <1>12, <1>13 DEF Next, Poll
-----------------------------------------------------------------------------
(* Settings, snapshots, remembered issues and polls keep their shape.      *)
THEOREM MonitorTyped == Spec => []TypeOK
<1>1. Init => TypeOK  BY MonitorInit DEF MonitorInv
<1>2. TypeOK /\ [Next]_vars => TypeOK'  BY TypeStep
<1>3. QED  BY <1>1, <1>2, PTL DEF Spec

(* An issue is held back as known only if it was sent, or is being sent,   *)
(* or somebody asked for no webhook.                                       *)
THEOREM NoAlertIsSwallowed == Spec => []SuppressedWasTold
<1>1. Init => MonitorInv  BY MonitorInit
<1>2. MonitorInv /\ [Next]_vars => MonitorInv'  BY TypeStep, HookStep, ToldStep DEF MonitorInv
<1>3. MonitorInv => SuppressedWasTold  BY DEF MonitorInv
<1>4. QED  BY <1>1, <1>2, <1>3, PTL DEF Spec
-----------------------------------------------------------------------------
(***************************************************************************)
(* The other poller, that of services.py: ServiceCheck, whose names differ *)
(* from those of HostMonitor.  No repair starts in the cooldown of the     *)
(* last one, because only the poller starts repairs: while it probes no    *)
(* other thread does, and the start it read can only have grown older.     *)
(***************************************************************************)
Reading == [pc : {"probe", "fold"}, check : Checks, row : SeenShape, verdict : Verdicts]

(* A row from which a repair may start is the poller's, and the last start *)
(* it tells of is not older than the one the table has.                    *)
Fits(p, w, table) ==
  w.pc \in {"probe", "fold"} /\ w.row.fix =>
    p = Poller /\ (table[w.check] # Gone => w.row.age <= table[w.check].state.age)

RowsFit == \A p \in Probers : Fits(p, work[p], checks)

ChecksInv == ChecksTypeOK /\ RowsFit

(* What a thread looks like, by what it does. *)
LEMMA WorkKinds ==
  ASSUME ChecksTypeOK
  PROVE  \A p \in Probers :
           /\ work[p].pc \in {"idle", "begin", "agent", "audit", "probe", "fold"}
           /\ work[p].pc = "idle" => work[p] = Idle
           /\ work[p].pc # "idle" => work[p].check \in Checks
           /\ work[p].pc \in {"probe", "fold"} => work[p] \in Reading
           /\ work[p].pc \in {"begin", "agent", "audit"} =>
                work[p] = [pc |-> work[p].pc, check |-> work[p].check]
  BY DEF ChecksTypeOK, WorkShape, Idle, Reading

LEMMA LiveIsRow ==
  ASSUME ChecksTypeOK, NEW c \in Checks, Live(c)
  PROVE  /\ checks[c] \in Rows /\ checks[c].config \in ConfigShape
         /\ checks[c].state \in StateShape
  BY DEF ChecksTypeOK, Live, Rows

(* fold_result gives a status and a count. *)
LEMMA FoldsTyped ==
  ASSUME NEW verdict \in Verdicts, NEW fails \in 0 .. MaxFails, NEW threshold \in 1 .. MaxFails
  PROVE  /\ FoldStatus(verdict, fails, threshold) \in Statuses
         /\ FoldCount(verdict, fails) \in 0 .. MaxFails
  BY ChecksAssumption DEF FoldStatus, FoldCount, More, Verdicts, Statuses

(* What a thread takes from a row of the table fits it. *)
LEMMA SeenFits ==
  ASSUME NEW p \in Probers, NEW row \in Rows
  PROVE  /\ Seen(p, row) \in SeenShape
         /\ Seen(p, row).fix => p = Poller /\ Seen(p, row).age = row.state.age
<1> DEFINE fix == p = Poller /\ row.config.autoFix /\ row.config.pinned
<1>1. /\ fix \in BOOLEAN /\ row.state.fails \in 0 .. MaxFails /\ row.config.threshold \in 1 .. MaxFails
      /\ row.state.age \in 0 .. MaxCooldown /\ row.config.cooldown \in 1 .. MaxCooldown
      /\ MaxCooldown \in 0 .. MaxCooldown /\ 1 \in 1 .. MaxCooldown
  BY ChecksAssumption DEF Rows, StateShape, ConfigShape
<1>2. Seen(p, row) = [fails |-> row.state.fails, threshold |-> row.config.threshold, fix |-> fix,
                      age |-> IF fix THEN row.state.age ELSE MaxCooldown,
                      cooldown |-> IF fix THEN row.config.cooldown ELSE 1]
  BY DEF Seen
<1>3. fix => p = Poller  OBVIOUS
<1> HIDE DEF fix
<1>4. QED  BY <1>1, <1>2, <1>3 DEF SeenShape

LEMMA ChecksBegin == ChecksInit => ChecksInv
<1> SUFFICES ASSUME ChecksInit PROVE ChecksInv
  OBVIOUS
<1>1. PICK configs \in [Checks -> UNION {Configs[c] : c \in Checks}] :
        /\ \A c \in Checks : configs[c] \in Configs[c]
        /\ checks = [c \in Checks |-> NewCheck(configs[c])]
  BY DEF ChecksInit
<1>2. \A c \in Checks : configs[c] \in ConfigShape  BY <1>1, ChecksAssumption
<1>3. \A config \in ConfigShape : NewCheck(config) \in Rows
  BY ChecksAssumption DEF NewCheck, Rows, StateShape, Statuses
<1>4. ChecksTypeOK
  BY <1>1, <1>2, <1>3 DEF ChecksInit, ChecksTypeOK, WorkShape, Idle
<1>5. RowsFit  BY DEF ChecksInit, RowsFit, Fits, Idle
<1>6. QED  BY <1>4, <1>5 DEF ChecksInv

(* A write to the row of a check that leaves its last repair alone. *)
LEMMA RowWritten ==
  ASSUME ChecksInv, NEW c \in Checks, Live(c), NEW row \in Rows,
         row.state.age = checks[c].state.age,
         checks' = [checks EXCEPT ![c] = row], UNCHANGED work,
         services' \in [Checks -> Verdicts], dueChecks' \subseteq Checks, acts' \in Nat
  PROVE  ChecksInv'
<1>1. ChecksTypeOK'  BY DEF ChecksInv, ChecksTypeOK
<1>2. ASSUME NEW p \in Probers PROVE Fits(p, work[p], checks')
  <2>1. Fits(p, work[p], checks)  BY DEF ChecksInv, RowsFit
  <2>2. work[p].pc \in {"probe", "fold"} => work[p].check \in Checks  BY WorkKinds DEF ChecksInv
  <2>3. QED  BY <2>1, <2>2 DEF Fits, Live, ChecksInv, ChecksTypeOK
<1>3. QED  BY <1>1, <1>2 DEF ChecksInv, RowsFit

(* A step of one thread that writes no row. *)
LEMMA ThreadMoves ==
  ASSUME ChecksInv, NEW p \in Probers, NEW w \in WorkShape, work' = [work EXCEPT ![p] = w],
         Fits(p, w, checks),
         UNCHANGED checks, services' \in [Checks -> Verdicts], dueChecks' \subseteq Checks,
         acts' \in Nat
  PROVE  ChecksInv'
<1>1. ChecksTypeOK'  BY DEF ChecksInv, ChecksTypeOK
<1>2. work'[p] = w /\ \A q \in Probers : q # p => work'[q] = work[q]
  BY DEF ChecksInv, ChecksTypeOK
<1>3. QED  BY <1>1, <1>2 DEF ChecksInv, RowsFit

LEMMA Returns ==
  ASSUME ChecksTypeOK, NEW p \in Probers, work[p].pc # "idle", NEW raised \in BOOLEAN
  PROVE  \E w \in WorkShape : /\ Return(p, raised) = [work EXCEPT ![p] = w]
                              /\ w.pc \in {"idle", "audit"}
<1>1. work[p].check \in Checks  BY WorkKinds
<1>2. /\ Idle \in WorkShape /\ Idle.pc = "idle"
      /\ [pc |-> "audit", check |-> work[p].check] \in WorkShape
  BY <1>1 DEF WorkShape, Idle
<1>3. QED  BY <1>2 DEF Return

(* run_check begins, on whatever thread. *)
LEMMA ReadingFits ==
  ASSUME ChecksTypeOK, NEW p \in Probers, NEW c \in Checks, ReadsCheck(p, c),
         work[p].pc # "idle" \/ p \notin Repairs
  PROVE  \E w \in WorkShape : work' = [work EXCEPT ![p] = w] /\ Fits(p, w, checks)
<1>1. CASE Live(c)
  <2> DEFINE w == [pc |-> "probe", check |-> c, row |-> Seen(p, checks[c]), verdict |-> "unknown"]
  <2>1. /\ Seen(p, checks[c]) \in SeenShape
        /\ Seen(p, checks[c]).fix => p = Poller /\ Seen(p, checks[c]).age = checks[c].state.age
    BY <1>1, LiveIsRow, SeenFits
  <2>2. checks[c].state.age \in Nat  BY <1>1, LiveIsRow DEF StateShape
  <2>3. w \in WorkShape /\ w.check = c /\ w.row = Seen(p, checks[c])
    BY <2>1 DEF WorkShape, Verdicts
  <2>4. work' = [work EXCEPT ![p] = w]  BY <1>1 DEF ReadsCheck
  <2> HIDE DEF w
  <2>5. Fits(p, w, checks)
    <3>1. w.row.fix => p = Poller /\ w.row.age <= checks[w.check].state.age
      BY <2>1, <2>2, <2>3
    <3>2. QED  BY <3>1 DEF Fits
  <2>6. QED  BY <2>3, <2>4, <2>5
<1>2. CASE ~Live(c)
  <2>1. work' = Return(p, FALSE)  BY <1>2 DEF ReadsCheck
  <2>2. CASE work[p].pc # "idle"
    <3>1. PICK w \in WorkShape : work' = [work EXCEPT ![p] = w] /\ w.pc \in {"idle", "audit"}
      BY <2>1, <2>2, Returns
    <3>2. QED  BY <3>1 DEF Fits
  <2>3. CASE p \notin Repairs
    <3>1. work' = [work EXCEPT ![p] = Idle]  BY <2>1, <2>3 DEF Return
    <3>2. Idle \in WorkShape /\ Idle.pc = "idle"  BY DEF WorkShape, Idle
    <3>3. Fits(p, Idle, checks)  BY <3>2 DEF Fits
    <3>4. QED  BY <3>1, <3>2, <3>3
  <2>4. QED  BY <2>2, <2>3
<1>3. QED  BY <1>1, <1>2

(* run_check, on whatever thread. *)
LEMMA RunCheckKeeps ==
  ASSUME ChecksInv, NEW p \in Probers, RunCheck(p)
  PROVE  ChecksInv'
<1>1. ChecksTypeOK /\ RowsFit  BY DEF ChecksInv
<1>2. ASSUME ProbesService(p) PROVE ChecksInv'
  <2>1. work[p] \in Reading /\ work[p].check \in Checks /\ work[p].pc = "probe"
    BY <1>1, <1>2, WorkKinds DEF ProbesService
  <2> DEFINE w == [work[p] EXCEPT !.pc = "fold", !.verdict = services[work[p].check]]
  <2>2. services[work[p].check] \in Verdicts  BY <1>1, <2>1 DEF ChecksTypeOK
  <2>3. w \in WorkShape /\ w.check = work[p].check /\ w.row = work[p].row
    BY <2>1, <2>2 DEF Reading, WorkShape
  <2>4. work' = [work EXCEPT ![p] = w] /\ UNCHANGED <<checks, services, dueChecks, acts>>
    BY <1>1, <1>2 DEF ProbesService, ChecksTypeOK
  <2> HIDE DEF w
  <2>5. Fits(p, w, checks)  BY <1>1, <2>1, <2>3 DEF RowsFit, Fits
  <2>6. QED  BY <1>1, <2>3, <2>4, <2>5, ThreadMoves DEF ChecksTypeOK
<1>3. ASSUME FoldsGone(p) PROVE ChecksInv'
  <2>1. work[p].pc # "idle" /\ work' = Return(p, TRUE) /\ UNCHANGED <<checks, services, dueChecks, acts>>
    BY <1>3 DEF FoldsGone
  <2>2. PICK w \in WorkShape : work' = [work EXCEPT ![p] = w] /\ w.pc \in {"idle", "audit"}
    BY <1>1, <2>1, Returns
  <2>3. Fits(p, w, checks)  BY <2>2 DEF Fits
  <2>4. QED  BY <1>1, <2>1, <2>2, <2>3, ThreadMoves DEF ChecksTypeOK
<1>4. ASSUME Folds(p) PROVE ChecksInv'
  <2> DEFINE c == work[p].check
             row == work[p].row
             status == FoldStatus(work[p].verdict, row.fails, row.threshold)
             repair == WantsRepair(row, status)
             fails == FoldCount(work[p].verdict, row.fails)
             state == [status |-> status, fails |-> fails, due |-> FALSE,
                       age |-> IF repair THEN 0 ELSE checks[c].state.age]
  <2>1. work[p] \in Reading /\ c \in Checks /\ Live(c) /\ work[p].pc = "fold"
    BY <1>1, <1>4, WorkKinds DEF Folds
  <2>2. /\ checks' = [checks EXCEPT ![c].state = state]
        /\ UNCHANGED <<services, dueChecks, acts>>
    BY <1>4 DEF Folds
  <2>3. IF repair THEN \E r \in Repairs : /\ work[r] = Idle
                                          /\ work' = [Return(p, FALSE) EXCEPT ![r] = Begun(r, c)]
                  ELSE work' = Return(p, FALSE)
    BY <1>4 DEF Folds
  <2>4. status \in Statuses /\ fails \in 0 .. MaxFails
    BY <2>1, FoldsTyped DEF Reading, SeenShape
  <2>5. checks[c] \in Rows /\ checks[c].state \in StateShape  BY <1>1, <2>1, LiveIsRow
  <2>6. repair \in BOOLEAN /\ (repair => row.fix)
    BY <2>1 DEF WantsRepair, Reading, SeenShape
  <2>7. repair => p = Poller  BY <1>1, <2>1, <2>6 DEF RowsFit, Fits
  <2>8. PICK w \in WorkShape : Return(p, FALSE) = [work EXCEPT ![p] = w] /\ w.pc \in {"idle", "audit"}
    BY <1>1, <2>1, Returns
  <2> HIDE DEF status, fails, repair, row
  <2>9. /\ state \in StateShape /\ (~repair => state.age = checks[c].state.age)
    BY <2>4, <2>5, <2>6, ChecksAssumption DEF StateShape
  <2> HIDE DEF state
  <2>10. /\ checks' \in [Checks -> Rows \cup {Gone}]
         /\ checks'[c].state = state /\ \A d \in Checks : d # c => checks'[d] = checks[d]
    BY <1>1, <2>1, <2>2, <2>5, <2>9 DEF ChecksTypeOK, Rows
  <2>11. Begun(Poller, c) \in WorkShape /\ \A r : Begun(r, c) = Begun(Poller, c)
    BY <2>1 DEF Begun, WorkShape
  <2>12. work' \in [Probers -> WorkShape]
    <3>1. Return(p, FALSE) \in [Probers -> WorkShape]  BY <1>1, <2>8 DEF ChecksTypeOK
    <3>2. \A r \in Repairs : [Return(p, FALSE) EXCEPT ![r] = Begun(r, c)] \in [Probers -> WorkShape]
      BY <2>11, <3>1 DEF Probers
    <3>3. QED  BY <2>3, <3>1, <3>2
  <2>13. ChecksTypeOK'  BY <1>1, <2>2, <2>10, <2>12 DEF ChecksTypeOK
  <2>14. ASSUME NEW q \in Probers PROVE Fits(q, work'[q], checks')
    <3>1. CASE work'[q].pc \notin {"probe", "fold"}  BY <3>1 DEF Fits
    <3>2. CASE work'[q].pc \in {"probe", "fold"}
      <4>1. work'[q] = work[q] /\ q # p
        <5>1. Return(p, FALSE)[p] = w /\ \A x \in Probers : x # p => Return(p, FALSE)[x] = work[x]
          BY <1>1, <2>8 DEF ChecksTypeOK
        <5>2. Return(p, FALSE) \in [Probers -> WorkShape]  BY <1>1, <2>8 DEF ChecksTypeOK
        <5>3. \A r : Begun(r, c).pc = "begin"  BY DEF Begun
        <5>4. CASE ~repair  BY <2>3, <2>8, <3>2, <5>1, <5>4
        <5>5. CASE repair
          <6>1. PICK r \in Repairs : work' = [Return(p, FALSE) EXCEPT ![r] = Begun(r, c)]
            BY <2>3, <5>5
          <6>2. q # r  BY <3>2, <5>2, <5>3, <6>1 DEF Probers
          <6>3. work'[q] = Return(p, FALSE)[q]  BY <5>2, <6>1, <6>2
          <6>4. QED  BY <2>8, <3>2, <5>1, <6>3
        <5>6. QED  BY <2>6, <5>4, <5>5
      <4>2. Fits(q, work[q], checks) /\ work[q].check \in Checks
        BY <1>1, <3>2, <4>1, WorkKinds DEF RowsFit
      <4>3. CASE repair
        <5>1. q # Poller  BY <2>7, <4>1, <4>3
        <5>2. QED  BY <4>1, <4>2, <5>1 DEF Fits
      <4>4. CASE ~repair
        <5>1. \A d \in Checks : (checks'[d] # Gone => checks[d] # Gone)
                                /\ checks'[d].state.age = checks[d].state.age
          BY <2>1, <2>9, <2>10, <4>4 DEF Live
        <5>2. QED  BY <4>1, <4>2, <5>1 DEF Fits
      <4>5. QED  BY <2>6, <4>3, <4>4
    <3>3. QED  BY <3>1, <3>2
  <2>15. QED  BY <2>13, <2>14 DEF ChecksInv, RowsFit
<1>5. QED  BY <1>2, <1>3, <1>4 DEF RunCheck

(* Time, settings and deletions. *)
LEMMA ChecksElsewhere ==
  ASSUME ChecksInv, NEW c \in Checks,
         \/ \E v \in Conditions[c] : Changes(c, v)
         \/ BecomesDue(c) \/ Ages(c)
         \/ \E config \in Configs[c] : Edit(c, config)
         \/ Delete(c)
  PROVE  ChecksInv'
<1>1. ChecksTypeOK /\ RowsFit  BY DEF ChecksInv
<1>2. ASSUME NEW v \in Conditions[c], Changes(c, v) PROVE ChecksInv'
  <2>1. v \in Verdicts  BY ChecksAssumption
  <2>2. ChecksTypeOK'  BY <1>1, <1>2, <2>1 DEF Changes, ChecksTypeOK
  <2>3. QED  BY <1>1, <1>2, <2>2 DEF Changes, ChecksInv, RowsFit
<1>3. ASSUME BecomesDue(c) PROVE ChecksInv'
  <2> DEFINE row == [checks[c] EXCEPT !.state.due = TRUE]
  <2>1. row \in Rows /\ row.state.age = checks[c].state.age
    BY <1>1, <1>3, LiveIsRow DEF BecomesDue, Rows, StateShape
  <2>2. /\ Live(c) /\ checks' = [checks EXCEPT ![c] = row]
        /\ UNCHANGED <<services, work, dueChecks, acts>>
    BY <1>3 DEF BecomesDue
  <2> HIDE DEF row
  <2>3. QED  BY <1>1, <2>1, <2>2, RowWritten DEF ChecksTypeOK
<1>4. ASSUME NEW config \in Configs[c], Edit(c, config) PROVE ChecksInv'
  <2> DEFINE row == [checks[c] EXCEPT !.config = config]
  <2>1. row \in Rows /\ row.state.age = checks[c].state.age
    BY <1>1, <1>4, LiveIsRow, ChecksAssumption DEF Edit, Rows, StateShape
  <2>2. /\ Live(c) /\ checks' = [checks EXCEPT ![c] = row] /\ acts' = acts + 1
        /\ UNCHANGED <<services, work, dueChecks>>
    BY <1>4 DEF Edit
  <2> HIDE DEF row
  <2>3. services' \in [Checks -> Verdicts] /\ dueChecks' \subseteq Checks /\ acts' \in Nat
    BY <1>1, <2>2 DEF ChecksTypeOK
  <2>4. QED  BY <2>1, <2>2, <2>3, RowWritten
<1>5. ASSUME Delete(c) PROVE ChecksInv'
  <2>1. checks' = [checks EXCEPT ![c] = Gone] /\ acts' = acts + 1
        /\ UNCHANGED <<services, work, dueChecks>>
    BY <1>5 DEF Delete
  <2>2. ChecksTypeOK'  BY <1>1, <2>1 DEF ChecksTypeOK
  <2>3. \A d \in Checks : checks'[d] # Gone => checks'[d] = checks[d]
    BY <1>1, <2>1 DEF ChecksTypeOK
  <2>4. ASSUME NEW p \in Probers PROVE Fits(p, work[p], checks')
    <3>1. Fits(p, work[p], checks)  BY <1>1 DEF RowsFit
    <3>2. work[p].pc \in {"probe", "fold"} => work[p].check \in Checks  BY <1>1, WorkKinds
    <3>3. QED  BY <2>3, <3>1, <3>2 DEF Fits
  <2>5. QED  BY <2>1, <2>2, <2>4 DEF ChecksInv, RowsFit
<1>6. ASSUME Ages(c) PROVE ChecksInv'
  <2> DEFINE row == [checks[c] EXCEPT !.state.age = Older(@)]
             Aged(w) == [w EXCEPT !.row.age = Older(@)]
             Hit(p) == work[p].pc \in {"probe", "fold"} /\ work[p].check = c
  <2>1. \A age \in 0 .. MaxCooldown : Older(age) \in 0 .. MaxCooldown /\ age <= Older(age)
    BY ChecksAssumption DEF Older
  <2>2. /\ row \in Rows /\ row.state.age = Older(checks[c].state.age)
        /\ checks[c].state.age \in 0 .. MaxCooldown
    BY <1>1, <1>6, <2>1, LiveIsRow DEF Ages, Rows, StateShape
  <2>3. \A w \in Reading : /\ Aged(w) \in Reading /\ Aged(w).pc = w.pc /\ Aged(w).check = w.check
                           /\ Aged(w).row.fix = w.row.fix /\ Aged(w).row.age = Older(w.row.age)
                           /\ w.row.age \in 0 .. MaxCooldown
    BY <2>1 DEF Reading, SeenShape
  <2>4. /\ Live(c) /\ checks' = [checks EXCEPT ![c] = row]
        /\ work' = [p \in Probers |-> IF Hit(p) THEN Aged(work[p]) ELSE work[p]]
        /\ UNCHANGED <<services, dueChecks, acts>>
    BY <1>6 DEF Ages
  <2>5. \A a, b \in 0 .. MaxCooldown : a <= b => Older(a) <= Older(b)
    BY ChecksAssumption DEF Older
  <2> HIDE DEF row, Aged
  <2>6. work' \in [Probers -> WorkShape]
    <3>1. Reading \subseteq WorkShape  BY DEF Reading, WorkShape
    <3>2. \A p \in Probers : Hit(p) => Aged(work[p]) \in WorkShape  BY <1>1, <2>3, <3>1, WorkKinds
    <3>3. QED  BY <1>1, <2>4, <3>2 DEF ChecksTypeOK
  <2>7. /\ checks' \in [Checks -> Rows \cup {Gone}] /\ checks'[c] = row
        /\ \A d \in Checks : d # c => checks'[d] = checks[d]
    BY <1>1, <2>2, <2>4 DEF ChecksTypeOK
  <2>8. ASSUME NEW p \in Probers PROVE Fits(p, work'[p], checks')
    <3>1. Fits(p, work[p], checks)  BY <1>1 DEF RowsFit
    <3>2. CASE Hit(p)
      <4>1. work[p] \in Reading /\ work'[p] = Aged(work[p])  BY <1>1, <2>4, <3>2, WorkKinds
      <4>2. work[p].row.fix => p = Poller /\ work[p].row.age <= checks[c].state.age
        BY <2>4, <3>1, <3>2 DEF Fits, Live
      <4>3. work[p].row.fix => Older(work[p].row.age) <= Older(checks[c].state.age)
        BY <2>2, <2>3, <2>5, <4>1, <4>2
      <4>4. QED  BY <2>2, <2>3, <2>7, <3>2, <4>1, <4>2, <4>3 DEF Fits
    <3>3. CASE ~Hit(p)
      <4>1. work'[p] = work[p]  BY <2>4, <3>3
      <4>2. work[p].pc \in {"probe", "fold"} => work[p].check \in Checks \ {c}
        BY <1>1, <3>3, WorkKinds
      <4>3. QED  BY <2>7, <3>1, <4>1, <4>2 DEF Fits
    <3>4. QED  BY <3>2, <3>3
  <2>9. QED  BY <1>1, <2>4, <2>6, <2>7, <2>8 DEF ChecksInv, ChecksTypeOK, RowsFit
<1>7. QED  BY <1>2, <1>3, <1>4, <1>5, <1>6

(* The poller's cycle, a press of the Test button, and a repair around its *)
(* re-probe.                                                               *)
LEMMA ThreadsGoOn ==
  ASSUME ChecksInv,
         \/ CheckCycleStarts
         \/ \E c \in Checks : PollerTakes(c) \/ \E t \in Testers : TestPressed(t, c)
         \/ \E r \in Repairs : RepairBegins(r) \/ AgentEnds(r) \/ RepairAudits(r)
  PROVE  ChecksInv'
<1>1. ChecksTypeOK /\ RowsFit /\ Poller \in Probers /\ Testers \cup Repairs \subseteq Probers
  BY DEF ChecksInv, Probers
<1>2. /\ Idle \in WorkShape /\ Idle.pc = "idle"
      /\ \A c \in Checks, pc \in {"begin", "agent", "audit"} : [pc |-> pc, check |-> c] \in WorkShape
  BY DEF WorkShape, Idle
<1>3. CASE CheckCycleStarts
  BY <1>1, <1>3 DEF CheckCycleStarts, ChecksInv, ChecksTypeOK, RowsFit
<1>4. ASSUME NEW c \in Checks, PollerTakes(c) PROVE ChecksInv'
  <2>1. /\ ReadsCheck(Poller, c) /\ Poller \notin Repairs
        /\ UNCHANGED <<checks, services, acts>> /\ dueChecks' \subseteq Checks
    BY <1>1, <1>4, ChecksAssumption DEF PollerTakes, ChecksTypeOK
  <2>2. QED  BY <1>1, <2>1, ReadingFits, ThreadMoves DEF ChecksTypeOK
<1>5. ASSUME NEW c \in Checks, NEW t \in Testers, TestPressed(t, c) PROVE ChecksInv'
  <2>1. /\ ReadsCheck(t, c) /\ t \notin Repairs
        /\ UNCHANGED <<checks, services, dueChecks>> /\ acts' \in Nat
    BY <1>1, <1>5, ChecksAssumption DEF TestPressed, ChecksTypeOK
  <2>2. QED  BY <1>1, <2>1, ReadingFits, ThreadMoves DEF ChecksTypeOK
<1>6. ASSUME NEW r \in Repairs, RepairBegins(r) \/ AgentEnds(r) \/ RepairAudits(r) PROVE ChecksInv'
  <2>1. /\ work[r].pc \in {"begin", "agent", "audit"} /\ r \in Probers
        /\ UNCHANGED <<checks, services, dueChecks, acts>>
    BY <1>1, <1>6 DEF RepairBegins, AgentEnds, RepairAudits
  <2>2. /\ work[r].check \in Checks
        /\ work[r] = [pc |-> work[r].pc, check |-> work[r].check]
    BY <1>1, <2>1, WorkKinds
  <2>3. PICK w \in WorkShape : work' = [work EXCEPT ![r] = w] /\ Fits(r, w, checks)
    <3>1. CASE work' = [work EXCEPT ![r] = Idle]  BY <1>2, <3>1 DEF Fits
    <3>2. CASE AgentEnds(r)
      <4>1. ReadsCheck(r, work[r].check)  BY <3>2 DEF AgentEnds
      <4>2. QED  BY <1>1, <2>1, <2>2, <4>1, ReadingFits
    <3>3. CASE work' = [work EXCEPT ![r].pc = "agent"]
      <4>1. [work[r] EXCEPT !.pc = "agent"] = [pc |-> "agent", check |-> work[r].check]  BY <2>2
      <4>2. work' = [work EXCEPT ![r] = [pc |-> "agent", check |-> work[r].check]]
        BY <1>1, <2>1, <3>3, <4>1 DEF ChecksTypeOK
      <4>3. QED  BY <1>2, <2>2, <4>2 DEF Fits
    <3>4. QED  BY <1>6, <3>1, <3>2, <3>3 DEF RepairBegins, RepairAudits
  <2>4. QED  BY <1>1, <2>1, <2>3, ThreadMoves DEF ChecksTypeOK
<1>7. QED  BY <1>3, <1>4, <1>5, <1>6

LEMMA ChecksStep == ChecksInv /\ [ChecksNext]_checkVars => ChecksInv'
<1> SUFFICES ASSUME ChecksInv, [ChecksNext]_checkVars PROVE ChecksInv'
  OBVIOUS
<1>1. CASE UNCHANGED checkVars
  BY <1>1 DEF checkVars, ChecksInv, ChecksTypeOK, RowsFit
<1>2. CASE ChecksNext
  BY <1>2, ChecksElsewhere, ThreadsGoOn, RunCheckKeeps
     DEF ChecksNext, PollChecks, Repair, Probers
<1>3. QED  BY <1>1, <1>2

(* A thread that begins a repair was begun by the poller, from a row whose *)
(* cooldown was over, as it is in the table.                               *)
LEMMA RepairsBeginCool ==
  ASSUME ChecksInv, [ChecksNext]_checkVars, NEW r \in Repairs, NEW c \in Checks,
         work[r] = Idle, work'[r] = Begun(r, c)
  PROVE  /\ work[Poller].pc = "fold" /\ work[Poller].check = c
         /\ checks[c].state.age >= work[Poller].row.cooldown
<1>1. /\ ChecksTypeOK /\ RowsFit /\ Poller \in Probers /\ r \in Probers
      /\ Poller # r /\ work[r].pc = "idle" /\ work'[r].pc = "begin" /\ work'[r].check = c
  BY ChecksAssumption DEF ChecksInv, Probers, Idle, Begun
<1>2. \A p \in Probers, raised \in BOOLEAN :
        (p # r /\ work[p].pc # "idle") \/ p \in Testers \cup {Poller} =>
          Return(p, raised)[r] = work[r]
  BY <1>1, ChecksAssumption DEF Return, ChecksTypeOK
<1>3. PICK p \in Probers : Folds(p)
  <2>1. ~UNCHANGED work  BY <1>1
  <2>2. ASSUME NEW p \in Probers, ProbesService(p) \/ FoldsGone(p)
        PROVE  work'[r].pc # "begin"
    <3>1. work[p].pc # "idle" /\ p # r  BY <1>1, <2>2 DEF ProbesService, FoldsGone
    <3>2. work'[r] = work[r]
      BY <1>1, <1>2, <2>2, <3>1 DEF ProbesService, FoldsGone, ChecksTypeOK
    <3>3. QED  BY <1>1, <3>2
  <2>3. ASSUME NEW p \in Probers, NEW d \in Checks, ReadsCheck(p, d),
               (p # r /\ work[p].pc # "idle") \/ p \in Testers \cup {Poller}
        PROVE  work'[r].pc # "begin"
    <3>1. p # r  BY <1>1, <2>3, ChecksAssumption
    <3>2. work'[r] = work[r]  BY <1>1, <1>2, <2>3, <3>1 DEF ReadsCheck, ChecksTypeOK
    <3>3. QED  BY <1>1, <3>2
  <2>4. ASSUME NEW s \in Repairs, RepairBegins(s) \/ AgentEnds(s) \/ RepairAudits(s)
        PROVE  work'[r].pc # "begin"
    <3>1. s \in Probers /\ s # r /\ work[s].pc # "idle"
      BY <1>1, <2>4 DEF RepairBegins, AgentEnds, RepairAudits, Probers
    <3>2. CASE AgentEnds(s)
      <4>1. work[s].check \in Checks  BY <1>1, <3>1, WorkKinds
      <4>2. QED  BY <2>3, <3>1, <3>2, <4>1 DEF AgentEnds
    <3>3. CASE RepairBegins(s) \/ RepairAudits(s)
      <4>1. work'[r] = work[r]  BY <1>1, <3>1, <3>3 DEF RepairBegins, RepairAudits, ChecksTypeOK
      <4>2. QED  BY <1>1, <4>1
    <3>4. QED  BY <2>4, <3>2, <3>3
  <2>5. ASSUME NEW d \in Checks, PollerTakes(d) PROVE work'[r].pc # "begin"
    BY <1>1, <2>3, <2>5 DEF PollerTakes
  <2>6. ASSUME NEW d \in Checks, NEW t \in Testers, TestPressed(t, d) PROVE work'[r].pc # "begin"
    BY <2>3, <2>6 DEF TestPressed, Probers
  <2>7. ASSUME NEW d \in Checks, Ages(d) PROVE work'[r].pc # "begin"
    BY <1>1, <2>7 DEF Ages
  <2>8. CASE \E p \in Probers : RunCheck(p)  BY <1>1, <2>2, <2>8 DEF RunCheck
  <2>9. CASE ~\E p \in Probers : RunCheck(p)
    <3>1. \/ \E d \in Checks : \/ \E v \in Conditions[d] : Changes(d, v)
                               \/ BecomesDue(d) \/ Ages(d) \/ PollerTakes(d)
                               \/ \E t \in Testers : TestPressed(t, d)
                               \/ \E config \in Configs[d] : Edit(d, config)
                               \/ Delete(d)
          \/ CheckCycleStarts
          \/ \E s \in Repairs : RepairBegins(s) \/ AgentEnds(s) \/ RepairAudits(s)
      BY <2>1, <2>9 DEF ChecksNext, checkVars, PollChecks, Repair, Probers
    <3>2. QED
      BY <1>1, <2>1, <2>4, <2>5, <2>6, <2>7, <3>1
         DEF CheckCycleStarts, Changes, BecomesDue, Edit, Delete
  <2>10. QED  BY <2>8, <2>9
<1>4. /\ p # r /\ work[p].pc = "fold" /\ work[p].check \in Checks /\ work[p] \in Reading
      /\ Live(work[p].check)
  BY <1>1, <1>3, WorkKinds DEF Folds
<1>5. Return(p, FALSE) \in [Probers -> WorkShape] /\ Return(p, FALSE)[r] = work[r]
  <2>1. \E w \in WorkShape : Return(p, FALSE) = [work EXCEPT ![p] = w]
    BY <1>1, <1>4, Returns
  <2>2. QED  BY <1>1, <1>4, <2>1 DEF ChecksTypeOK
<1> DEFINE status == FoldStatus(work[p].verdict, work[p].row.fails, work[p].row.threshold)
<1>6. /\ WantsRepair(work[p].row, status)
      /\ \E s \in Repairs : work' = [Return(p, FALSE) EXCEPT ![s] = Begun(s, work[p].check)]
  BY <1>1, <1>3, <1>5 DEF Folds
<1>7. work[p].check = c
  <2>1. PICK s \in Repairs : work' = [Return(p, FALSE) EXCEPT ![s] = Begun(s, work[p].check)]
    BY <1>6
  <2>2. s = r  BY <1>1, <1>5, <2>1
  <2>3. QED  BY <1>1, <1>5, <2>1, <2>2 DEF Begun
<1>8. work[p].row.fix /\ work[p].row.age >= work[p].row.cooldown  BY <1>6 DEF WantsRepair
<1>9. p = Poller /\ work[p].row.age <= checks[c].state.age
  BY <1>1, <1>4, <1>7, <1>8 DEF RowsFit, Fits, Live
<1>10. /\ work[p].row.age \in Nat /\ work[p].row.cooldown \in Nat /\ checks[c].state.age \in Nat
  BY <1>1, <1>4, <1>7, LiveIsRow DEF Reading, SeenShape, StateShape
<1>11. QED  BY <1>4, <1>7, <1>8, <1>9, <1>10

(* Rows and threads of the checks keep their shape.                        *)
THEOREM ChecksTyped == ChecksSpec => []ChecksTypeOK
<1>1. ChecksInv => ChecksTypeOK  BY DEF ChecksInv
<1>2. QED  BY <1>1, ChecksBegin, ChecksStep, PTL DEF ChecksSpec

(* The poller decides on a repair from a row it read before the probe, and *)
(* whatever was edited, tested or repaired meanwhile, the last repair is   *)
(* older than the cooldown it read (services.auto_fix_ready,               *)
(* _maybe_auto_fix).                                                       *)
THEOREM RepairsWaitOutTheCooldown == ChecksSpec => NoRepairInCooldown
<1>1. ChecksInv /\ [ChecksNext]_checkVars =>
        [\A c \in Checks, r \in Repairs :
           work[r] = Idle /\ work'[r] = Begun(r, c) =>
             /\ work[Poller].pc = "fold" /\ work[Poller].check = c
             /\ checks[c].state.age >= work[Poller].row.cooldown]_checkVars
  BY RepairsBeginCool
<1>2. QED  BY <1>1, ChecksBegin, ChecksStep, PTL DEF ChecksSpec, NoRepairInCooldown
=============================================================================
