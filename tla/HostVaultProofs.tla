--------------------------- MODULE HostVaultProofs ---------------------------
(***************************************************************************)
(* A host's key is the last one it was given, and no switch of keys locks  *)
(* the app out, for any number of hosts, credentials and requests.         *)
(*                                                                         *)
(* The argument for the second: a request that is about to switch has seen *)
(* the machine accept its user and key, the credential it names has not    *)
(* changed (credentials are only inserted and deleted), and the row it     *)
(* writes to, which may have been edited, still names that place and user. *)
(***************************************************************************)
EXTENDS HostVault, TLAPS

Working == {"deploy", "test", "switch"}
JobShape == [pc : Working, host : Hosts, rec : Rows, secrets : SecretsShape,
             cred : CredFields, user : UserFields, key : Keys]
EditShape == [pc : {"edit"}, host : Hosts, rec : Rows, form : Rows]
DropShape == [pc : {"drop"}, cred : Credentials]

(* A request logs in as the row's user, else as the credential's.          *)
JobUser(r) ==
  IF at[r].cred # Blank /\ at[r].rec.user = Blank THEN credentials[at[r].cred].user ELSE at[r].rec.user

(* The credential a request works with is the one it read.                 *)
CredentialsLast ==
  \A r \in Requests : at[r].pc \in Working =>
    /\ at[r].cred # Blank => credentials[at[r].cred] # None
    /\ at[r].cred # Blank /\ credentials[at[r].cred] \in Shared => credentials[at[r].cred].key = at[r].key
    /\ (at[r].cred # Blank => credentials[at[r].cred] \in Shared) => at[r].user = JobUser(r)

LoginOf(user) == IF user = Blank THEN Root ELSE user

(* The machine accepts what a request is about to store. *)
SwitchesAreVerified ==
  \A r \in Requests : at[r].pc = "switch" /\ ~tampered
                      => <<at[r].rec.address, LoginOf(at[r].user), at[r].key>> \in accepted

VaultInv == TypeOK /\ LastKeyWins /\ CredentialsLast /\ SwitchesAreVerified

(* What a request that is doing something looks like. *)
LEMMA Shapes ==
  ASSUME TypeOK, NEW r \in Requests
  PROVE  /\ at[r].pc = "edit" => at[r] \in EditShape
         /\ at[r].pc = "drop" => at[r] \in DropShape
         /\ at[r].pc \in Working => at[r] \in JobShape
  BY DEF TypeOK, RequestShape, Idle, EditShape, DropShape, JobShape, Working

(* The secrets of a row are secrets. *)
LEMMA SecretsTyped ==
  ASSUME TypeOK, NEW row \in Rows
  PROVE  SecretsFor(row) \in SecretsShape
<1>1. CASE Lends(row)
  <2>1. credentials[row.cred] \in Shared  BY <1>1 DEF Lends
  <2>2. QED  BY <1>1, <2>1 DEF SecretsFor, SecretsShape, Rows, Shared
<1>2. CASE ~Lends(row)
  BY <1>2 DEF SecretsFor, SecretsShape, Rows
<1>3. QED  BY <1>1, <1>2

(* What an edit or a switch stores is a row. *)
LEMMA UpdatedTyped ==
  ASSUME NEW row \in Rows, NEW form \in Rows
  PROVE  /\ Updated(row, form) \in Rows
         /\ Updated(row, form).own = IF form.own = Blank THEN row.own ELSE form.own
  BY DEF Updated, Rows

LEMMA SwitchedTyped ==
  ASSUME NEW row \in Rows, NEW r \in Requests, at[r] \in JobShape
  PROVE  /\ Switched(r, row) \in Rows
         /\ Switched(r, row).own = IF at[r].cred = Blank THEN at[r].key ELSE row.own
         /\ Switched(r, row).cred = IF at[r].cred = Blank THEN row.cred ELSE at[r].cred
         /\ Switched(r, row).address = row.address /\ Switched(r, row).user = row.user
         /\ Switched(r, row).password = row.password
  BY DEF Switched, Rows, JobShape

(* A step keeps the state well typed, and each host at its last key. *)
LEMMA TypeStep == TypeOK /\ LastKeyWins /\ [Next]_vars => TypeOK' /\ LastKeyWins'
<1> SUFFICES ASSUME TypeOK, LastKeyWins, [Next]_vars PROVE TypeOK' /\ LastKeyWins'
  OBVIOUS
<1> USE DEF TypeOK, LastKeyWins
<1>a. Idle \in RequestShape  BY DEF RequestShape
<1>b. None \notin Rows /\ Gone \notin Rows  BY VaultAssumption
<1>1. ASSUME NEW h \in Hosts, Deletes(h) PROVE TypeOK' /\ LastKeyWins'
  BY <1>1, <1>b DEF Deletes, Mishap
<1>2. ASSUME NEW h \in Hosts, NEW row \in Forms, Creates(h, row) PROVE TypeOK' /\ LastKeyWins'
  <2>1. row \in Rows /\ row.own \in Keys \cup {Blank}  BY VaultAssumption DEF Rows
  <2>2. QED  BY <1>2, <2>1 DEF Creates, Mishap
<1>3. ASSUME NEW c \in Credentials, NEW shared \in Shared, CreatesCredential(c, shared)
      PROVE TypeOK' /\ LastKeyWins'
  BY <1>3 DEF CreatesCredential, Mishap
<1>4. ASSUME NEW r \in Requests, NEW h \in Hosts, NEW form \in Forms, EditAsked(r, h, form)
      PROVE TypeOK' /\ LastKeyWins'
  <2>1. [pc |-> "edit", host |-> h, rec |-> hosts[h], form |-> form] \in RequestShape
    BY <1>4, VaultAssumption DEF EditAsked, RequestShape
  <2>2. QED  BY <1>4, <2>1 DEF EditAsked, Mishap
<1>5. ASSUME NEW r \in Requests, NEW h \in Hosts, NEW c \in CredFields, NEW user \in UserFields,
             NEW key \in Keys, hosts[h] \in Rows
      PROVE Job(h, c, user, key) \in RequestShape
  BY <1>5, SecretsTyped DEF Job, RequestShape
<1>6. ASSUME NEW r \in Requests, NEW h \in Hosts, NEW key \in FreshKeys, Provisions(r, h, key)
      PROVE TypeOK' /\ LastKeyWins'
  <2>1. hosts[h].user \in UserFields /\ key \in Keys /\ Blank \in CredFields
    BY <1>6, VaultAssumption DEF Provisions, Rows, CredFields
  <2>2. QED  BY <1>5, <1>6, <2>1 DEF Provisions
<1>7. ASSUME NEW r \in Requests, NEW h \in Hosts, NEW c \in Credentials, DeploysCredential(r, h, c)
      PROVE TypeOK' /\ LastKeyWins'
  <2> DEFINE user == IF hosts[h].user = Blank THEN credentials[c].user ELSE hosts[h].user
  <2>1. user \in UserFields /\ credentials[c].key \in Keys /\ c \in CredFields
    BY <1>7 DEF DeploysCredential, Rows, Shared, CredFields
  <2>2. Job(h, c, user, credentials[c].key) \in RequestShape
    BY <1>5, <1>7, <2>1 DEF DeploysCredential
  <2>3. QED  BY <1>7, <2>2 DEF DeploysCredential
<1>8. ASSUME NEW r \in Requests, NEW c \in Credentials, Detaches(r, c) PROVE TypeOK' /\ LastKeyWins'
  <2>1. \A h \in Hosts : hosts[h] \in Rows =>
          [hosts[h] EXCEPT !.cred = Blank] \in Rows /\ [hosts[h] EXCEPT !.cred = Blank].own = hosts[h].own
    BY DEF Rows, CredFields
  <2>2. [pc |-> "drop", cred |-> c] \in RequestShape  BY DEF RequestShape
  <2>3. hosts' \in [Hosts -> Rows \cup {None, Gone}]  BY <1>8, <2>1 DEF Detaches
  <2>4. LastKeyWins'  BY <1>8, <2>1 DEF Detaches
  <2>5. QED  BY <1>8, <2>2, <2>3, <2>4 DEF Detaches, Mishap
<1>9. ASSUME NEW r \in Requests, Edits(r) PROVE TypeOK' /\ LastKeyWins'
  <2>1. at[r] \in EditShape /\ at[r].form \in Rows /\ at[r].host \in Hosts /\ at[r].form.own \in Keys \cup {Blank}
    BY <1>9, Shapes DEF Edits, EditShape, Rows
  <2>2. \A row \in Rows : /\ Updated(row, at[r].form) \in Rows
                          /\ Updated(row, at[r].form).own = IF at[r].form.own = Blank THEN row.own ELSE at[r].form.own
    BY <2>1, UpdatedTyped
  <2>3. hosts' \in [Hosts -> Rows \cup {None, Gone}] /\ lastKey' \in [Hosts -> Keys \cup {Blank}]
    BY <1>9, <2>1, <2>2 DEF Edits
  <2>4. LastKeyWins'
    <3>1. ASSUME NEW h \in Hosts, hosts'[h] \in Rows PROVE hosts'[h].own = lastKey'[h]
      <4>1. CASE h = at[r].host
        <5>1. hosts[h] \in Rows  BY <1>9, <1>b, <2>1, <3>1, <4>1 DEF Edits
        <5>2. hosts'[h] = Updated(hosts[h], at[r].form)  BY <1>9, <2>1, <4>1, <5>1 DEF Edits
        <5>3. lastKey'[h] = IF at[r].form.own = Blank THEN lastKey[h] ELSE at[r].form.own
          BY <1>9, <2>1, <4>1 DEF Edits
        <5>4. QED  BY <2>2, <5>1, <5>2, <5>3
      <4>2. CASE h # at[r].host
        <5>1. hosts'[h] = hosts[h] /\ lastKey'[h] = lastKey[h]  BY <1>9, <2>1, <4>2 DEF Edits
        <5>2. QED  BY <3>1, <5>1
      <4>3. QED  BY <4>1, <4>2
    <3>2. QED  BY <3>1
  <2>5. QED  BY <1>9, <1>a, <2>3, <2>4 DEF Edits
<1>10. ASSUME NEW r \in Requests, Drops(r) PROVE TypeOK' /\ LastKeyWins'
  <2>1. at[r] \in DropShape  BY <1>10, Shapes DEF Drops
  <2>2. QED  BY <1>10, <1>a, <2>1 DEF Drops, DropShape
<1>11. ASSUME NEW r \in Requests, Deploys(r) \/ DeployFails(r) \/ Tests(r) \/ TestFails(r)
       PROVE TypeOK' /\ LastKeyWins'
  <2>1. at[r] \in JobShape
    BY <1>11, Shapes DEF Deploys, DeployFails, Tests, TestFails, Working
  <2>2. \A pc \in {"test", "switch"} : [at[r] EXCEPT !.pc = pc] \in RequestShape
    BY <2>1 DEF JobShape, RequestShape, Working
  <2>3. Authorised(r) \subseteq Logins
    BY <2>1, VaultAssumption DEF Authorised, Logins, LoginUser, JobShape, SecretsShape, Rows, UserFields, Secrets
  <2>4. accepted' \subseteq Logins
    BY <1>11, <2>3 DEF Deploys, DeployFails, Tests, TestFails
  <2>5. at' \in [Requests -> RequestShape]
    BY <1>11, <1>a, <2>2 DEF Deploys, DeployFails, Tests, TestFails
  <2>6. UNCHANGED <<hosts, credentials, generated, mishaps, lastKey, tampered>>
    BY <1>11 DEF Deploys, DeployFails, Tests, TestFails
  <2>7. QED  BY <2>4, <2>5, <2>6
<1>12. ASSUME NEW r \in Requests, Switches(r) PROVE TypeOK' /\ LastKeyWins'
  <2>1. at[r] \in JobShape /\ at[r].host \in Hosts /\ at[r].key \in Keys
    BY <1>12, Shapes DEF Switches, Working, JobShape
  <2>2. \A row \in Rows : /\ Switched(r, row) \in Rows
                          /\ Switched(r, row).own = IF at[r].cred = Blank THEN at[r].key ELSE row.own
    BY <2>1, SwitchedTyped
  <2>3. hosts' \in [Hosts -> Rows \cup {None, Gone}] /\ lastKey' \in [Hosts -> Keys \cup {Blank}]
    BY <1>12, <2>1, <2>2 DEF Switches
  <2>4. LastKeyWins'
    <3>1. ASSUME NEW h \in Hosts, hosts'[h] \in Rows PROVE hosts'[h].own = lastKey'[h]
      <4>1. CASE h = at[r].host
        <5>1. hosts[h] \in Rows  BY <1>12, <1>b, <2>1, <3>1, <4>1 DEF Switches
        <5>2. hosts'[h] = Switched(r, hosts[h])  BY <1>12, <2>1, <4>1, <5>1 DEF Switches
        <5>3. lastKey'[h] = IF at[r].cred # Blank THEN lastKey[h] ELSE at[r].key
          BY <1>12, <2>1, <4>1 DEF Switches
        <5>4. QED  BY <2>2, <5>1, <5>2, <5>3
      <4>2. CASE h # at[r].host
        <5>1. hosts'[h] = hosts[h] /\ lastKey'[h] = lastKey[h]  BY <1>12, <2>1, <4>2 DEF Switches
        <5>2. QED  BY <3>1, <5>1
      <4>3. QED  BY <4>1, <4>2
    <3>2. QED  BY <3>1
  <2>5. QED  BY <1>12, <1>a, <2>3, <2>4 DEF Switches
<1>13. CASE Restart
  BY <1>13, <1>a DEF Restart, Mishap
<1>14. ASSUME NEW login \in Logins, ChangesOutside(login) PROVE TypeOK' /\ LastKeyWins'
  BY <1>14 DEF ChangesOutside, Mishap
<1>15. CASE UNCHANGED vars
  BY <1>15 DEF vars
<1>16. QED
  BY <1>1, <1>2, <1>3, <1>4, <1>6, <1>7, <1>8, <1>9, <1>10, <1>11, <1>12, <1>13, <1>14, <1>15 DEF Next

(* There are no requests to begin with. *)
LEMMA VaultInit == Init => VaultInv
<1> SUFFICES ASSUME Init PROVE VaultInv
  OBVIOUS
<1>1. \A h \in Hosts : hosts[h] \in Rows \cup {None}  BY VaultAssumption DEF Init
<1>2. lastKey \in [Hosts -> Keys \cup {Blank}]  BY <1>1 DEF Init, Rows
<1>3. TypeOK
  BY <1>2, VaultAssumption DEF Init, TypeOK, RequestShape
<1>4. LastKeyWins  BY <1>1, VaultAssumption DEF Init, LastKeyWins
<1>5. CredentialsLast /\ SwitchesAreVerified
  BY DEF Init, CredentialsLast, SwitchesAreVerified, Idle, Working
<1>6. QED  BY <1>3, <1>4, <1>5 DEF VaultInv

(* A step keeps what a request knows of its credential. *)
LEMMA CredentialStep == TypeOK /\ CredentialsLast /\ [Next]_vars => CredentialsLast'
<1> SUFFICES ASSUME TypeOK, CredentialsLast, [Next]_vars PROVE CredentialsLast'
  OBVIOUS
<1> USE DEF TypeOK
<1>a. None \notin Shared /\ Gone \notin Shared /\ None # Gone  BY VaultAssumption
<1>1. ASSUME \A r \in Requests : \/ at'[r] = at[r]
                                 \/ at'[r].pc \notin Working
                                 \/ /\ at[r].pc \in Working
                                    /\ at'[r].cred = at[r].cred /\ at'[r].key = at[r].key
                                    /\ at'[r].user = at[r].user /\ at'[r].rec = at[r].rec,
             \A c \in Credentials : \/ credentials'[c] = credentials[c]
                                    \/ credentials[c] = None /\ credentials'[c] \in Shared
                                    \/ credentials'[c] = Gone
      PROVE CredentialsLast'
  <2> SUFFICES ASSUME NEW r \in Requests, at'[r].pc \in Working
               PROVE  /\ at'[r].cred # Blank => credentials'[at'[r].cred] # None
                      /\ at'[r].cred # Blank /\ credentials'[at'[r].cred] \in Shared
                           => credentials'[at'[r].cred].key = at'[r].key
                      /\ (at'[r].cred # Blank => credentials'[at'[r].cred] \in Shared)
                           => at'[r].user = IF at'[r].cred # Blank /\ at'[r].rec.user = Blank
                                            THEN credentials'[at'[r].cred].user ELSE at'[r].rec.user
    BY DEF CredentialsLast, JobUser
  <2>1. /\ at[r].pc \in Working /\ at'[r].cred = at[r].cred /\ at'[r].key = at[r].key
        /\ at'[r].user = at[r].user /\ at'[r].rec = at[r].rec
    BY <1>1
  <2>2. at[r] \in JobShape  BY <2>1, Shapes
  <2>3. at[r].cred # Blank => at[r].cred \in Credentials  BY <2>2 DEF JobShape, CredFields
  <2>4. /\ at[r].cred # Blank => credentials[at[r].cred] # None
        /\ at[r].cred # Blank /\ credentials[at[r].cred] \in Shared => credentials[at[r].cred].key = at[r].key
        /\ (at[r].cred # Blank => credentials[at[r].cred] \in Shared)
             => at[r].user = IF at[r].cred # Blank /\ at[r].rec.user = Blank
                             THEN credentials[at[r].cred].user ELSE at[r].rec.user
    BY <2>1 DEF CredentialsLast, JobUser
  <2>5. CASE at[r].cred = Blank  BY <2>1, <2>4, <2>5
  <2>6. CASE at[r].cred # Blank
    <3>1. \/ credentials'[at[r].cred] = credentials[at[r].cred]
          \/ credentials'[at[r].cred] = Gone
      BY <1>1, <2>3, <2>4, <2>6
    <3>2. QED  BY <1>a, <2>1, <2>4, <2>6, <3>1
  <2>7. QED  BY <2>5, <2>6
<1>2. ASSUME NEW r \in Requests, NEW h \in Hosts, NEW c \in CredFields, NEW user, NEW key \in Keys,
             at' = [at EXCEPT ![r] = Job(h, c, user, key)], credentials' = credentials,
             c # Blank => credentials[c] \in Shared /\ credentials[c].key = key,
             user = IF c # Blank /\ hosts[h].user = Blank THEN credentials[c].user ELSE hosts[h].user
      PROVE CredentialsLast'
  <2>1. at'[r] = Job(h, c, user, key) /\ \A q \in Requests : q # r => at'[q] = at[q]
    BY <1>2
  <2>2. /\ at'[r].cred = c /\ at'[r].key = key /\ at'[r].user = user /\ at'[r].rec = hosts[h]
    BY <2>1 DEF Job
  <2> SUFFICES ASSUME NEW q \in Requests, at'[q].pc \in Working
               PROVE  /\ at'[q].cred # Blank => credentials[at'[q].cred] # None
                      /\ at'[q].cred # Blank /\ credentials[at'[q].cred] \in Shared
                           => credentials[at'[q].cred].key = at'[q].key
                      /\ (at'[q].cred # Blank => credentials[at'[q].cred] \in Shared)
                           => at'[q].user = IF at'[q].cred # Blank /\ at'[q].rec.user = Blank
                                            THEN credentials[at'[q].cred].user ELSE at'[q].rec.user
    BY <1>2 DEF CredentialsLast, JobUser
  <2>3. CASE q = r  BY <1>2, <1>a, <2>2, <2>3
  <2>4. CASE q # r  BY <2>1, <2>4 DEF CredentialsLast, JobUser
  <2>5. QED  BY <2>3, <2>4
<1>3. ASSUME NEW r \in Requests, NEW h \in Hosts, NEW key \in FreshKeys, Provisions(r, h, key)
      PROVE CredentialsLast'
  <2>1. Blank \in CredFields /\ key \in Keys  BY VaultAssumption DEF CredFields
  <2>2. QED  BY <1>2, <1>3, <2>1 DEF Provisions
<1>4. ASSUME NEW r \in Requests, NEW h \in Hosts, NEW c \in Credentials, DeploysCredential(r, h, c)
      PROVE CredentialsLast'
  <2>1. c \in CredFields /\ c # Blank  BY VaultAssumption DEF CredFields
  <2>2. credentials[c] \in Shared /\ credentials[c].key \in Keys  BY <1>4 DEF DeploysCredential, Shared
  <2>3. QED  BY <1>2, <1>4, <2>1, <2>2 DEF DeploysCredential
<1>5. CASE \E h \in Hosts : Deletes(h) \/ \E row \in Forms : Creates(h, row)
  BY <1>1, <1>5 DEF Deletes, Creates
<1>6. CASE \E c \in Credentials, shared \in Shared : CreatesCredential(c, shared)
  BY <1>1, <1>6 DEF CreatesCredential
<1>7. ASSUME NEW r \in Requests,
             \/ \E h \in Hosts, form \in Forms : EditAsked(r, h, form)
             \/ \E c \in Credentials : Detaches(r, c)
             \/ Edits(r) \/ DeployFails(r) \/ TestFails(r) \/ Switches(r)
      PROVE CredentialsLast'
  <2>1. credentials' = credentials
    BY <1>7 DEF EditAsked, Detaches, Edits, DeployFails, TestFails, Switches
  <2>2. at'[r].pc \in {"idle", "edit", "drop"} /\ \A q \in Requests : q # r => at'[q] = at[q]
    BY <1>7 DEF EditAsked, Detaches, Edits, DeployFails, TestFails, Switches, Idle
  <2>3. QED  BY <1>1, <2>1, <2>2 DEF Working
<1>8. ASSUME NEW r \in Requests, Drops(r) PROVE CredentialsLast'
  <2>1. at'[r].pc = "idle" /\ \A q \in Requests : q # r => at'[q] = at[q]  BY <1>8 DEF Drops, Idle
  <2>2. \A c \in Credentials : credentials'[c] = credentials[c] \/ credentials'[c] = Gone  BY <1>8 DEF Drops
  <2>3. QED  BY <1>1, <2>1, <2>2 DEF Working
<1>9. ASSUME NEW r \in Requests, Deploys(r) \/ Tests(r) PROVE CredentialsLast'
  <2>1. at[r] \in JobShape /\ at[r].pc \in Working  BY <1>9, Shapes DEF Deploys, Tests, Working
  <2>2. credentials' = credentials /\ \A q \in Requests : q # r => at'[q] = at[q]
    BY <1>9 DEF Deploys, Tests
  <2>3. \E pc \in Working : at'[r] = [at[r] EXCEPT !.pc = pc]  BY <1>9 DEF Deploys, Tests, Working
  <2>4. /\ at'[r].cred = at[r].cred /\ at'[r].key = at[r].key
        /\ at'[r].user = at[r].user /\ at'[r].rec = at[r].rec
    BY <2>1, <2>3 DEF JobShape
  <2>5. QED  BY <1>1, <2>1, <2>2, <2>4
<1>10. CASE Restart \/ \E login \in Logins : ChangesOutside(login)
  BY <1>1, <1>10 DEF Restart, ChangesOutside, Idle, Working
<1>11. CASE UNCHANGED vars
  BY <1>1, <1>11 DEF vars
<1>12. QED
  BY <1>3, <1>4, <1>5, <1>6, <1>7, <1>8, <1>9, <1>10, <1>11 DEF Next

(* A test has seen the machine accept the key. *)
LEMMA TestVerifies ==
  ASSUME TypeOK, CredentialsLast, NEW r \in Requests, Tests(r)
  PROVE  <<at[r].rec.address, LoginOf(at[r].user), at[r].key>> \in accepted
<1>1. at[r] \in JobShape /\ at[r].pc \in Working  BY Shapes DEF Tests, Working
<1>2. \E s \in {TestKey(r), Blank} : <<at[r].rec.address, LoginOf(at[r].user), s>> \in accepted
  BY DEF Tests, Verified, Opens, LoginUser, LoginOf
<1>3. \A a, u : <<a, u, Blank>> \notin accepted
  BY VaultAssumption DEF TypeOK, Logins, Secrets
<1>4. <<at[r].rec.address, LoginOf(at[r].user), TestKey(r)>> \in accepted  BY <1>2, <1>3
<1>5. TestKey(r) = Blank \/ TestKey(r) = at[r].key  BY <1>1 DEF TestKey, CredentialsLast
<1>6. QED  BY <1>3, <1>4, <1>5

(* A step keeps what was verified, unless somebody takes a login away. *)
LEMMA VerifiedStep ==
  TypeOK /\ CredentialsLast /\ SwitchesAreVerified /\ [Next]_vars => SwitchesAreVerified'
<1> SUFFICES ASSUME TypeOK, CredentialsLast, SwitchesAreVerified, [Next]_vars
             PROVE SwitchesAreVerified'
  OBVIOUS
<1> USE DEF TypeOK
<1>1. ASSUME accepted \subseteq accepted', tampered' = tampered,
             \A r \in Requests : at'[r] = at[r] \/ at'[r].pc # "switch"
      PROVE SwitchesAreVerified'
  BY <1>1 DEF SwitchesAreVerified
<1>2. ASSUME NEW r \in Requests, Tests(r) PROVE SwitchesAreVerified'
  <2>1. at[r] \in JobShape  BY <1>2, Shapes DEF Tests, Working
  <2>2. at'[r] = [at[r] EXCEPT !.pc = "switch"] /\ UNCHANGED <<accepted, tampered>>
        /\ \A q \in Requests : q # r => at'[q] = at[q]
    BY <1>2 DEF Tests
  <2>3. at'[r].rec = at[r].rec /\ at'[r].user = at[r].user /\ at'[r].key = at[r].key
    BY <2>1, <2>2 DEF JobShape
  <2>4. QED  BY <1>2, <2>2, <2>3, TestVerifies DEF SwitchesAreVerified
<1>3. ASSUME NEW login \in Logins, ChangesOutside(login) PROVE SwitchesAreVerified'
  BY <1>3 DEF ChangesOutside, SwitchesAreVerified
<1>4. CASE \E h \in Hosts : Deletes(h) \/ \E row \in Forms : Creates(h, row)
  BY <1>1, <1>4 DEF Deletes, Creates
<1>5. CASE \E c \in Credentials, shared \in Shared : CreatesCredential(c, shared)
  BY <1>1, <1>5 DEF CreatesCredential
<1>6. ASSUME NEW r \in Requests,
             \/ \E h \in Hosts, form \in Forms : EditAsked(r, h, form)
             \/ \E h \in Hosts, key \in FreshKeys : Provisions(r, h, key)
             \/ \E h \in Hosts, c \in Credentials : DeploysCredential(r, h, c)
             \/ \E c \in Credentials : Detaches(r, c)
             \/ Edits(r) \/ Drops(r) \/ Deploys(r) \/ DeployFails(r) \/ TestFails(r) \/ Switches(r)
      PROVE SwitchesAreVerified'
  <2>1. accepted \subseteq accepted' /\ tampered' = tampered
    BY <1>6 DEF EditAsked, Provisions, DeploysCredential, Detaches, Edits, Drops, Deploys, DeployFails,
                TestFails, Switches, Authorised
  <2>2. \A q \in Requests : q # r => at'[q] = at[q]
    BY <1>6 DEF EditAsked, Provisions, DeploysCredential, Detaches, Edits, Drops, Deploys, DeployFails,
                TestFails, Switches
  <2>3. at'[r].pc # "switch"
    <3>1. CASE Deploys(r)
      <4>1. at[r] \in JobShape /\ at'[r] = [at[r] EXCEPT !.pc = "test"]
        BY <3>1, Shapes DEF Deploys, Working
      <4>2. QED  BY <4>1 DEF JobShape
    <3>2. CASE ~Deploys(r)
      BY <1>6, <3>2 DEF EditAsked, Provisions, DeploysCredential, Detaches, Edits, Drops, DeployFails,
                        TestFails, Switches, Job, Idle
    <3>3. QED  BY <3>1, <3>2
  <2>4. QED  BY <1>1, <2>1, <2>2, <2>3
<1>7. CASE Restart
  BY <1>1, <1>7 DEF Restart, Idle
<1>8. CASE UNCHANGED vars
  BY <1>1, <1>8 DEF vars
<1>9. QED  BY <1>2, <1>3, <1>4, <1>5, <1>6, <1>7, <1>8 DEF Next

(* Only the last step of its request switches a host under it. *)
LEMMA OnlySwitchesSwitch ==
  ASSUME VaultInv, [Next]_vars, NEW r \in Requests, NEW h \in Hosts, Switching(r, h)
  PROVE  Switches(r)
<1> USE DEF Switching, Idle
<1>1. at[r].pc = "switch" /\ at[r] # Idle /\ at'[r] # at[r] /\ hosts' # hosts
  OBVIOUS
<1>2. ~ \E g \in Hosts : Deletes(g) \/ \E row \in Forms : Creates(g, row)
  BY <1>1 DEF Deletes, Creates
<1>3. ~ \E c \in Credentials, shared \in Shared : CreatesCredential(c, shared)
  BY <1>1 DEF CreatesCredential
<1>4. ~Restart /\ ~ (\E login \in Logins : ChangesOutside(login)) /\ ~UNCHANGED vars
  BY <1>1 DEF Restart, ChangesOutside, vars
<1>5. PICK q \in Requests :
        \/ \E g \in Hosts : \/ \E form \in Forms : EditAsked(q, g, form)
                            \/ \E key \in FreshKeys : Provisions(q, g, key)
                            \/ \E c \in Credentials : DeploysCredential(q, g, c)
        \/ \E c \in Credentials : Detaches(q, c)
        \/ Edits(q) \/ Drops(q)
        \/ Deploys(q) \/ DeployFails(q) \/ Tests(q) \/ TestFails(q) \/ Switches(q)
  BY <1>2, <1>3, <1>4 DEF Next
<1>6. q # r => at'[r] = at[r]
  BY <1>5 DEF VaultInv, TypeOK, EditAsked, Provisions, DeploysCredential, Detaches, Edits, Drops,
              Deploys, DeployFails, Tests, TestFails, Switches
<1>7. q = r  BY <1>1, <1>6
<1>8. QED
  BY <1>1, <1>5, <1>7 DEF EditAsked, Provisions, DeploysCredential, Detaches, Edits, Drops,
                          Deploys, DeployFails, Tests, TestFails

(* A host that a switch writes to, unedited and untampered, stays open. *)
LEMMA SwitchOpens ==
  ASSUME VaultInv, [Next]_vars, NEW r \in Requests, NEW h \in Hosts,
         Switching(r, h), Reaches(h), StillTrue(r, h)
  PROVE  Reaches(h)'
<1> DEFINE row == hosts[h]
           new == Switched(r, row)
<1>1. Switches(r)  BY OnlySwitchesSwitch
<1>2. at[r] \in JobShape /\ at[r].pc = "switch" /\ at[r].host = h /\ at[r].pc \in Working
  BY <1>1, Shapes DEF VaultInv, Switches, Working, Switching
<1>3. row \in Rows /\ Opens(row.address, SecretsFor(row))  BY DEF Reaches
<1>4. hosts'[h] = new /\ credentials' = credentials /\ accepted' = accepted
  BY <1>1, <1>2, <1>3 DEF Switches, VaultInv, TypeOK
<1>5. /\ new \in Rows /\ new.own = IF at[r].cred = Blank THEN at[r].key ELSE row.own
      /\ new.cred = IF at[r].cred = Blank THEN row.cred ELSE at[r].cred
      /\ new.address = row.address /\ new.user = row.user /\ new.password = row.password
  BY <1>2, <1>3, SwitchedTyped
<1>6. at[r].key # Blank  BY <1>2, VaultAssumption DEF JobShape, Secrets
<1>7. <<row.address, LoginOf(at[r].user), at[r].key>> \in accepted
  BY <1>2 DEF VaultInv, SwitchesAreVerified, StillTrue
<1>8. /\ at[r].cred # Blank => credentials[at[r].cred].key = at[r].key
      /\ at[r].user = IF at[r].cred # Blank /\ row.user = Blank
                      THEN credentials[at[r].cred].user ELSE row.user
  BY <1>2 DEF VaultInv, CredentialsLast, StillTrue, JobUser
<1>9. Opens(new.address, SecretsFor(new))
  <2>1. CASE at[r].cred = Blank
    <3>1. SecretsFor(new) = [user |-> row.user, password |-> row.password, key |-> at[r].key]
      BY <1>5, <1>6, <2>1 DEF SecretsFor, Lends
    <3>2. at[r].user = row.user  BY <1>8, <2>1
    <3>3. QED  BY <1>5, <1>7, <3>1, <3>2 DEF Opens, LoginUser, LoginOf
  <2>2. CASE at[r].cred # Blank /\ row.own # Blank
    <3>1. SecretsFor(new) = SecretsFor(row)  BY <1>5, <2>2 DEF SecretsFor, Lends
    <3>2. QED  BY <1>3, <1>5, <3>1
  <2>3. CASE at[r].cred # Blank /\ row.own = Blank
    <3>1. Lends(new)  BY <1>5, <2>3 DEF Lends, StillTrue
    <3>2. SecretsFor(new) = [user |-> at[r].user, password |-> row.password, key |-> at[r].key]
      BY <1>5, <1>8, <2>3, <3>1 DEF SecretsFor
    <3>3. QED  BY <1>5, <1>7, <3>2 DEF Opens, LoginUser, LoginOf
  <2>4. QED  BY <2>1, <2>2, <2>3
<1>10. QED  BY <1>4, <1>5, <1>9 DEF Reaches, Opens, SecretsFor, Lends

(* The invariant is inductive. *)
LEMMA VaultStep == VaultInv /\ [Next]_vars => VaultInv'
  BY TypeStep, CredentialStep, VerifiedStep DEF VaultInv

LEMMA VaultInductive == Spec => []VaultInv
  BY VaultInit, VaultStep, PTL DEF Spec

(* Rows and requests always hold what the code puts there. *)
THEOREM VaultTyped == Spec => []TypeOK
<1>1. VaultInv => TypeOK  BY DEF VaultInv
<1>2. QED  BY <1>1, VaultInductive, PTL

(* No edit, deployment or deletion brings an older key of a host back. *)
THEOREM LastKeyIsKept == Spec => []LastKeyWins
<1>1. VaultInv => LastKeyWins  BY DEF VaultInv
<1>2. QED  BY <1>1, VaultInductive, PTL

(* What a test of the form of a saved host uses is what saving it leaves.  *)
LEMMA TestsTheForm == TypeOK => TestMirrorsSave
<1> SUFFICES ASSUME TypeOK, NEW h \in Hosts, NEW form \in Rows, hosts[h] \in Rows,
                    KeepsTheLender(hosts[h], form), KeepsTheUser(hosts[h], form)
             PROVE  Tested(hosts[h], form) = SecretsFor(Updated(hosts[h], form))
  BY DEF TestMirrorsSave
<1> DEFINE row == hosts[h]
           saved == Updated(row, form)
<1>1. /\ saved.user = form.user /\ saved.cred = form.cred
      /\ saved.password = IF form.password = Blank THEN row.password ELSE form.password
      /\ saved.own = IF form.own = Blank THEN row.own ELSE form.own
  BY DEF Updated, Rows
<1>2. Blank \notin Keys  BY VaultAssumption DEF Secrets
<1>3. CASE form.own # Blank
  <2>1. ~Lends(saved)  BY <1>1, <1>3 DEF Lends
  <2>2. form.user = Blank => SecretsFor(row).user = Blank
    BY <1>3 DEF KeepsTheUser, SecretsFor
  <2>3. QED  BY <1>1, <1>3, <2>1, <2>2 DEF Tested, SecretsFor
<1>4. CASE form.own = Blank /\ Lends(row)
  <2>1. saved.cred = row.cred /\ saved.own = Blank  BY <1>1, <1>4 DEF KeepsTheLender, Lends
  <2>2. Lends(saved)  BY <1>4, <2>1 DEF Lends
  <2>3. credentials[row.cred].key # Blank  BY <1>2, <1>4 DEF Lends, Shared
  <2>4. form.user = Blank => row.user = Blank  BY DEF KeepsTheUser
  <2>5. QED  BY <1>1, <1>4, <2>1, <2>2, <2>3, <2>4 DEF Tested, SecretsFor
<1>5. CASE form.own = Blank /\ ~Lends(row)
  <2>1. form.user = Blank => row.user = Blank  BY DEF KeepsTheUser
  <2>2. Lends(saved) <=> row.own = Blank /\ form.cred # Blank /\ credentials[form.cred] \in Shared
    BY <1>1, <1>5 DEF Lends
  <2>3. QED  BY <1>1, <1>5, <2>1, <2>2 DEF Tested, SecretsFor
<1>6. QED  BY <1>3, <1>4, <1>5

(* Testing the form of a saved host (host_test) tries what saving it would *)
(* store, for every row and every form that neither replaces the           *)
(* credential which lends the key, nor leaves out the user where the row   *)
(* or its credential gives one.                                            *)
THEOREM TestsAreSaves == Spec => []TestMirrorsSave
<1>1. VaultInv => TestMirrorsSave  BY TestsTheForm DEF VaultInv
<1>2. QED  BY <1>1, VaultInductive, PTL

(* A switch of keys never locks the app out of a host it could open. *)
THEOREM SwitchIsSafe == Spec => SwitchKeepsAccess
<1>1. VaultInv /\ [Next]_vars
      => [\A r \in Requests, h \in Hosts :
            Switching(r, h) /\ Reaches(h) /\ StillTrue(r, h) => Reaches(h)']_vars
  BY SwitchOpens
<1>2. QED  BY <1>1, VaultInductive, PTL DEF Spec, SwitchKeepsAccess

=============================================================================
