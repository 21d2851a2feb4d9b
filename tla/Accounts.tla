------------------------------ MODULE Accounts ------------------------------
(***************************************************************************)
(* The people who may use the program (auth.py, and app.py's routes for    *)
(* users): rows with a unique name and a role, changed by administrators'  *)
(* requests that first read and then write.  The role is read from the row *)
(* on every request, so a session is no more than the id of an account.    *)
(***************************************************************************)
EXTENDS FiniteSets, Naturals

CONSTANTS
  Uids,       \* bound: ids of accounts, never used again
  Names,      \* user names
  Roles,
  Unused, Gone,
  FirstUsers, \* the accounts to begin with
  Forms,      \* bound: administrators' requests in flight
  MaxEvents   \* bound: requests, and whatever else comes from outside

AccountShape == [name : Names, role : Roles]

ASSUME AccountsAssumption ==
  /\ "admin" \in Roles
  /\ Unused \notin AccountShape /\ Gone \notin AccountShape /\ Unused # Gone
  /\ FirstUsers \in [Uids -> AccountShape \cup {Unused}]
  /\ \A u, v \in Uids : FirstUsers[u] # Unused /\ FirstUsers[v] # Unused
                         /\ FirstUsers[u].name = FirstUsers[v].name => u = v
  /\ MaxEvents \in Nat

VARIABLES
  users,      \* table users
  form,       \* the requests
  budget      \* bound: events still to come

accountVars == <<users, form, budget>>

NoForm == [op |-> "none"]

Exists(u) == users[u] \in AccountShape
Admins == {u \in Uids : Exists(u) /\ users[u].role = "admin"}
Taken(name) == \E u \in Uids : Exists(u) /\ users[u].name = name

AccountsInit ==
  /\ users = FirstUsers
  /\ form = [f \in Forms |-> NoForm]
  /\ budget = MaxEvents
-----------------------------------------------------------------------------
Spends == budget > 0 /\ budget' = budget - 1

Arrives(f, by, r) ==
  /\ form[f] = NoForm /\ Spends
  /\ by \in Admins
  /\ form' = [form EXCEPT ![f] = r]
  /\ UNCHANGED users

(* create_user finds the name free. *)
AsksToCreate(f, by, name, role) ==
  /\ ~Taken(name)
  /\ Arrives(f, by, [op |-> "create", name |-> name, role |-> role])

AsksForRole(f, by, u, role) == Arrives(f, by, [op |-> "role", uid |-> u, role |-> role])

(* Nobody deletes himself. *)
AsksToDelete(f, by, u) == by # u /\ Arrives(f, by, [op |-> "delete", uid |-> u])

FormEnds(f) == form' = [form EXCEPT ![f] = NoForm] /\ UNCHANGED budget

(* Mutant: nothing but create_user's look keeps names apart. *)
CreatesAnyway(f) ==
  /\ form[f].op = "create"
  /\ \E u \in Uids :
       /\ users[u] = Unused
       /\ users' = [users EXCEPT ![u] = [name |-> form[f].name, role |-> form[f].role]]
  /\ FormEnds(f)

(* The INSERT of a name taken meanwhile fails. *)
Creates(f) ==
  /\ form[f].op = "create"
  /\ IF Taken(form[f].name)
       THEN UNCHANGED users
       ELSE \E u \in Uids :
              /\ users[u] = Unused
              /\ users' = [users EXCEPT ![u] = [name |-> form[f].name, role |-> form[f].role]]
  /\ FormEnds(f)

(* An UPDATE or a DELETE of an account that has gone changes nothing. *)
SetsRole(f) ==
  /\ form[f].op = "role"
  /\ users' = [users EXCEPT ![form[f].uid] =
                 IF Exists(form[f].uid) THEN [@ EXCEPT !.role = form[f].role] ELSE @]
  /\ FormEnds(f)

(* delete_user reads the account and, if it is an administrator's, counts; *)
(* it deletes in a later statement, whatever the count is by then.         *)
Looks(f) ==
  /\ form[f].op = "delete" /\ Exists(form[f].uid)
  /\ form[f].uid \in Admins => Cardinality(Admins) > 1
  /\ form' = [form EXCEPT ![f] = [op |-> "drop", uid |-> form[f].uid]]
  /\ UNCHANGED <<users, budget>>

KeepsAccount(f) ==
  /\ form[f].op = "delete"
  /\ ~Exists(form[f].uid) \/ Admins = {form[f].uid}
  /\ FormEnds(f) /\ UNCHANGED users

Deletes(f) ==
  /\ form[f].op = "drop"
  /\ users' = [users EXCEPT ![form[f].uid] = Gone]
  /\ FormEnds(f)

AccountsNext ==
  \E f \in Forms :
    \/ \E by \in Uids, name \in Names, role \in Roles : AsksToCreate(f, by, name, role)
    \/ \E by, u \in Uids, role \in Roles : AsksForRole(f, by, u, role)
    \/ \E by, u \in Uids : AsksToDelete(f, by, u)
    \/ Creates(f) \/ SetsRole(f) \/ Looks(f) \/ KeepsAccount(f) \/ Deletes(f)
-----------------------------------------------------------------------------
FormShape ==
  {NoForm} \cup [op : {"create"}, name : Names, role : Roles]
           \cup [op : {"role"}, uid : Uids, role : Roles]
           \cup [op : {"delete", "drop"}, uid : Uids]

AccountsTypeOK ==
  /\ users \in [Uids -> AccountShape \cup {Unused, Gone}]
  /\ form \in [Forms -> FormShape]
  /\ budget \in Nat

(* A name is one account's, so that a login and the bot's act_as mean one  *)
(* person: two requests that both found it free do not both create it.     *)
NamesAreUnique ==
  \A u, v \in Uids : Exists(u) /\ Exists(v) /\ users[u].name = users[v].name => u = v
=============================================================================
