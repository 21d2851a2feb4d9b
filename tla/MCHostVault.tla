---------------------------- MODULE MCHostVault ----------------------------
(* Small instances of HostVault: a host that is reached by its password, by *)
(* a shared credential whose user it takes over, or by a key of its own.    *)
EXTENDS HostVault, TLC

CONSTANTS a1, a2, admin, k1, k2, p1, c1

Row(address, user, cred, password, own) ==
  [address |-> address, user |-> user, cred |-> cred, password |-> password, own |-> own]

SomeRows == {None, Row(a1, Blank, Blank, p1, Blank), Row(a1, Blank, c1, Blank, Blank), Row(a1, admin, c1, Blank, k2)}
SomeShared == {None, [user |-> admin, key |-> k1]}
SomeAccepted == {{<<a1, Root, p1>>, <<a1, admin, k1>>, <<a1, admin, k2>>}}

(* Moved, another user, attached or detached, a new key, a new password. *)
SomeForms ==
  {Row(a2, Blank, Blank, Blank, Blank), Row(a1, admin, c1, Blank, Blank), Row(a1, Blank, c1, Blank, Blank),
   Row(a1, admin, Blank, Blank, k2), Row(a1, Blank, Blank, p1, Blank)}

(* Nothing else is said of the keys that provisioning makes, nor of which  *)
(* request is which.                                                       *)
KeysAndRequestsAreAlike == Permutations(FreshKeys) \cup Permutations(Requests)
=============================================================================
