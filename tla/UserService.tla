----------------------------- MODULE UserService -----------------------------
(***************************************************************************)
(* internal/inmem/user.go: the accounts, in a slice without a lock.        *)
(*                                                                         *)
(* CreateUser reads the slice three times, with a bcrypt hash in between:  *)
(* for the e-mail, for the new ID, and for the append, whose result it     *)
(* stores.  WebApp interleaves these steps of several signups.  The words  *)
(* of the slice header are read and written together here; what a torn     *)
(* header would do is up to the compiler and the machine.                  *)
(***************************************************************************)
EXTENDS Naturals, Sequences

CONSTANTS
  Emails,
  Passwords,
  LongPasswords,  \* those of more than 72 bytes, which bcrypt does not hash
  TestUser        \* <<email, password>> of the user NewUserService creates

Credentials == Emails \X Passwords

ASSUME UserAssumption == TestUser \in Credentials /\ LongPasswords \subseteq Passwords

VARIABLE users    \* s.users

Users == [id : Nat \ {0}, cred : Credentials]

UserInit == users = <<[id |-> 1, cred |-> TestUser]>>

\* The scan of CreateUser.
EmailTaken(email) == \E n \in DOMAIN users : users[n].cred[1] = email

\* What Authenticate(email, password) returns: the ID of the first account of
\* this e-mail, if the password is its own; 0 stands for an error.
Authenticate(cred) ==
  LET found == {n \in DOMAIN users : users[n].cred[1] = cred[1]}
      first == CHOOSE n \in found : \A m \in found : n <= m
  IN IF found # {} /\ users[first].cred = cred THEN users[first].id ELSE 0

Exists(id) == \E n \in DOMAIN users : users[n].id = id

=============================================================================
