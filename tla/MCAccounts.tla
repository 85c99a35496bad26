---------------------------- MODULE MCAccounts ----------------------------
(* The instance of Accounts that TLC checks. *)
EXTENDS Accounts, TLC

\* Requests are interchangeable, and so are passwords.
Symmetry == Permutations(Requests) \cup Permutations(Passwords)

\* Histories with more than one mishap since the last undisturbed reset are left
\* out.
OneMishap == \A m, n \in mishaps : m = n
=============================================================================
