-------------------------- MODULE MCUserDirectory --------------------------
(* The instances of UserDirectory that TLC checks; the sets are in the .cfg files. *)
EXTENDS UserDirectory, TLC

\* Requests, ids, emails, passwords and Microsoft identities are interchangeable.
Interchangeable == Permutations(Procs) \cup Permutations(Seeded)
                     \cup Permutations(Ids \ Seeded) \cup Permutations(Emails)
                     \cup Permutations(Pws) \cup Permutations(MsIds)
=============================================================================
