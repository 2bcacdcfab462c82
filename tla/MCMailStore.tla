---------------------------- MODULE MCMailStore ----------------------------
(* The instances of MailStore that TLC checks; the sets are in the .cfg files. *)
EXTENDS MailStore, TLC

\* Requests, users, messages, row ids and folders are interchangeable.
Interchangeable == Permutations(Procs) \cup Permutations(Users) \cup
                   Permutations(Mids) \cup Permutations(Ids) \cup Permutations(Folders)
=============================================================================
