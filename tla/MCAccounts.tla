----------------------------- MODULE MCAccounts -----------------------------
(* Accounts for TLC: ids, names, passwords and requests are interchangeable; *)
(* the first users have one password, and all or none are signed in.         *)
EXTENDS Accounts, TLC

Symmetry == Permutations(Ids) \cup Permutations(Names) \cup Permutations(Pwds)
              \cup Permutations(Requests)

MCInit ==
    /\ Init
    /\ sessions = {} \/ \A id \in Taken(users) : SignedIn(id)
    /\ \A i, j \in Taken(users) : users[i].pwd = users[j].pwd

MCSpec == MCInit /\ [][Next]_vars

=============================================================================
