--------------------------- MODULE MCAdminAccounts ---------------------------
EXTENDS AdminAccounts, TLC

Interchangeable ==
    Permutations(Accounts) \cup Permutations(Passwords) \cup Permutations(Managers)
      \cup Permutations(Logins)
=============================================================================
