----------------------------- MODULE MCAccounts -----------------------------
\* A TLC instance of Accounts by itself: what calls on members ask for is a role, with or
\* without a password, or to disable or enable the account.
EXTENDS Accounts

MCWant(role, active, password) == [role |-> role, active |-> active, password |-> password]

MCWants ==
    {MCWant("admin", "none", FALSE), MCWant("admin", "none", TRUE),
     MCWant("member", "none", FALSE), MCWant("none", "off", FALSE), MCWant("none", "on", FALSE)}

=============================================================================
