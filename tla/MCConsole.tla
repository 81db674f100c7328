------------------------------ MODULE MCConsole ------------------------------
EXTENDS Console

\* One account of each role, assigned to a live room, and one not yet onboarded.
Account(role) ==
    [role |-> role, assigned |-> "active", status |-> "live", form |-> "f0", team |-> "two",
     org |-> "o0", prefs |-> "on", name |-> "n0"]

StartFacts ==
    {Account(r) : r \in Roles}
      \cup {[Account("volunteer") EXCEPT !.org = "none", !.assigned = "none"]}

EntryPages == {"dashboard", "login", "reset", "verify", "watch", "builder"}

OtherFacts == {<<"status", "cancelled">>, <<"assigned", "revoked">>, <<"form", "f1">>}
=============================================================================
