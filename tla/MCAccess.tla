------------------------------- MODULE MCAccess -------------------------------
\* An owner who may be made a clerk or deactivated; a logout beside other uses
\* of the same token; two analyses, and tools for a service with the account of a clerk;
\* Google replaces key 1 by key 2.
EXTENDS Access, TLC

CONSTANTS r1, r2

MCClerk == [role |-> "ESTOQUISTA", store |-> 1]

MCOwner == [role |-> "DONO", store |-> 1]

MCAccounts == {Gone, MCClerk, MCOwner}

MCRotation == <<{1}, {2}>>

MCWorkloads ==
    {{<<"local", "logout">>, <<"local", "write">>},
     {<<"legacy", "write">>, <<"legacy", "logout">>},
     {<<"local", "analysis">>},
     {<<"customer", "write">>, <<"firebase2", "logout">>},
     {<<"service", "a2a">>}, {<<"service", "mcp">>}}
=============================================================================
