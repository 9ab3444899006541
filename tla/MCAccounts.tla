------------------------------ MODULE MCAccounts ------------------------------
(***************************************************************************)
(* Small instances for TLC of the two sides of an account: its life, in    *)
(* Accounts, and what it may do, in AccessMatrix.  They write different    *)
(* tables, and a behaviour is one of one of them.                          *)
(***************************************************************************)
EXTENDS Accounts, AccessMatrix, TLC

VARIABLE part

\* The manifest names two people, of whom dylan is to be the administrator;
\* its second version grants one permission more.
MCGrants ==
  <<{<<"ADMIN", "users.roles.manage">>},
    {<<"ADMIN", "users.roles.manage">>, <<"SALES", "sales.create">>}>>

MCSeedRoles == {<<"dylan", "ADMIN">>, <<"luden", "SALES">>}

MCSeedGrants == {<<"dylan", "sales.cancel">>}

PartsInit == part \in {"accounts", "access"} /\ Init /\ AccessInit

PartsNext ==
  /\ UNCHANGED part
  /\ \/ part = "accounts" /\ Next /\ UNCHANGED matrix
     \/ part = "access" /\ AccessNext /\ UNCHANGED vars

PartsSpec == PartsInit /\ [][PartsNext]_<<part, vars, matrix>>

Interchangeable ==
  Permutations(Token) \cup Permutations(Session) \cup Permutations(Hash)
    \cup Permutations(Request)
=============================================================================
