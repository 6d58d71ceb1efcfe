----------------------------- MODULE MCAccounts -----------------------------
(* Instances of Accounts for TLC.                                          *)
EXTENDS Accounts, TLC
CONSTANTS i1, i2, x1, x2, m1, m2, h1, h2

SqliteServer == [driver |-> "sqlite", seedEmail |-> None, clients |-> 2,
                 fields |-> {"enabled", "direct", "roles"}, features |-> {}]
MysqlServer == [driver |-> "mysql", seedEmail |-> m1, clients |-> 1,
                fields |-> {"email", "enabled", "roles"}, features |-> {"crashes", "staleRoles"}]
RoleEditServer == [SqliteServer EXCEPT !.clients = 1, !.features = {"roleEdits"}]

MCServers == {SqliteServer, MysqlServer}
MCRoleEditServers == {RoleEditServer}

\* Ids are given out in any order, and handlers are alike.
Symmetric == Permutations(Ids) \cup Permutations(Roles) \cup Permutations(Requests)
=============================================================================
