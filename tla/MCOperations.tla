------------------------------ MODULE MCOperations ----------------------------
EXTENDS Operations
Remotes2 == <<"origin", "fork">>
AllKinds == {"fetch", "fetchAll", "pull", "push", "force", "delete"}
=============================================================================
