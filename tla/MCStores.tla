------------------------------ MODULE MCStores ------------------------------
(* Two ids of each kind of row. *)
EXTENDS Stores

MCIds == {1, 2}
MCValues == {0, 1}
MCHosts == {"a", "b"}
MCPages == [limit : {-1, 1, 2}, offset : {-1, 0, 1, 2}]
MCGroups == {"members", "projects", "invitations", "apps", "config", "data", "refresh", "reset",
             "api", "billing", "usage", "catalog"}

=============================================================================
