------------------------------ MODULE MCUpdates ------------------------------
(***************************************************************************)
(* Two people, their base roles, a team and a service, and the requests    *)
(* administrators send about them.                                         *)
(***************************************************************************)
EXTENDS Updates

CONSTANTS ana, bob, rAna, rBob, team, shop, read, write

MCAccounts == {ana, bob}
MCRoles    == {rAna, rBob, team}
MCServices == {shop}
MCBaseRole == [a \in MCAccounts |-> IF a = ana THEN rAna ELSE rBob]
MCPerms    == {read, write}

Person(n) == [name |-> n, email |-> n, picture |-> "old"]
MCInitRecords == [id \in Book!Ids |->
  CASE id = ana -> Person("ana") [] id = bob -> Person("bob")
    [] id \in Roles -> [name |-> CASE id = rAna -> "rAna" [] id = rBob -> "rBob" [] id = team -> "team"]
    [] id = shop -> [name |-> "shop", permissionName |-> "shop", amUrl |-> "old"]]
MCValues == {"ana", "bob", "rAna", "rBob", "team", "shop", "old", "new", "crew"}

MCInitRows == {Book!BindingRow(rAna, ana), Book!BindingRow(rBob, bob),
               Book!BindingRow(team, ana), Book!PermissionRow(team, write)}

MCRank == [x \in MCAccounts \cup MCRoles \cup MCPerms |->
  CASE x \in {ana, rAna, read} -> 1 [] x \in {bob, rBob, write} -> 2 [] x = team -> 3]

Blank(op, id) == [op |-> op, id |-> id, perms |-> <<>>, accounts |-> <<>>, roles |-> <<>>, sets |-> <<>>]
Named(n) == [name |-> n]

MCRequests ==
  {[Blank("updateRole", team) EXCEPT !.perms = <<read, write>>, !.accounts = <<ana>>, !.sets = Named("team")],
   [Blank("updateRole", team) EXCEPT !.perms = <<write>>, !.accounts = <<bob>>, !.sets = Named("crew")],
   [Blank("updateAccount", ana) EXCEPT !.perms = <<write>>, !.roles = <<rAna, team>>, !.sets = Named("new")],
   [Blank("updateAccount", bob) EXCEPT !.sets = Named("new")],
   [Blank("attribute", team) EXCEPT !.roles = <<rAna, team>>, !.perms = <<read, write>>],
   [Blank("createPermission", team) EXCEPT !.perms = <<read>>],
   [Blank("deletePermission", team) EXCEPT !.perms = <<write>>],
   [Blank("login", ana) EXCEPT !.sets = [picture |-> "new"]],
   [Blank("updateService", shop) EXCEPT !.sets = [name |-> "new"]],
   [Blank("updateService", shop) EXCEPT !.sets = [amUrl |-> "new"]]}
=============================================================================
