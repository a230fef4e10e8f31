------------------------ MODULE MCPermissionsRequests ------------------------
(***************************************************************************)
(* ana asks for a permission on a branch; root owns everything and bob may *)
(* come to own the branch and lose it again, by the other routes, which    *)
(* may also give ana what she asked for, or take it away.                  *)
(***************************************************************************)
EXTENDS PermissionsRequests

CONSTANTS ana, bob, root, shop, read, x

MCServices == {shop}
MCActions  == {read}
MCSegments == {x}

Lend   == [service |-> shop, level |-> RL, action |-> read, rh |-> <<x>>]
Branch == [service |-> shop, level |-> RO, action |-> read, rh |-> <<x, Star>>]
All    == [service |-> Star, level |-> RO, action |-> Star, rh |-> <<Star>>]

MCInitRows == {[sa |-> root, perm |-> All]}
MCChanging == {[sa |-> bob, perm |-> [Branch EXCEPT !.rh = <<x>>]], [sa |-> ana, perm |-> Lend]}
MCAsked    == {Lend}
=============================================================================
