-------------------------- MODULE MCScopeAccounts ---------------------------
(* A chain of three scopes, each of which reserves on its own account too. *)
EXTENDS ScopeAccounts, TLC

CONSTANTS root, service, client, r1, r2, r3

MCScopes == {root, service, client}
MCPath == (root :> <<root>>) @@ (service :> <<service, root>>)
          @@ (client :> <<client, service, root>>)
MCReservations == {r1, r2, r3}
MCLimit0 == (root :> 3) @@ (service :> 3) @@ (client :> 2)
MCCeilings == {2, 3}
MCMaxAmount == 2
MCNCpu == 2
Symmetry == Permutations(MCReservations)
=============================================================================
