--------------------------- MODULE MCAdminAccess ---------------------------
(***************************************************************************)
(* AdminAccess with two users and a cache of one entry.                    *)
(***************************************************************************)
EXTENDS AdminAccess, TLC

CONSTANTS u1, u2, l1, l2, l3, p1

\* One user makes three list requests: two that read the table and put their
\* verdicts in either order, and one that hits what the later put left.  The
\* second user resends and takes the place in the cache.
OwnerTwo == (l1 :> u1) @@ (l2 :> u1) @@ (l3 :> u1) @@ (p1 :> u2)

Interchangeable == Permutations({l1, l2, l3})
=============================================================================
