-------------------------- MODULE MCConnectionPool --------------------------
(***************************************************************************)
(* Small instances of ConnectionPool: n1, n2 and n3 are the nodes of a     *)
(* cluster, u1 and u2 the urls at which they publish themselves; n3 takes  *)
(* over the address of n1.                                                 *)
(***************************************************************************)
EXTENDS ConnectionPool, TLC

CONSTANTS n1, n2, n3, u1, u2, c1, c2, c3, c4

MCUrlOf == (n1 :> u1) @@ (n2 :> u2) @@ (n3 :> u1)

\* A client sniffing a cluster that loses n2 and gets it back.
LeaveAndReturn == {{n1}, {n1, n2}}

\* Besides, n1 is replaced by n3 at the same address.
Replacement == {{n1, n2}, {n2, n3}}

AllViews == LeaveAndReturn \cup Replacement

Symmetry == Permutations(Conn)

\* The fields of a connection object nobody refers to any more decide nothing.
Referenced == Conn \ Unreferenced
View ==
  LET Seen(f) == [c \in Referenced |-> f[c]]
  IN  <<pool.conns, pool.dead, pool.strategy, Seen(pool.id), Seen(pool.status),
        Seen(pool.deadCount), Seen(pool.wait), Seen(pool.usable),
        calls, pings, open, emptying, phase>>
=============================================================================
