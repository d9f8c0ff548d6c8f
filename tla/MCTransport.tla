---------------------------- MODULE MCTransport ----------------------------
(***************************************************************************)
(* Small instances of Transport: two nodes n1 and n2 behind urls u1 and u2 *)
(* and one or two requests of the user.                                    *)
(***************************************************************************)
EXTENDS Transport, TLC

CONSTANTS n1, n2, u1, u2, c1, c2, r1, r2

MCUrlOf == (n1 :> u1) @@ (n2 :> u2)

Opts(retries, body, asStream) == [retries |-> retries, body |-> body, asStream |-> asStream]

\* A cluster of one node.
OneNode == {{n1}}

\* A sniff always reports both nodes.
BothNodes == {{n1, n2}}

\* One request of every kind.
AllOptions ==
  {Opts(1, "plain", FALSE), Opts(1, "gzip", FALSE), Opts(1, "stream", FALSE),
   Opts(1, "unserializable", FALSE), Opts(1, "plain", TRUE)}

GzippedOnce == {Opts(1, "gzip", FALSE)}
NotRetried == {Opts(0, "plain", FALSE)}

Symmetry == Permutations(Request)
=============================================================================
