---------------------------- MODULE MCConnection ----------------------------
(***************************************************************************)
(* A small instance of Connection: two ordinary requests, one whose body   *)
(* is a stream and one that is refused.                                    *)
(***************************************************************************)
EXTENDS Connection

CONSTANTS plain1, plain2, streamed, unescaped
=============================================================================
