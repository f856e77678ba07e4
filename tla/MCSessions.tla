----------------------------- MODULE MCSessions -----------------------------
(***************************************************************************)
(* Two commands on one machine and one request from elsewhere, for TLC.    *)
(***************************************************************************)
EXTENDS Sessions, TLC

CONSTANTS c1, c2, r1

Alike == Permutations({c1, c2})

\* A machine whose shells have a keyring, or one whose shells have none.
Either == {{TRUE}, {FALSE}}
============================================================================
