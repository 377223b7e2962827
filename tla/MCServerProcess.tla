-------------------------- MODULE MCServerProcess --------------------------
(***************************************************************************)
(* ServerProcess in every environment Load tells apart, with pools of one  *)
(* connection, and the pure functions on small inputs.                     *)
(***************************************************************************)
EXTENDS ServerProcess

CONSTANTS h1, h2

\* With Half = 16, 33 is narrowed to 1, 32 to 0 and 17 to -15.
MCEnvs ==
    [required : BOOLEAN, secret : BOOLEAN, jwks : BOOLEAN, keysLong : BOOLEAN,
     origins : {"none", "star", "listed"}, cidrsParse : BOOLEAN, trusted : {{"p", "q"}},
     workers : {0, 1, Unset, NotANumber}, rps : {0, 1}, daily : {0, 1},
     conns : {0, 1, 17, 32, 33, NotANumber}]

\* Three hops: a header may hold an untrusted address on either side of another.
MCHeaders == UNION {[1 .. k -> Hops] : k \in 0 .. 3}
=============================================================================
