------------------------------- MODULE Config -------------------------------
(***************************************************************************)
(* config.Load, and the checks the parts of the server make again on what  *)
(* it returns.                                                             *)
(*                                                                         *)
(* An environment says of the required variables only whether all are set, *)
(* of the keys whether they are long enough, of the origins and the CIDRs  *)
(* what Load looks for.                                                    *)
(***************************************************************************)
EXTENDS Integers

CONSTANTS
    Unset,      \* an integer variable that is empty or missing
    NotANumber, \* an integer variable that strconv.Atoi does not read
    Half,       \* 2^31: int32 holds -Half .. Half - 1
    NoConfig    \* Load returned an error

ASSUME HalfAssumption == Half \in Nat \ {0}

Unread == {Unset, NotANumber}

\* What is not a number is taken for what is not set.
getInt(v, fallback) == IF v \in Unread THEN fallback ELSE v

\* Variant: the value is checked before it is narrowed.
Kept(n) == n

\* int32(n), which keeps the low bits.
Int32(n) == ((n + Half) % (2 * Half)) - Half

\* Variant: takes whichever way of verification there is.
OneWay(env) == env.secret \/ env.jwks

\* Exactly one of SUPABASE_JWT_SECRET and SUPABASE_JWKS_URL.
Exclusive(env) == env.secret # env.jwks

Parsed(env) ==
    [secret  |-> env.secret,
     jwks    |-> env.jwks,
     workers |-> getInt(env.workers, 2),
     rps     |-> getInt(env.rps, 5),
     daily   |-> getInt(env.daily, 5000),
     conns   |-> Int32(getInt(env.conns, 10)),
     trusted |-> env.trusted]

Load(env) ==
    LET c == Parsed(env)
    IN  IF /\ env.required /\ Exclusive(env)
           /\ env.keysLong
           /\ env.origins = "listed"
           /\ c.workers >= 1 /\ c.rps >= 1 /\ c.daily >= 1 /\ c.conns >= 1
           /\ env.cidrsParse
        THEN c ELSE NoConfig

-----------------------------------------------------------------------------
(* What the constructors do with it.                                       *)

\* auth.NewVerifier refuses all but one way of verification.
VerifierAccepts(c) == (c.secret \/ c.jwks) /\ ~(c.secret /\ c.jwks)

\* NewWorker replaces what it cannot use, and takes 0 for no daily cap.
WorkerKeeps(c) == c.workers >= 1 /\ c.rps >= 1
CapEnabled(c)  == c.daily > 0

\* defaults in pools.go replaces a size below 1; the pool panics on none.
PoolKeeps(c) == c.conns \in 1 .. (Half - 1)

\* A number that was set runs as it was set when its field can hold it.
KeepsNumbers(env, c) ==
    /\ env.workers \notin Unread => c.workers = env.workers
    /\ env.rps \notin Unread => c.rps = env.rps
    /\ env.daily \notin Unread => c.daily = env.daily
    /\ env.conns \in 1 .. (Half - 1) \ Unread => c.conns = env.conns

\* What Load returns every part of the server runs with as it is, and it is what
\* was set, but for two replacements that Load makes in silence: of what is not a
\* number by the default, and of a pool size that is no int32 by its low bits.
LoadAgrees(env) ==
    Load(env) # NoConfig =>
        LET c == Load(env)
        IN  /\ VerifierAccepts(c) /\ WorkerKeeps(c) /\ CapEnabled(c) /\ PoolKeeps(c)
            /\ KeepsNumbers(env, c)
=============================================================================
