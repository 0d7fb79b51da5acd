--------------------------- MODULE MCIdempotency ---------------------------
(***************************************************************************)
(* Small instances of Idempotency: three requests of one key, two of them  *)
(* alike and one with another body, beside requests of a second key, whose *)
(* reservations purge what has expired.                                    *)
(***************************************************************************)
EXTENDS Idempotency, TLC

CONSTANTS q1, q2, q3, o1, o2, k1, k2, b1, b2

MCKeyOf  == q1 :> k1 @@ q2 :> k1 @@ q3 :> k1 @@ o1 :> k2 @@ o2 :> k2
MCBodyOf == q1 :> b1 @@ q2 :> b1 @@ q3 :> b2 @@ o1 :> b1 @@ o2 :> b1
=============================================================================
