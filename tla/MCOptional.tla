----------------------------- MODULE MCOptional -----------------------------
(* Two objects of each type and two values.                                *)
EXTENDS Optional

CONSTANTS s1, s2, w1, w2, v1, v2

MCStrong == {s1, s2}
MCWeak == {w1, w2}
MCValue == {v1, v2}
=============================================================================
