------------------------------ MODULE MCSignIn ------------------------------
\* Two backends, of one session or of two, and a portal that rotates its
\* refresh tokens and tells when tokens expire, or does neither.
EXTENDS SignIn, TLC

CONSTANTS b1, b2, s1, s2

TwoBackends == {(b1 :> s1) @@ (b2 :> s1), (b1 :> s1) @@ (b2 :> s2)}
TwoPortals == {[rotates |-> TRUE, expires |-> TRUE], [rotates |-> FALSE, expires |-> FALSE]}
=============================================================================
