-------------------------- MODULE MCSessionManager --------------------------
(***************************************************************************)
(* Instances of UnixDomainSocketSessionManager for TLC.                    *)
(***************************************************************************)
EXTENDS UnixDomainSocketSessionManager, TLC

CONSTANTS a1, a2

\* Three connections.  The product of the first is its own descriptor, the
\* product of the second is the descriptor of the third, and the third is
\* the first client coming back: Remove, which gets a descriptor, ends
\* sessions in both directions.
OverlappingProducts == (5 :> 5) @@ (6 :> 7) @@ (7 :> 5)

=============================================================================
