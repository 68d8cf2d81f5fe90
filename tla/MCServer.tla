------------------------------ MODULE MCServer ------------------------------
(***************************************************************************)
(* Instances of UnixDomainSocketServer for TLC.                            *)
(***************************************************************************)
EXTENDS UnixDomainSocketServer, TLC

CONSTANTS c1, c2, c3

\* Products.  Two clients, one of whose product codes is also the number of
\* the first descriptor accept returns; one client that comes back; three
\* connections of two clients.
Overlapping   == (c1 :> 5) @@ (c2 :> 1)
OneProduct    == (c1 :> 1) @@ (c2 :> 1)
SingleProduct == c1 :> 1
ThreeProducts == (c1 :> 1) @@ (c2 :> 2) @@ (c3 :> 1)

\* Quotas.
OneEach    == (c1 :> 1) @@ (c2 :> 1)
OneOnly    == (c1 :> 1) @@ (c2 :> 0) @@ (c3 :> 0)
ThreeSent  == (c1 :> 3) @@ (c2 :> 0)
SingleNone == c1 :> 0
NoneEach   == (c1 :> 0) @@ (c2 :> 0)
=============================================================================
