------------------------------ MODULE MCDistros ------------------------------
(* Instances of Distros for TLC.  One distribution is built in; a refresh     *)
(* brings the other, or takes everything away.                                *)
EXTENDS Distros

CONSTANTS deb, own, u1, u2

MCNone    == [n \in Distributions |-> Nil]
MCShipped == [n \in Distributions |-> IF n = deb THEN u1 ELSE Nil]
MCRemote  == {MCNone, [n \in Distributions |-> IF n = own THEN u1 ELSE Nil]}

=============================================================================
