----------------------------- MODULE MCFindSwift -----------------------------
(* Model-checking instance of FindSwift: the four hosts of --debug. *)
EXTENDS FindSwift

CONSTANTS H1, H2, H3, H4

MCNet == <<H1, H2, H3, H4>>
=============================================================================
