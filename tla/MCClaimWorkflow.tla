-------------------------- MODULE MCClaimWorkflow --------------------------
(* One shipment without agency, one agency, one of each kind of user.     *)
EXTENDS ClaimWorkflow, TLC

MCShipmentAgency == [s \in Shipments |-> NoAgency]
MCRolesOf == ("root" :> {"ADMIN_GENERAL"}) @@ ("boss" :> {"AGENCY_ADMIN"})
               @@ ("clerk" :> {"SECRETARIA"})
MCWorkplace == ("root" :> NoAgency) @@ ("boss" :> "lima") @@ ("clerk" :> "lima")
Symmetry == Permutations(Workers)

\* What tells two states apart: no action reads the events nor what is kept of
\* the past, and no property is about them for a case whose requests overlapped.
View ==
  <<claim, [c \in Alone |-> <<last[c], c \in checked, c \in late>>], shown, proofs, traces,
    pc, req, overlapped>>
=============================================================================
