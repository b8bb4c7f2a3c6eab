----------------------------- MODULE MCConsent -----------------------------
(* Instances of Consent for TLC.                                           *)
EXTENDS Consent, TLC

ConsentSymmetry == Permutations(Tools) \cup Permutations(Schemas)
=============================================================================
