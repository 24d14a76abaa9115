----------------------------- MODULE MCCertificates -----------------------------
(***************************************************************************)
(* An instance of Certificates with enough keys for a legacy chain and     *)
(* four more SGP.26 certificates, or two legacy chains and one.            *)
(***************************************************************************)
EXTENDS Certificates
=============================================================================
