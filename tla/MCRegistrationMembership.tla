------------------------ MODULE MCRegistrationMembership ------------------------
(* A small instance of RegistrationMembership for TLC.                             *)
EXTENDS RegistrationMembership, MCRegistration
=================================================================================
