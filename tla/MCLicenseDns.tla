---------------------------- MODULE MCLicenseDns ----------------------------
(* LicenseDns for TLC: a licence and its renewal.                             *)
EXTENDS LicenseDns

MCLicenses == [tier : {"solo"}, expiry : {1, 2}, nodes : {1}]

=============================================================================
