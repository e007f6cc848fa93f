------------------------------ MODULE PamCodes ------------------------------
(***************************************************************************)
(* How a failure becomes a return code of the module (src/src/lib.rs): the *)
(* classes of AuthError and what they map to.  An io::ErrorKind is one of  *)
(* IoKind, "Other" being every kind but InvalidData; "policy" is every     *)
(* OpenError but Io.                                                       *)
(***************************************************************************)

IoKind == {"InvalidData", "Other"}

\* Mutant: a service error that lets the PAM stack go on.
PamCodeIgnoringFaults == [Service         |-> "PAM_IGNORE",
                          InfoUnavailable |-> "PAM_AUTHINFO_UNAVAIL",
                          AuthFail        |-> "PAM_AUTH_ERR"]

PamCode == [Service         |-> "PAM_SERVICE_ERR",
            InfoUnavailable |-> "PAM_AUTHINFO_UNAVAIL",
            AuthFail        |-> "PAM_AUTH_ERR"]

ClassifyIoErr(kind) == IF kind = "InvalidData" THEN "Service" ELSE "InfoUnavailable"

ClassifyOpenErr(kind) == IF kind = "policy" THEN "Service" ELSE ClassifyIoErr(kind)
=============================================================================
