---------------------------- MODULE DeviceStatus ----------------------------
(***************************************************************************)
(* What a client of a device may rely on: the status it is shown moves     *)
(* between OFFLINE, ONLINE and ERROR, and a device that failed is never    *)
(* shown ONLINE again without having been OFFLINE in between, i.e. without *)
(* a new startup.                                                          *)
(***************************************************************************)
VARIABLE status

Init == status = "OFFLINE"

ComeUp == status = "OFFLINE" /\ status' = "ONLINE"

GoDown == status \in {"ONLINE", "ERROR"} /\ status' = "OFFLINE"

Fail == status \in {"OFFLINE", "ONLINE"} /\ status' = "ERROR"

Next == ComeUp \/ GoDown \/ Fail

Spec == Init /\ [][Next]_status
=============================================================================
