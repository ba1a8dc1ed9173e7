------------------------- MODULE MCDeviceLifecycle -------------------------
(* Instances of DeviceLifecycle for TLC. *)
EXTENDS DeviceLifecycle

CONSTANTS f1, f2

\* Two faults: one can be lifted while the other is active.
MCFaults == {f1, f2}

\* The events of a managed installation, and all the transition route accepts.
ManagedEvents == Events \ {"fault", "device_failure", "stop", "stop_complete"}
AllEvents == Events
=============================================================================
