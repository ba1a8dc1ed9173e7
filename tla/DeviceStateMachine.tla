------------------------- MODULE DeviceStateMachine -------------------------
(***************************************************************************)
(* The transition table of protoforge/engine/state_machine.py, and the two *)
(* tables that tell the rest of the program what a state means: its status *)
(* (device_state_to_status) and its data quality (get_quality_for_state).  *)
(* Every trigger has one target state, so the table is two functions of    *)
(* the event: the states it is accepted in, and the state it leads to.     *)
(* The conditions some rules carry are the business of DeviceLifecycle.    *)
(***************************************************************************)

States == {"STOP", "RUN", "ERROR", "PROGRAM", "MAINTENANCE", "STARTING", "STOPPING"}

Events == {"start", "startup_complete", "stop", "stop_complete", "fault",
           "device_failure", "reset", "maintenance", "maintenance_complete",
           "program_mode", "program_exit"}

\* StateTransition.from_state of the rules of an event; None stands for any state.
From == [start                |-> {"STOP"},
         startup_complete     |-> {"STARTING"},
         stop                 |-> {"RUN", "STARTING"},
         stop_complete        |-> {"STOPPING"},
         fault                |-> {"RUN", "STARTING", "STOPPING"},
         device_failure       |-> States,
         reset                |-> {"ERROR"},
         maintenance          |-> States,
         maintenance_complete |-> {"MAINTENANCE"},
         program_mode         |-> States,
         program_exit         |-> {"PROGRAM"}]

\* Broken: a rule leads to a state the enumeration does not have, or a reset
\* resumes the operation the fault interrupted.
ToMisspelt ==
  [start |-> "STARTED", startup_complete |-> "RUN", stop |-> "STOPPING",
   stop_complete |-> "STOP", fault |-> "ERROR", device_failure |-> "ERROR",
   reset |-> "STOP", maintenance |-> "MAINTENANCE", maintenance_complete |-> "STOP",
   program_mode |-> "PROGRAM", program_exit |-> "STOP"]

ToResuming == [ToMisspelt EXCEPT !.start = "STARTING", !.reset = "RUN"]

\* StateTransition.to_state of the rules of an event.
To == [start                |-> "STARTING",
       startup_complete     |-> "RUN",
       stop                 |-> "STOPPING",
       stop_complete        |-> "STOP",
       fault                |-> "ERROR",
       device_failure       |-> "ERROR",
       reset                |-> "STOP",
       maintenance          |-> "MAINTENANCE",
       maintenance_complete |-> "STOP",
       program_mode         |-> "PROGRAM",
       program_exit         |-> "STOP"]

\* device_state_to_status: what the API, the engine and the scenarios see.
StatusOf(s) == CASE s = "RUN"   -> "ONLINE"
                 [] s = "ERROR" -> "ERROR"
                 [] OTHER       -> "OFFLINE"

\* should_generate_data.
Generates(s) == s = "RUN"

\* should_respond_read.
AnswersReads(s) == s # "PROGRAM"

=============================================================================
