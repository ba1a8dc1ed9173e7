----------------------------- MODULE BatchStream -----------------------------
(***************************************************************************)
(* In what order a forward target is sent entries.  They are numbered in   *)
(* the order they are emitted.  A target is sent batches of entries that   *)
(* exist; each new batch lies wholly after the one before it.  Entries may *)
(* be missing, and a batch may be sent again until the next one.           *)
(*                                                                         *)
(* This is the order in which sends begin.  One that has timed out, or was *)
(* cancelled, may still take effect at the target after a later one.       *)
(***************************************************************************)
EXTENDS Naturals

CONSTANT Targets

VARIABLES
  emitted,  \* how many entries there are
  last      \* the entries of the send begun last to each target

vars == <<emitted, last>>

Init == emitted = 0 /\ last = [t \in Targets |-> {}]

Emit == emitted' = emitted + 1 /\ UNCHANGED last

Send(t) ==
  \E batch \in SUBSET (1..emitted) :
    /\ \A m \in last[t], n \in batch : m < n
    /\ last' = [last EXCEPT ![t] = batch]
    /\ UNCHANGED emitted

Next == Emit \/ \E t \in Targets : Send(t)

Spec == Init /\ [][Next]_vars
=============================================================================
