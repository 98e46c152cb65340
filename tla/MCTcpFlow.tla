------------------------------ MODULE MCTcpFlow ------------------------------
(* Instances of TcpFlow for TLC. *)
EXTENDS TcpFlow

Fault(action, trigger, after, td, d) ==
  [action |-> action, trigger |-> trigger, afterBytes |-> after,
   triggerDirection |-> td, direction |-> d]

C2U == "client_to_upstream"
U2C == "upstream_to_client"

MCNoFault == Fault("none", "start", 0, C2U, C2U)

\* Each action with each trigger; the byte trigger in the held direction and in the other.
MCFaults ==
  {MCNoFault, Fault("delay_connect", "start", 0, C2U, C2U)}
  \cup {Fault(a, t, 0, C2U, C2U) : a \in {"close_connection", "hold", "throttle"},
                                   t \in {"start", "duration"}}
  \cup {Fault(a, "bytes", 2, td, C2U) : a \in {"close_connection", "hold", "throttle"},
                                        td \in {C2U, U2C}}
  \cup {Fault("hold", "bytes", 0, U2C, U2C)}
=============================================================================
