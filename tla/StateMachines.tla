---------------------------- MODULE StateMachines ----------------------------
(***************************************************************************)
(* The session transition table of                                         *)
(* avatar/runtime/graph/models/state_machines.py and the check the stores  *)
(* apply before they write a status.                                       *)
(***************************************************************************)

TaskSessionTransitions ==
    [ created          |-> {"planning"},
      planning         |-> {"executing"},
      executing        |-> {"paused", "interrupted", "waiting_input",
                            "waiting_approval", "completed", "failed",
                            "cancelled"},
      paused           |-> {"resuming"},
      interrupted      |-> {"resuming"},
      waiting_input    |-> {"executing"},
      waiting_approval |-> {"executing"},
      resuming         |-> {"executing", "failed"},
      completed        |-> {},
      failed           |-> {},
      cancelled        |-> {} ]

\* validate_transition(current, target, transitions_table)
ValidTransition(current, target, table) ==
    current \in DOMAIN table /\ target \in table[current]

\* _TERMINAL_STATUSES of the session store.
SessionTerminal == {"completed", "failed", "cancelled"}
=============================================================================
