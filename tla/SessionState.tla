---------------------------- MODULE SessionState ----------------------------
(***************************************************************************)
(* The per-machine control state of kvm-core/src/state.rs.                 *)
(*                                                                         *)
(* SessionState is an enum of three variants; here it is a record whose    *)
(* "mode" names the variant and whose "peer" is the id the variant         *)
(* carries (None for LocalActive).  The methods of StateManager that       *)
(* change the state are functions from the current state to the next one;  *)
(* the caller decides what to do with the StateAction they return, and     *)
(* main.rs only ever looks at the one returned by                          *)
(* handle_physical_input_detected, whose peer_id is the "peer" of the      *)
(* state before the call.                                                  *)
(***************************************************************************)

CONSTANT None    \* the absent value: no peer, no connection, no lock owner

LocalActive == [mode |-> "LocalActive", peer |-> None]
ControllingRemote(target) == [mode |-> "ControllingRemote", peer |-> target]
RemoteControlled(controller) == [mode |-> "RemoteControlled", peer |-> controller]

\* Every state a machine can be in when it may control the peers in
\* "targets" and be controlled under the names in "controllers".
SessionStates(targets, controllers) ==
    {LocalActive}
        \cup {ControllingRemote(p) : p \in targets}
        \cup {RemoteControlled(p) : p \in controllers}

IsLocalActive(s)       == s.mode = "LocalActive"
IsControllingRemote(s) == s.mode = "ControllingRemote"
IsRemoteControlled(s)  == s.mode = "RemoteControlled"

\* start_controlling_remote and enter_remote_controlled overwrite whatever
\* the state was.
start_controlling_remote(target) == ControllingRemote(target)
enter_remote_controlled(controller) == RemoteControlled(controller)

\* return_to_local ends in LocalActive from each of its three match arms.
return_to_local(s) == LocalActive

\* handle_physical_input_detected only acts on a controlled machine.
handle_physical_input_detected(s) ==
    IF IsRemoteControlled(s) THEN LocalActive ELSE s
=============================================================================
