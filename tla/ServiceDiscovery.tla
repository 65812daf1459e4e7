--------------------------- MODULE ServiceDiscovery ---------------------------
(***************************************************************************)
(* ServiceDiscoveryThread: a thread that runs Avahi's event loop and       *)
(* announces the display.  Both state machines it is called back about,    *)
(* the client's and the entry group's, are Avahi's; each callback is a     *)
(* step, as the event loop runs one after the other.  Whether a call to    *)
(* Avahi succeeds is its choice.                                           *)
(***************************************************************************)

VARIABLES
  thread,    \* Run(): "none" (not started), "starting", "loop" or "done"
  client,    \* AvahiClientState last told: "none", "registering", "running",
             \* "collision" or "failure"
  group,     \* entry_group_: "null", "empty" (no service in it), "registering"
             \* (committed) or "established"
  shutdown,  \* shutdown_requested_
  failed     \* history: a call that adds the service has failed

discovery == <<thread, client, group, shutdown, failed>>

Init ==
  /\ thread = "none"
  /\ client = "none"
  /\ group = "null"
  /\ shutdown = FALSE
  /\ failed = FALSE

-----------------------------------------------------------------------------

\* A group that cannot be created or committed is NULL after; one that cannot
\* take the service is left as it is, with nothing in it.
CreateServices ==
  /\ group' \in {"null", "empty", "registering"}
  /\ failed' = (failed \/ group' # "registering")

\* HandleClientState().
HandleClientState ==
  \/ /\ client' = "running"
     /\ group = "null"
     /\ CreateServices
     /\ UNCHANGED shutdown
  \/ /\ client' = "running"
     /\ group # "null"
     /\ UNCHANGED <<group, shutdown, failed>>
  \/ /\ client' = "failure"
     /\ shutdown' = TRUE
     /\ UNCHANGED <<group, failed>>
  \/ /\ client' = "collision"
     /\ group' = IF group = "null" THEN "null" ELSE "empty"
     /\ UNCHANGED <<shutdown, failed>>
  \/ /\ client' = "registering"
     /\ UNCHANGED <<group, shutdown, failed>>

\* avahi_client_new() calls back at once with the state the daemon is in.
Connect ==
  /\ thread = "starting"
  /\ thread' = "loop"
  /\ client' \in {"registering", "running", "collision"}
  /\ HandleClientState

\* No poll object, or no daemon to connect to: Run() returns.
ConnectFails ==
  /\ thread = "starting"
  /\ thread' = "done"
  /\ UNCHANGED <<client, group, shutdown, failed>>

\* How the daemon's state moves; any connection can break.
Following(state) ==
  CASE state = "registering" -> {"running", "collision", "failure"}
    [] state = "running"     -> {"registering", "collision", "failure"}
    [] state = "collision"   -> {"registering", "failure"}
    [] OTHER                 -> {}

ClientCallback ==
  /\ thread = "loop"
  /\ client' \in Following(client)
  /\ HandleClientState
  /\ UNCHANGED thread

\* HandleEntryGroupState() of a group the daemon is working on.
GroupEstablished ==
  /\ thread = "loop"
  /\ group = "registering"
  /\ group' = "established"
  /\ UNCHANGED <<thread, client, shutdown, failed>>

\* The instance gets another name, the group is reset and filled again.
GroupCollision ==
  /\ thread = "loop"
  /\ group \in {"registering", "established"}
  /\ CreateServices
  /\ UNCHANGED <<thread, client, shutdown>>

GroupFailure ==
  /\ thread = "loop"
  /\ group \in {"registering", "established"}
  /\ shutdown' = TRUE
  /\ UNCHANGED <<thread, client, group, failed>>

\* The loop looks at the flag again after each turn of at most 100 ms; freeing
\* the client takes the group with it.
Leave ==
  /\ thread = "loop"
  /\ shutdown
  /\ thread' = "done"
  /\ client' = "none"
  /\ group' = "null"
  /\ UNCHANGED <<shutdown, failed>>

\* avahi_simple_poll_iterate() returned an error.
PollFails ==
  /\ thread = "loop"
  /\ thread' = "done"
  /\ client' = "none"
  /\ group' = "null"
  /\ UNCHANGED <<shutdown, failed>>

Callbacks == ClientCallback \/ GroupEstablished \/ GroupCollision \/ GroupFailure

-----------------------------------------------------------------------------
(* What main() calls.                                                      *)

Start ==
  /\ thread = "none"
  /\ thread' = "starting"
  /\ UNCHANGED <<client, group, shutdown, failed>>

Shutdown ==
  /\ shutdown' = TRUE
  /\ UNCHANGED <<thread, client, group, failed>>

Next ==
  \/ Start
  \/ Shutdown
  \/ Connect \/ ConnectFails
  \/ Callbacks
  \/ Leave \/ PollFails

Spec == Init /\ [][Next]_discovery

-----------------------------------------------------------------------------

\* "Let's drop our registered services. When the server is back in
\* AVAHI_SERVER_RUNNING state we will register them again." (the comment of
\* HandleClientState()): while Avahi runs and has refused nothing, the display
\* is announced.
RegisteredAgain ==
  (thread = "loop" /\ client = "running" /\ ~failed) =>
    group \in {"registering", "established"}

=============================================================================
