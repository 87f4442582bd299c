--------------------------- MODULE MCConsoleActions ---------------------------
(***************************************************************************)
(* ConsoleActions with the buttons of one task on screen at a time.  Which *)
(* task it is is chosen at the start and never changes: the sum of the     *)
(* tasks can be explored, their product cannot.                            *)
(***************************************************************************)
EXTENDS ConsoleActions

CONSTANT Tasks      \* sets of kinds, with "filter" and "refresh" where they take part

VARIABLE task

\* A creation finds a port to create, everything else the full list.
MCInit == ActionsInit /\ task \in Tasks /\ ("create" \in task <=> Listed(server) # Ports)

MCNext ==
    /\ ActionsNext
    /\ UNCHANGED task
    /\ \A key \in busy' : key[1] \in task
    /\ dialog' # None => dialog'.key[1] \in task
    /\ form' = "typed" => "create" \in task
    /\ filter' # "all" => "filter" \in task
    /\ refreshing' => "refresh" \in task
    /\ server'.rev > 1 => "again" \in task

MCSpec == MCInit /\ [][MCNext]_<<actionsVars, task>> /\ ActionsFairness
=============================================================================
