---------------------------- MODULE MCOpcUaClient ----------------------------
(***************************************************************************)
(* Instances of OpcUaClient for TLC: which task may call what.             *)
(***************************************************************************)
EXTENDS OpcUaClient, TLC

CONSTANTS a, b, c

\* Two requests of the web application, each of which may do anything.
Anything == [t \in Tasks |-> AllOps]

\* The scenario runner's own task does everything in turn; another task may
\* only ask for the connection.
OneOwner == [t \in Tasks |-> IF t = a THEN AllOps ELSE {"connect"}]

\* One task owns the life cycle, the other two come and go as listeners.
LifeCycleAndListeners ==
    [t \in Tasks |-> IF t = a THEN {"connect", "disconnect"}
                     ELSE {"subscribe", "unsubscribe"}]
=============================================================================
