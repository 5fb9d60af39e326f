------------------------------- MODULE Shell -------------------------------
(***************************************************************************)
(* The desktop shell velox-app/src/main.rs and the life of its engine: the *)
(* shell picks a free port by binding and letting go of it, starts         *)
(* velox-server on it, waits until somebody answers there, and opens a     *)
(* window.  Closing the window kills the server.                           *)
(***************************************************************************)
EXTENDS Naturals

CONSTANTS
    Patience,      \* rounds of 120 ms in the 6 seconds of wait_for_server
    Undisturbed    \* does nobody else take the port in between?

ASSUME ShellAssumption == Patience \in Nat /\ Undisturbed \in BOOLEAN

VARIABLES
    app,       \* where the shell is
    rounds,    \* rounds of wait_for_server
    server,    \* the child process
    port       \* who listens on the port

svars == <<app, rounds, server, port>>

ShellInit == app = "off" /\ rounds = 0 /\ server = "none" /\ port = "closed"

KillServer == /\ server' = "dead"
              /\ port' = IF port = "server" THEN "closed" ELSE port

(* private_endpoint: the port is free, and is let go.                      *)
Endpoint ==
    /\ app = "off"
    /\ app' = "endpoint"
    /\ UNCHANGED <<rounds, server, port>>

Spawn ==
    /\ app = "endpoint"
    /\ \/ app' = "look" /\ server' = "starting"
       \/ app' = "closed" /\ UNCHANGED server
    /\ UNCHANGED <<rounds, port>>

(* main of the server: binds, or panics.                                   *)
Bind ==
    /\ server = "starting"
    /\ IF port = "closed" THEN server' = "serving" /\ port' = "server"
                          ELSE server' = "dead" /\ UNCHANGED port
    /\ UNCHANGED <<app, rounds>>

(* A round of wait_for_server: is the child still there, does somebody     *)
(* answer, sleep; the deadline is looked at first.                         *)
Look ==
    /\ app = "look" /\ rounds < Patience /\ server # "dead"
    /\ app' = "connect"
    /\ UNCHANGED <<rounds, server, port>>

(* Defect: every round has a deadline of its own.                          *)
ConnectUncounted ==
    /\ app = "connect"
    /\ app' = IF port # "closed" THEN "answered" ELSE "look"
    /\ UNCHANGED <<rounds, server, port>>

Connect ==
    /\ app = "connect"
    /\ IF port # "closed" THEN app' = "answered" /\ UNCHANGED rounds
                          ELSE app' = "look" /\ rounds' = rounds + 1
    /\ UNCHANGED <<server, port>>

(* Defect: the shell only stops waiting, the server is left alone.         *)
StopWaitingOnly ==
    /\ app = "look" /\ (rounds >= Patience \/ server = "dead")
    /\ app' = "closed"
    /\ UNCHANGED <<rounds, server, port>>

StopWaiting ==
    /\ app = "look" /\ (rounds >= Patience \/ server = "dead")
    /\ app' = "closed"
    /\ KillServer
    /\ UNCHANGED rounds

(* The window, or a panic in building it.                                  *)
OpenWindow ==
    /\ app = "answered"
    /\ app' \in {"window", "crashed"}
    /\ UNCHANGED <<rounds, server, port>>

Close ==
    /\ app = "window"
    /\ app' = "closed"
    /\ KillServer
    /\ UNCHANGED rounds

KillApp ==
    /\ app \in {"endpoint", "look", "connect", "answered", "window"}
    /\ app' = "crashed"
    /\ UNCHANGED <<rounds, server, port>>

ServerDies ==
    /\ server \in {"starting", "serving"}
    /\ KillServer
    /\ UNCHANGED <<app, rounds>>

OtherListens ==
    /\ ~Undisturbed
    /\ port = "closed"
    /\ port' = "other"
    /\ UNCHANGED <<app, rounds, server>>

AppStep == Endpoint \/ Spawn \/ Look \/ Connect \/ StopWaiting \/ OpenWindow
Shell   == AppStep \/ Bind \/ Close \/ KillApp \/ ServerDies \/ OtherListens
=============================================================================
