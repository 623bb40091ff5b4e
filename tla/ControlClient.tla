----------------------------- MODULE ControlClient -----------------------------
(***************************************************************************)
(* The client of the PTY owner (ControlClient of src/src/daemon.rs): one   *)
(* connection behind one mutex, over which the runtime's threads send      *)
(* their requests one at a time.  A request that finds the connection      *)
(* ended greets a new one and is sent again, once.                         *)
(*                                                                         *)
(* Outside src/ is the owner: it serves a request or refuses it, and may   *)
(* end a connection before it has read a request, before it has replied,   *)
(* or with the reply under way.  What serving a request does to the owner  *)
(* is in the module that extends this one.                                 *)
(***************************************************************************)
EXTENDS Naturals, Sequences

CONSTANTS
    Calls,    \* commands the runtime is asked for, each served by a thread
    MaxEnds,  \* bound on the connections the owner ends
    None      \* no thread, no token, no answer, no registered stream

ASSUME ClientAssumption == MaxEnds \in Nat /\ None \notin Calls

VARIABLES
    control,   \* the mutex's holder and the request it is making
    up,        \* the client's connection is not ended
    ends,      \* connections ended so far
    executed   \* history: how often the owner has served the request being made

client == <<control, up, ends, executed>>

\* A call's own thread, or the mode worker of the stream the call opened.
Thread == Calls \X {"call", "worker"}

Unlocked == [by |-> None, command |-> None, attempt |-> 1, at |-> "free", reply |-> None]

ClientInit ==
    /\ control = Unlocked
    /\ up = TRUE
    /\ ends = 0
    /\ executed = 0

\* The request of thread t has come to its end; the guard goes with the statement.
Done(t) == control.by = t /\ control.at = "done"

--------------------------------------------------------------------------------
\* Mutant of Request: attempts are counted from zero, so that there are three.
RequestFromZero(t, command) ==
    /\ control.at = "free"
    /\ control' = [by |-> t, command |-> command, attempt |-> 0,
                   at |-> IF up THEN "sent" ELSE "ended", reply |-> None]
    /\ executed' = 0
    /\ UNCHANGED <<up, ends>>

\* ControlClient::request, first send_once: an ended connection is found out at once.
Request(t, command) ==
    /\ control.at = "free"
    /\ control' = [by |-> t, command |-> command, attempt |-> 1,
                   at |-> IF up THEN "sent" ELSE "ended", reply |-> None]
    /\ executed' = 0
    /\ UNCHANGED <<up, ends>>

\* The owner has served the request; the connection holds its reply.
Served(reply) ==
    /\ control' = [control EXCEPT !.at = "done", !.reply = reply]
    /\ executed' = executed + 1
    /\ UNCHANGED <<up, ends>>

\* The owner served it, and ends the connection before the reply has arrived.
ServedInVain ==
    /\ ends < MaxEnds
    /\ control' = [control EXCEPT !.at = "ended"]
    /\ up' = FALSE
    /\ ends' = ends + 1
    /\ executed' = executed + 1

\* ok is not true: the unit refuses, which is no reason to send again.
Refused ==
    /\ control.at = "sent"
    /\ control' = [control EXCEPT !.at = "done"]
    /\ UNCHANGED <<up, ends, executed>>

\* The owner ends the connection; a request it has not served goes with it.
EndConnection ==
    /\ up
    /\ ends < MaxEnds
    /\ up' = FALSE
    /\ ends' = ends + 1
    /\ control' = IF control.at = "sent" THEN [control EXCEPT !.at = "ended"] ELSE control
    /\ UNCHANGED executed

\* request, the one resend: greeted succeeds, reader and writer are both replaced.
Reconnect ==
    /\ control.at = "ended"
    /\ control.attempt = 1
    /\ up' = TRUE
    /\ control' = [control EXCEPT !.at = "sent", !.attempt = 2]
    /\ UNCHANGED <<ends, executed>>

\* The resend's connection ends as well, or the greeting of a new one fails.
GiveUp ==
    /\ control.at = "ended"
    /\ control' = [control EXCEPT !.at = "done"]
    /\ UNCHANGED <<up, ends, executed>>

\* The guard is dropped.
Release == control' = Unlocked /\ executed' = 0 /\ UNCHANGED <<up, ends>>

Connection ==
    \/ Refused \/ EndConnection \/ Reconnect \/ GiveUp

ClientTypeOK ==
    /\ control \in [by: Thread \cup {None}, command: {"prepare", "sessions", "modes", "record", None},
                    attempt: 1..2, at: {"free", "sent", "ended", "done"},
                    reply: Nat \cup {None}]
    /\ up \in BOOLEAN
    /\ ends \in 0..MaxEnds
    /\ executed \in 0..2
================================================================================
