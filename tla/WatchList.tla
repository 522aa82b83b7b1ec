----------------------------- MODULE WatchList -----------------------------
(***************************************************************************)
(* What the instance update queue of a node promises: the controller's     *)
(* commands take effect on the detector's table of watched instances once  *)
(* each and in the order in which they were given.  A command to watch an  *)
(* instance without an address is lost, but none of the others.            *)
(***************************************************************************)
EXTENDS Sequences

CONSTANTS
    Instances,
    NoProvider  \* the instances without an address in the provider network

VARIABLES
    protected,  \* the instances the controller wants watched on the node
    watched,    \* the instances the detector watches
    pending     \* the commands that have not taken effect

vars == <<protected, watched, pending>>

Actions == {"add", "evacuate", "remove"}
Commands == [instance : Instances, action : Actions]

\* The set of instances to watch after a command.
Obeyed(set, command) ==
    IF command.action = "remove" THEN set \ {command.instance}
    ELSE set \cup {command.instance}

Impossible(command) == command.action # "remove" /\ command.instance \in NoProvider

Init ==
    /\ protected \in SUBSET Instances
    /\ watched = protected \ NoProvider
    /\ pending = <<>>

Give(command) ==
    /\ (command.action = "remove") <=> command.instance \in protected
    /\ protected' = Obeyed(protected, command)
    /\ pending' = Append(pending, command)
    /\ UNCHANGED watched

Obey ==
    /\ pending # <<>>
    /\ watched' = IF Impossible(Head(pending)) THEN watched
                  ELSE Obeyed(watched, Head(pending))
    /\ pending' = Tail(pending)
    /\ UNCHANGED protected

Next == Obey \/ \E command \in Commands : Give(command)

Spec == Init /\ [][Next]_vars
=============================================================================
