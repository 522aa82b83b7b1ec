----------------------------- MODULE MCFailover -----------------------------
(* Small instances of Failover for TLC. *)
EXTENDS Failover
CONSTANTS n1, n2, i1, i2, h1, h2
TwoHosts == {n1, n2}
TwoInstances == {i1, i2}
TwoHandlers == {h1, h2}

\* Bound: what goes wrong and what users do, taken together.  Either both instances
\* are protected, only their host breaks, and one handler is enough; or nothing happens
\* to the second.
Narrow ==
    /\ faults + requests + moves <= 2
    /\ IF Protected(i2) THEN pc[h2] = "idle" /\ power[n2] = "up"
       ELSE nova_host[i2] = n2 /\ \A h \in Handlers : what[h] # i2

\* The hosts, and the instances, can be exchanged: the first host is that of the first
\* instance, and of the second when that is protected, too.  Then the other host has
\* an old domain of one of them.
OneSideInit ==
    /\ Init
    /\ id[1] = i1 /\ nova_host[i1] = n1
    /\ IF Protected(i2)
       THEN /\ node_list = Hosts /\ instance_list = <<1, 2>> /\ nova_host[i2] = n1
            /\ domain[n2] = (i1 :> "off" @@ i2 :> "none")
       ELSE nova_host[i2] = n2 /\ domain[n1][i2] = "none"
OneSide == OneSideInit /\ [][Next]_vars /\ Fairness
=============================================================================
