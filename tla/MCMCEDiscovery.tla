---------------------------- MODULE MCMCEDiscovery ----------------------------
(* Instances of MCEDiscovery for TLC.                                         *)
EXTENDS MCEDiscovery

Cluster(labels, configs) ==
    [labels |-> labels, configs |-> configs, deleting |-> FALSE]

\* A cluster of the fleet whose second client config is the usable one, the
\* same without a usable one, and one outside the selection.
FleetImports ==
    {Cluster({"fleet"}, <<"http", "u1">>), Cluster({"fleet"}, <<"http">>),
     Cluster({}, <<"u1">>)}

Hub(mode) == [mode |-> mode, selector |-> {"fleet"}]

AllHubs == {Hub(m) : m \in {"none", "terminating", "secret", "mce"}}

\* The MCE proxy as it should be, and with a second MultiClusterEngine.
Proxy(engines) == [engines |-> engines, port |-> TRUE, ca |-> TRUE]

MceProxies == {Proxy(1), Proxy(2)}
=============================================================================
