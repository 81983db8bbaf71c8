----------------------------- MODULE MCGateway -----------------------------
EXTENDS GatewayProperties, TLC
MCUserOf == [t \in Tab |-> CHOOSE u \in User : TRUE]
MCWorkers == Permutations(Worker)
=============================================================================
