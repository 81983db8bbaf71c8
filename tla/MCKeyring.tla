------------------------------ MODULE MCKeyring ------------------------------
EXTENDS Keyring, TLC
CONSTANTS i1, i2, i3
\* All objects in one process, or each in its own.
MCOneProcess == [i \in Instance |-> CHOOSE p \in Process : TRUE]
MCOwnProcess == CHOOSE f \in [Instance -> Process] :
                    \A i, j \in Instance : f[i] = f[j] => i = j
\* Every kind of object; the workers' managers and a pepper.
MCMixed == [i \in Instance |-> CASE i = i1 -> "manager" [] i = i2 -> "sealer"
                                 [] i = i3 -> "pepper"]
MCManagers == [i \in Instance |-> IF i = i3 THEN "pepper" ELSE "manager"]
=============================================================================
