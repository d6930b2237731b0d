------------------------------- MODULE MCWire --------------------------------
\* Settings to model-check Wire with: schemas that are old, new or without the
\* second major version, and settings that do not pass the check.
EXTENDS Wire, TLC

CONSTANTS s1, s2

Old == <<"created", 1>>
New == <<"created", 2>>

Settings(known, routed, registered) ==
    {[schema |-> known, routing |-> routed, callbacks |-> registered, transport |-> t] :
        t \in BOOLEAN}

MCConfigs ==
    UNION {Settings((Old :> 0), {Old}, {Old}),
           Settings((Old :> 1), {Old}, {}),
           Settings((Old :> 1) @@ (New :> 0), {Old, New}, {Old, New}),
           Settings((Old :> 0) @@ (New :> 1), {New}, {Old}),
           Settings((New :> 1), {New}, {Old, New}),
           Settings((Old :> 0) @@ (New :> 0), {}, {New})}

\* Nothing tells services apart.
ServicesSymmetric == Permutations(Services)
=============================================================================
