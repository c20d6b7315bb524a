---------------------------- MODULE MCOperatorConsole ------------------------
EXTENDS OperatorConsole, TLC

CONSTANTS b, r, s, c, d, e1, e2

At(t, delay, expects) == [type |-> t, delay |-> delay, expects |-> expects]

\* The second event of the replay follows after a delay; the scenario waits for
\* an event of a type that the replay publishes.
MCScript ==
    r :> <<At("detected", FALSE, "none"), At("assessed", TRUE, "none")>> @@
    s :> <<At("detected", FALSE, "assessed"), At("approved", TRUE, "none")>>

MCFollowing == c :> r @@ d :> s
MCDefinitionOf == s :> e1
MCNameOf == e1 :> "wildfire" @@ e2 :> "wildfire"

Bound(stops, faults, injections, events, connections, watchers, sessions) ==
    [stops |-> stops, faults |-> faults, injections |-> injections, events |-> events,
     connections |-> connections, watchers |-> watchers, sessions |-> sessions]

MCScenarios ==
    {Bound(1, 1, 0, 0, 0, {c}, {r}), Bound(1, 1, 1, 0, 0, {d}, {s}),
     Bound(1, 0, 0, 0, 0, {c}, {r, s}), Bound(0, 0, 1, 2, 2, {}, {})}

=============================================================================
