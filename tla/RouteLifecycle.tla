--------------------------- MODULE RouteLifecycle ---------------------------
(***************************************************************************)
(* What the orchestrator promises about the set of tasks that serve a      *)
(* bridge, whatever calls it makes: a configuration's tasks are brought up *)
(* only when no task of an earlier configuration is left, only tasks of    *)
(* that configuration are brought up, success means the required ones are  *)
(* all there, and a failed start either takes everything down again or is  *)
(* known to have stranded tasks of that same configuration.                *)
(***************************************************************************)
CONSTANTS
    Routes,          \* what may be asked for
    Members(_),      \* the tasks a route may use
    Required(_),     \* the tasks a route cannot do without
    MayStrand(_)     \* whether a failed start of it may leave tasks behind

VARIABLES stage, route, serving

vars == <<stage, route, serving>>

Init == stage = "quiescing" /\ serving = {} /\ route \notin Routes

Quiesce ==
    /\ stage \in {"up", "down", "stranded"}
    /\ stage' = "quiescing"
    /\ UNCHANGED <<route, serving>>

\* Tasks of the old route disappear while it is taken down.
Lose ==
    /\ stage \in {"quiescing", "lowering"}
    /\ serving' \subseteq serving
    /\ UNCHANGED <<stage, route>>

Begin(r) ==
    /\ stage = "quiescing"
    /\ serving = {}
    /\ stage' = "raising"
    /\ route' = r
    /\ UNCHANGED serving

Raise ==
    /\ stage = "raising"
    /\ serving \subseteq serving'
    /\ serving' \subseteq Members(route)
    /\ UNCHANGED <<stage, route>>

Succeed ==
    /\ stage = "raising"
    /\ Required(route) \subseteq serving
    /\ stage' = "up"
    /\ UNCHANGED <<route, serving>>

GiveUp ==
    /\ stage = "raising"
    /\ stage' = "lowering"
    /\ UNCHANGED <<route, serving>>

Fail ==
    /\ stage = "lowering"
    /\ \/ serving = {} /\ stage' = "down"
       \/ MayStrand(route) /\ stage' = "stranded"
    /\ UNCHANGED <<route, serving>>

Next ==
    \/ Quiesce \/ Lose \/ Raise \/ Succeed \/ GiveUp \/ Fail
    \/ \E r \in Routes : Begin(r)

Spec == Init /\ [][Next]_vars
=============================================================================
