-------------------------- MODULE PlanningArtifacts --------------------------
(* What the completion gate and the replan detector can tell of an artifact:   *)
(* shared by the workers that write them and the runtime that reads them.      *)

Roles == {"diagnosis", "impact_safety", "resource_planning"}

\* Besides these a worker may raise, which TaskPlanning calls {"error"}.
Contents(role) ==
    CASE role = "diagnosis" -> { {}, {"refused"}, {"signal"}, {"refused", "signal"} }
      [] role = "impact_safety" -> { {}, {"refused"}, {"unacknowledged"} }
      [] role = "resource_planning" -> { {}, {"signal"}, {"refused", "signal"} }
=============================================================================
