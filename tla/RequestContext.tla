---------------------------- MODULE RequestContext ----------------------------
(* What every request to the agent carries, and the absence of a value.       *)

CONSTANTS Tenant,       \* the tenant of the requests
          None
===============================================================================
