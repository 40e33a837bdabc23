--------------------------- MODULE MCAuditDelivery --------------------------
(* Small instances of AuditDelivery for TLC: region "c" is configured but   *)
(* not enabled, "x" is not configured.                                      *)
EXTENDS AuditDelivery

Nobody == "none"
ConfiguredRegions == {"a", "b", "c"}
EnabledRegions == {"a", "b"}

Shoot(verb, user, request) ==
    [resource |-> "shoots", stage |-> "ResponseComplete", subresource |-> "",
     verb |-> verb, user |-> user, impersonated |-> {},
     request |-> request, response |-> {}]

\* One event of each way through the filter and to a region.
Events ==
    {Shoot("create", "a", "a"), Shoot("create", "a", Nobody), Shoot("create", "a", "x"),
     Shoot("create", "c", Nobody), Shoot("create", "a", "b"),
     Shoot("patch", Nobody, Nobody), Shoot("get", "a", Nobody),
     [Shoot("delete", "a", Nobody) EXCEPT !.response = {"b"}],
     [Shoot("delete", "a", "x") EXCEPT !.response = {Nobody}],
     [Shoot("patch", Nobody, Nobody) EXCEPT !.impersonated = {"b"}],
     [Shoot("create", "a", Nobody) EXCEPT !.impersonated = {"b"}],
     [Shoot("create", "a", Nobody) EXCEPT !.subresource = "adminkubeconfig"],
     [Shoot("create", "a", "x") EXCEPT !.stage = "RequestReceived"],
     [Shoot("patch", "a", "a") EXCEPT !.subresource = "status"],
     [Shoot("create", "a", Nobody) EXCEPT !.resource = "other"]}
=============================================================================
