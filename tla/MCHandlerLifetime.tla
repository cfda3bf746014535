-------------------------- MODULE MCHandlerLifetime ---------------------------
(* Three handlers, whose endpoints may fail as soon as they are started.    *)
EXTENDS GatewayAccessServerHandlerLifetime, TLC

EndpointReports == {"Start"}
===============================================================================
