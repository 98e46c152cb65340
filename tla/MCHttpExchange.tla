--------------------------- MODULE MCHttpExchange ---------------------------
EXTENDS HttpExchange

Before(action) == [Blank EXCEPT !.phase = BeforeUpstreamRequest, !.action = action]
After(action) == [Blank EXCEPT !.phase = AfterUpstreamHeaders, !.action = action]

\* Every action at every phase and direction it may have.
MCFaults ==
  { [Before("delay") EXCEPT !.duration = {1}], [After("delay") EXCEPT !.duration = {1}],
    [Before("respond") EXCEPT !.status = {200}],
    Before("close_connection"), After("close_connection"),
    [Before("hold_request") EXCEPT !.maxDuration = {1}],
    [After("hold_response") EXCEPT !.maxDuration = {1}],
    [Before("truncate") EXCEPT !.direction = "request", !.bytes = {1}],
    [After("truncate") EXCEPT !.direction = "response", !.bytes = {0}],
    [After("truncate") EXCEPT !.direction = "response", !.bytes = {1}],
    [Before("throttle") EXCEPT !.direction = "request", !.rate = {1}],
    [After("throttle") EXCEPT !.direction = "response", !.rate = {1}] }
=============================================================================
