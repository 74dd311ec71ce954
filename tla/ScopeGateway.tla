---------------------------- MODULE ScopeGateway ----------------------------
(***************************************************************************)
(* ScopeEnforcementGateway.validate_request (app/engine/scope_gateway.py): *)
(* the checks of a request, in their order, with the caches they share in  *)
(* Redis and the rate limiter.  Every access to Redis is an await at which *)
(* other requests run, and may fail.                                       *)
(*                                                                         *)
(* A request is validated against the scope object its caller has loaded,  *)
(* a configuration here.  Scopes differ in their lists and limits, and     *)
(* update_scope changes them at any time, so that requests in progress     *)
(* have any of the Configurations.  What Redis keeps of a host is keyed by *)
(* its name alone, and shared by all of them; the limiter counts for each  *)
(* scope, and is modelled for one.                                         *)
(*                                                                         *)
(* Names are resolved by the system (external): an answer is any address.  *)
(* Cache entries expire at any time, which stands for their 60 and 300     *)
(* seconds.                                                                *)
(***************************************************************************)
EXTENDS RateLimiter

CONSTANTS
    Hosts,      \* host names within the scope's domain
    Addresses,  \* what a name may resolve to
    Private,    \* the addresses in a private or reserved range
    ScopeIds,
    LimitedScope,    \* the scope whose counter the limiter models
    Configurations   \* what the scopes are, and are updated to

ASSUME GatewayAssumption ==
    /\ Private \subseteq Addresses
    /\ Configurations \subseteq
          [id : ScopeIds, ip_allowlist : SUBSET Addresses, ip_blocklist : SUBSET Addresses,
           max_requests : 1 .. MaxRequests]

VARIABLES
    resolved,   \* resolved[h]: the cached address of h (resolve:<host>)
    pinned,     \* pinned[h]: the pinned address of h (dns_pin:<host>)
    handling    \* handling[c]: the validation that caller c waits for

gatewayVars == <<limiterVars, resolved, pinned, handling>>

None == "none"

Waiting == [at |-> "idle"]

Decisions == {"allow", "deny", "rebinding", "rate_limited", "error"}

Handlings ==
    {Waiting}
    \cup [at : {"resolve"}, scope : Configurations, host : Hosts]
    \cup [at : {"cache", "pin", "repin", "limit", "audit_allow"}, scope : Configurations,
          host : Hosts, ip : Addresses]
    \cup [at : {"audit_deny"}]
    \cup [at : {"decided"}, scope : Configurations, ip : Addresses, decision : Decisions]
    \cup [at : {"decided"}, decision : {"deny", "error"}]

GatewayTypeOK ==
    /\ LimiterTypeOK
    /\ resolved \in [Hosts -> Addresses \cup {None}]
    /\ pinned \in [Hosts -> Addresses \cup {None}]
    /\ handling \in [Calls -> Handlings]

GatewayInit ==
    /\ LimiterInit
    /\ resolved = [h \in Hosts |-> None]
    /\ pinned = [h \in Hosts |-> None]
    /\ handling = [c \in Calls |-> Waiting]

At(c, step)  == handling[c].at = step
Go(c, state) == handling' = [handling EXCEPT ![c] = state]

\* A decision about an address, and one without.
Decide(c, scope, ip, decision) ==
    Go(c, [at |-> "decided", scope |-> scope, ip |-> ip, decision |-> decision])
Refuse(c, decision) == Go(c, [at |-> "decided", decision |-> decision])

-----------------------------------------------------------------------------
(* Checks 1 to 3: status, host name, excluded paths *)

\* A URL outside the domain, or under a scope that is not active, is audited before it is
\* denied ...
BeginOutside(c) ==
    /\ At(c, "idle")
    /\ Go(c, [at |-> "audit_deny"])
    /\ UNCHANGED <<limiterVars, resolved, pinned>>

\* ... one without a host name or under an excluded path is denied at once ...
BeginExcluded(c) ==
    /\ At(c, "idle")
    /\ Refuse(c, "deny")
    /\ UNCHANGED <<limiterVars, resolved, pinned>>

\* ... and any other is resolved.
Begin(c, scope, h) ==
    /\ At(c, "idle")
    /\ Go(c, [at |-> "resolve", scope |-> scope, host |-> h])
    /\ UNCHANGED <<limiterVars, resolved, pinned>>

-----------------------------------------------------------------------------
(* Checks 4 and 5: address, rebinding *)

\* The allowlist comes before the blocklist and the private ranges.
Accepts(scope, ip) ==
    ip \in scope.ip_allowlist \/ (ip \notin scope.ip_blocklist /\ ip \notin Private)

CheckAddress(c, scope, h, ip) ==
    IF Accepts(scope, ip)
       THEN Go(c, [at |-> "pin", scope |-> scope, host |-> h, ip |-> ip])
       ELSE Decide(c, scope, ip, "deny")

\* The cached address is used, whichever scope's request cached it ...
ResolveCached(c) ==
    LET q == handling[c]
    IN  /\ At(c, "resolve")
        /\ resolved[q.host] # None
        /\ CheckAddress(c, q.scope, q.host, resolved[q.host])
        /\ UNCHANGED <<limiterVars, resolved, pinned>>

\* ... or the name is resolved, to be cached ...
ResolveName(c, ip) ==
    LET q == handling[c]
    IN  /\ At(c, "resolve")
        /\ resolved[q.host] = None
        /\ Go(c, [at |-> "cache", scope |-> q.scope, host |-> q.host, ip |-> ip])
        /\ UNCHANGED <<limiterVars, resolved, pinned>>

ResolveNothingGoesOn(c) ==
    LET q == handling[c]
    IN  /\ At(c, "resolve")
        /\ resolved[q.host] = None
        /\ Go(c, [at |-> "pin", scope |-> q.scope, host |-> q.host, ip |-> None])
        /\ UNCHANGED <<limiterVars, resolved, pinned>>

\* ... or it has no address.
ResolveNothing(c) ==
    /\ At(c, "resolve")
    /\ resolved[handling[c].host] = None
    /\ Refuse(c, "deny")
    /\ UNCHANGED <<limiterVars, resolved, pinned>>

CacheAddressUnchecked(c) ==
    LET q == handling[c]
    IN  /\ At(c, "cache")
        /\ resolved' = [resolved EXCEPT ![q.host] = q.ip]
        /\ Go(c, [q EXCEPT !.at = "pin"])
        /\ UNCHANGED <<limiterVars, pinned>>

\* ... and then checked.
CacheAddress(c) ==
    LET q == handling[c]
    IN  /\ At(c, "cache")
        /\ resolved' = [resolved EXCEPT ![q.host] = q.ip]
        /\ CheckAddress(c, q.scope, q.host, q.ip)
        /\ UNCHANGED <<limiterVars, pinned>>

\* _check_dns_rebinding reads the pin and compares; a first or a changed address is pinned.
ReadPin(c) ==
    LET q   == handling[c]
        pin == pinned[q.host]
    IN  /\ At(c, "pin")
        /\ \/ pin = q.ip /\ Go(c, [q EXCEPT !.at = "limit"])
           \/ /\ pin # q.ip
              /\ pin # None /\ q.ip \in Private
              /\ Decide(c, q.scope, q.ip, "rebinding")
           \/ /\ pin # q.ip
              /\ pin = None \/ q.ip \notin Private
              /\ Go(c, [q EXCEPT !.at = "repin"])
        /\ UNCHANGED <<limiterVars, resolved, pinned>>

WritePinFromCache(c) ==
    LET q == handling[c]
    IN  /\ At(c, "repin")
        /\ pinned' = [pinned EXCEPT ![q.host] = resolved[q.host]]
        /\ Go(c, [q EXCEPT !.at = "limit"])
        /\ UNCHANGED <<limiterVars, resolved>>

WritePin(c) ==
    LET q == handling[c]
    IN  /\ At(c, "repin")
        /\ pinned' = [pinned EXCEPT ![q.host] = q.ip]
        /\ Go(c, [q EXCEPT !.at = "limit"])
        /\ UNCHANGED <<limiterVars, resolved>>

-----------------------------------------------------------------------------
(* Check 6 and the decision *)

Limited(c) == At(c, "limit") /\ handling[c].scope.id = LimitedScope

\* The limiter's two commands.
CountRequest(c) ==
    /\ Limited(c)
    /\ Incr(c, handling[c].scope.max_requests) \/ Expire(c)
    /\ UNCHANGED <<resolved, pinned, handling>>

LimitWaits(c) ==
    /\ Limited(c)
    /\ call[c] = "allowed"
    /\ Return(c)
    /\ Go(c, [handling[c] EXCEPT !.at = "audit_allow"])
    /\ UNCHANGED <<resolved, pinned>>

\* A request within the limit is allowed, and its decision audited; any other raises.
Limit(c) ==
    LET q == handling[c]
    IN  /\ Limited(c)
        /\ Return(c)
        /\ IF call[c] = "allowed"
              THEN Go(c, [q EXCEPT !.at = "audit_allow"])
              ELSE Decide(c, q.scope, q.ip, "rate_limited")
        /\ UNCHANGED <<resolved, pinned>>

\* The counter of any other scope answers either way.
LimitElsewhere(c) ==
    LET q == handling[c]
    IN  /\ At(c, "limit") /\ ~ Limited(c)
        /\ \/ Go(c, [q EXCEPT !.at = "audit_allow"])
           \/ Decide(c, q.scope, q.ip, "rate_limited")
        /\ UNCHANGED <<limiterVars, resolved, pinned>>

\* _audit_log increments the counter of the decision; then the result is returned or the
\* denial raised.
Audit(c) ==
    /\ \/ At(c, "audit_allow") /\ Decide(c, handling[c].scope, handling[c].ip, "allow")
       \/ At(c, "audit_deny") /\ Refuse(c, "deny")
    /\ UNCHANGED <<limiterVars, resolved, pinned>>

\* Redis cannot be reached, or the resolver raises something else than gaierror: whatever was
\* decided becomes an internal error.  Between the limiter's commands this is the failure that
\* leaves a counter without expiry.
RedisFails(c) ==
    /\ \/ /\ handling[c].at \in {"resolve", "cache", "pin", "repin", "audit_allow", "audit_deny"}
          /\ Refuse(c, "error")
          /\ UNCHANGED limiterVars
       \/ /\ At(c, "limit") /\ call[c] = "idle"
          /\ Refuse(c, "error")
          /\ UNCHANGED limiterVars
       \/ /\ At(c, "limit")
          /\ Crash(c)
          /\ Refuse(c, "error")
    /\ UNCHANGED <<resolved, pinned>>

\* The caller takes the decision.
Leave(c) ==
    /\ At(c, "decided")
    /\ Go(c, Waiting)
    /\ UNCHANGED <<limiterVars, resolved, pinned>>

\* Cached and pinned addresses live for a limited time.
Forget(h) ==
    /\ \/ resolved' = [resolved EXCEPT ![h] = None] /\ UNCHANGED pinned
       \/ pinned' = [pinned EXCEPT ![h] = None] /\ UNCHANGED resolved
    /\ UNCHANGED <<limiterVars, handling>>

Handle(c) ==
    \/ ResolveCached(c) \/ ResolveNothing(c) \/ CacheAddress(c)
    \/ \E ip \in Addresses : ResolveName(c, ip)
    \/ ReadPin(c) \/ WritePin(c)
    \/ CountRequest(c) \/ Limit(c) \/ LimitElsewhere(c)
    \/ Audit(c)

GatewayNext ==
    \/ \E c \in Calls :
          \/ BeginOutside(c) \/ BeginExcluded(c)
          \/ \E scope \in Configurations, h \in Hosts : Begin(c, scope, h)
          \/ Handle(c) \/ RedisFails(c) \/ Leave(c)
    \/ \E h \in Hosts : Forget(h)
    \/ Tick /\ UNCHANGED <<resolved, pinned, handling>>

\* A coroutine whose await is over goes on, and time passes.
GatewayFairness ==
    /\ \A c \in Calls : WF_gatewayVars(Handle(c))
    /\ WF_gatewayVars(Tick /\ UNCHANGED <<resolved, pinned, handling>>)

GatewaySpec == GatewayInit /\ [][GatewayNext]_gatewayVars /\ GatewayFairness

-----------------------------------------------------------------------------
(* Properties *)

\* A request is allowed to none but an address that the lists it was given accept, and the pin
\* of a host is an address that the lists of some scope accept: although the cached address is
\* that of any scope's request, put there before it was checked, and requests of scopes with
\* other lists replace it, and the pin, between a request's reads and its writes.
AddressesAccepted ==
    /\ \A c \in Calls : At(c, "decided") /\ handling[c].decision = "allow" =>
          Accepts(handling[c].scope, handling[c].ip)
    /\ \A h \in Hosts : pinned[h] # None =>
          \E scope \in Configurations : Accepts(scope, pinned[h])

\* A private address that differs from the pin is reported as rebinding only to a scope that
\* lists it in its allowlist: to any other it is denied before the pin is read.
RebindingMeansAllowlisted ==
    \A c \in Calls : At(c, "decided") /\ handling[c].decision = "rebinding" =>
        handling[c].ip \in Private \cap handling[c].scope.ip_allowlist

Begun(c) == handling[c].at \notin {"idle", "decided"}

\* Every validation ends in a decision, also with an exhausted limiter.
ValidationEnds == \A c \in Calls : Begun(c) ~> ~ Begun(c)
=============================================================================
