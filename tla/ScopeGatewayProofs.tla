------------------------- MODULE ScopeGatewayProofs -------------------------
(***************************************************************************)
(* Theorems about ScopeGateway and the limiter it extends: which addresses *)
(* are allowed and pinned, when a request is reported as rebinding, why a  *)
(* counter may have no expiry, and how many requests are allowed in a      *)
(* short time.  Three invariants carry them: AddressInv, over the          *)
(* gateway's own variables, LimiterInv and BurstInv, over the limiter's.   *)
(***************************************************************************)
EXTENDS ScopeGateway, FiniteSetTheorems, TLAPS

-----------------------------------------------------------------------------
(* Addresses *)

\* The address of a request that is past the check of addresses is one its own lists accept.
PastCheck(c) == handling[c].at \in {"pin", "repin", "limit", "audit_allow"}

AddressChecked(c) == PastCheck(c) => Accepts(handling[c].scope, handling[c].ip)

\* The inductive strengthening: what WritePin pins and Audit allows is the address of such a
\* request, and ReadPin reports rebinding for such an address only.
AddressInv ==
    /\ handling \in [Calls -> Handlings]
    /\ pinned \in [Hosts -> Addresses \cup {None}]
    /\ resolved \in [Hosts -> Addresses \cup {None}]
    /\ \A c \in Calls : AddressChecked(c)
    /\ AddressesAccepted
    /\ RebindingMeansAllowlisted

LEMMA HandlingShape ==
    ASSUME NEW q \in Handlings
    PROVE  /\ q.at \in {"idle", "resolve", "cache", "pin", "repin", "limit", "audit_allow",
                        "audit_deny", "decided"}
           /\ q.at \in {"resolve", "cache", "pin", "repin", "limit", "audit_allow"} =>
                q.host \in Hosts /\ q.scope \in Configurations
           /\ q.at \in {"cache", "pin", "repin", "limit", "audit_allow"} =>
                /\ q.ip \in Addresses
                /\ \A s \in {"pin", "repin", "limit", "audit_allow"} :
                        /\ [q EXCEPT !.at = s] \in Handlings
                        /\ [q EXCEPT !.at = s].at = s
                        /\ [q EXCEPT !.at = s].ip = q.ip
                        /\ [q EXCEPT !.at = s].scope = q.scope
BY DEF Handlings, Waiting

\* A step of one caller that pins nothing.
LEMMA GoKeeps ==
    ASSUME AddressInv, NEW c \in Calls, NEW q \in Handlings, Go(c, q),
           UNCHANGED pinned, resolved' \in [Hosts -> Addresses \cup {None}],
           q.at \in {"pin", "repin", "limit", "audit_allow"} => Accepts(q.scope, q.ip),
           q.at = "decided" /\ q.decision = "allow" => Accepts(q.scope, q.ip),
           q.at = "decided" /\ q.decision = "rebinding" =>
                q.ip \in Private \cap q.scope.ip_allowlist
    PROVE  AddressInv'
<1>1. /\ handling' \in [Calls -> Handlings]
      /\ handling'[c] = q
      /\ \A d \in Calls \ {c} : handling'[d] = handling[d]
  BY DEF Go, AddressInv
<1>2. (\A d \in Calls : AddressChecked(d))'
  BY <1>1 DEF AddressChecked, PastCheck, AddressInv, Accepts
<1>3. AddressesAccepted'
  BY <1>1 DEF AddressesAccepted, AddressInv, Accepts, At
<1>4. RebindingMeansAllowlisted'
  BY <1>1 DEF RebindingMeansAllowlisted, AddressInv, At
<1>5. QED
  BY <1>1, <1>2, <1>3, <1>4 DEF AddressInv

LEMMA DecideKeeps ==
    ASSUME AddressInv, NEW c \in Calls, NEW scope \in Configurations, NEW ip \in Addresses,
           NEW decision \in Decisions, Decide(c, scope, ip, decision),
           UNCHANGED pinned, resolved' \in [Hosts -> Addresses \cup {None}],
           decision = "allow" => Accepts(scope, ip),
           decision = "rebinding" => ip \in Private \cap scope.ip_allowlist
    PROVE  AddressInv'
<1> DEFINE q == [at |-> "decided", scope |-> scope, ip |-> ip, decision |-> decision]
<1>1. /\ q \in Handlings /\ q.at = "decided" /\ q.scope = scope /\ q.ip = ip
      /\ q.decision = decision
  BY DEF Handlings
<1>2. Go(c, q)
  BY DEF Decide
<1> HIDE DEF q
<1>3. QED
  BY <1>1, <1>2, GoKeeps

LEMMA RefuseKeeps ==
    ASSUME AddressInv, NEW c \in Calls, NEW decision \in {"deny", "error"},
           Refuse(c, decision), UNCHANGED <<resolved, pinned>>
    PROVE  AddressInv'
<1> DEFINE q == [at |-> "decided", decision |-> decision]
<1>1. q \in Handlings /\ q.at = "decided" /\ q.decision = decision
  BY DEF Handlings
<1>2. Go(c, q) /\ resolved' \in [Hosts -> Addresses \cup {None}]
  BY DEF Refuse, AddressInv
<1> HIDE DEF q
<1>3. QED
  BY <1>1, <1>2, GoKeeps

LEMMA CheckAddressKeeps ==
    ASSUME AddressInv, NEW c \in Calls, NEW scope \in Configurations, NEW h \in Hosts,
           NEW ip \in Addresses, CheckAddress(c, scope, h, ip),
           UNCHANGED pinned, resolved' \in [Hosts -> Addresses \cup {None}]
    PROVE  AddressInv'
<1>1. CASE Accepts(scope, ip)
  <2> DEFINE q == [at |-> "pin", scope |-> scope, host |-> h, ip |-> ip]
  <2>1. q \in Handlings /\ q.at = "pin" /\ q.scope = scope /\ q.ip = ip
    BY DEF Handlings
  <2>2. Go(c, q)
    BY <1>1 DEF CheckAddress
  <2> HIDE DEF q
  <2>3. QED
    BY <1>1, <2>1, <2>2, GoKeeps
<1>2. CASE ~ Accepts(scope, ip)
  <2>1. Decide(c, scope, ip, "deny") /\ "deny" \in Decisions
    BY <1>2 DEF CheckAddress, Decisions
  <2>2. QED
    BY <2>1, DecideKeeps
<1>3. QED
  BY <1>1, <1>2

\* One case for each action; the limiter changes nothing the invariant speaks of.
LEMMA AddressInvStep == AddressInv /\ [GatewayNext]_gatewayVars => AddressInv'
<1> SUFFICES ASSUME AddressInv, [GatewayNext]_gatewayVars
             PROVE  AddressInv'
  OBVIOUS
<1> USE DEF AddressInv
<1>a. \A c \in Calls : handling[c] \in Handlings
  OBVIOUS
<1>b. Decisions = {"allow", "deny", "rebinding", "rate_limited", "error"}
  BY DEF Decisions
<1>1. ASSUME NEW c \in Calls, BeginOutside(c)
      PROVE  AddressInv'
  <2>1. [at |-> "audit_deny"] \in Handlings
    BY DEF Handlings
  <2>2. QED
    BY <1>1, <2>1, GoKeeps DEF BeginOutside
<1>2. ASSUME NEW c \in Calls, BeginExcluded(c)
      PROVE  AddressInv'
  BY <1>2, RefuseKeeps DEF BeginExcluded
<1>3. ASSUME NEW c \in Calls, NEW scope \in Configurations, NEW h \in Hosts, Begin(c, scope, h)
      PROVE  AddressInv'
  <2>1. [at |-> "resolve", scope |-> scope, host |-> h] \in Handlings
    BY DEF Handlings
  <2>2. QED
    BY <1>3, <2>1, GoKeeps DEF Begin
<1>4. ASSUME NEW c \in Calls, ResolveCached(c)
      PROVE  AddressInv'
  <2>1. handling[c].host \in Hosts /\ handling[c].scope \in Configurations
    BY <1>4, <1>a, HandlingShape DEF ResolveCached, At
  <2>2. resolved[handling[c].host] \in Addresses
    BY <1>4, <2>1 DEF ResolveCached
  <2>3. QED
    BY <1>4, <2>1, <2>2, CheckAddressKeeps DEF ResolveCached
<1>5. ASSUME NEW c \in Calls, NEW ip \in Addresses, ResolveName(c, ip)
      PROVE  AddressInv'
  <2> DEFINE q == [at |-> "cache", scope |-> handling[c].scope, host |-> handling[c].host,
                   ip |-> ip]
  <2>1. handling[c].host \in Hosts /\ handling[c].scope \in Configurations
    BY <1>5, <1>a, HandlingShape DEF ResolveName, At
  <2>2. q \in Handlings /\ q.at = "cache"
    BY <2>1 DEF Handlings
  <2>3. Go(c, q) /\ UNCHANGED <<resolved, pinned>>
    BY <1>5 DEF ResolveName
  <2> HIDE DEF q
  <2>4. QED
    BY <2>2, <2>3, GoKeeps
<1>6. ASSUME NEW c \in Calls, ResolveNothing(c)
      PROVE  AddressInv'
  BY <1>6, RefuseKeeps DEF ResolveNothing
<1>7. ASSUME NEW c \in Calls, CacheAddress(c)
      PROVE  AddressInv'
  <2>1. /\ handling[c].host \in Hosts /\ handling[c].ip \in Addresses
        /\ handling[c].scope \in Configurations
    BY <1>7, <1>a, HandlingShape DEF CacheAddress, At
  <2>2. /\ CheckAddress(c, handling[c].scope, handling[c].host, handling[c].ip)
        /\ UNCHANGED pinned
    BY <1>7 DEF CacheAddress
  <2>3. resolved' \in [Hosts -> Addresses \cup {None}]
    BY <1>7, <2>1 DEF CacheAddress
  <2>4. QED
    BY <2>1, <2>2, <2>3, CheckAddressKeeps
<1>8. ASSUME NEW c \in Calls, ReadPin(c)
      PROVE  AddressInv'
  <2> DEFINE q == handling[c]
             limited  == [q EXCEPT !.at = "limit"]
             repinned == [q EXCEPT !.at = "repin"]
  <2>1. /\ q.at = "pin" /\ q.ip \in Addresses /\ q.scope \in Configurations
        /\ Accepts(q.scope, q.ip)
    BY <1>8, <1>a, HandlingShape DEF ReadPin, At, AddressChecked, PastCheck
  <2>2. /\ limited \in Handlings /\ limited.at = "limit" /\ limited.ip = q.ip
        /\ limited.scope = q.scope
        /\ repinned \in Handlings /\ repinned.at = "repin" /\ repinned.ip = q.ip
        /\ repinned.scope = q.scope
    BY <2>1, <1>a, HandlingShape
  <2>3. UNCHANGED <<resolved, pinned>>
    BY <1>8 DEF ReadPin
  <2>4. CASE Go(c, limited) \/ Go(c, repinned)
    <3> HIDE DEF limited, repinned
    <3>1. QED
      BY <2>1, <2>2, <2>3, <2>4, GoKeeps
  <2>5. CASE q.ip \in Private /\ Decide(c, q.scope, q.ip, "rebinding")
    <3>1. q.ip \in Private \cap q.scope.ip_allowlist
      BY <2>1, <2>5 DEF Accepts
    <3>2. QED
      BY <2>1, <2>3, <2>5, <3>1, <1>b, DecideKeeps
  <2>6. QED
    BY <1>8, <2>4, <2>5 DEF ReadPin
<1>9. ASSUME NEW c \in Calls, WritePin(c)
      PROVE  AddressInv'
  <2> DEFINE q == handling[c]
             onward == [q EXCEPT !.at = "limit"]
  <2>1. /\ q.at = "repin" /\ q.ip \in Addresses /\ q.host \in Hosts
        /\ q.scope \in Configurations /\ Accepts(q.scope, q.ip)
    BY <1>9, <1>a, HandlingShape DEF WritePin, At, AddressChecked, PastCheck
  <2>2. /\ onward \in Handlings /\ onward.at = "limit" /\ onward.ip = q.ip
        /\ onward.scope = q.scope
    BY <2>1, <1>a, HandlingShape
  <2>3. /\ handling' \in [Calls -> Handlings]
        /\ handling'[c] = onward
        /\ \A d \in Calls \ {c} : handling'[d] = handling[d]
    BY <1>9, <2>2 DEF WritePin, Go
  <2>4. /\ pinned' = [pinned EXCEPT ![q.host] = q.ip]
        /\ resolved' = resolved
    BY <1>9 DEF WritePin
  <2>5. AddressesAccepted'
    <3>1. ASSUME NEW d \in Calls, handling'[d].at = "decided", handling'[d].decision = "allow"
          PROVE  Accepts(handling'[d].scope, handling'[d].ip)
      BY <2>2, <2>3, <3>1 DEF AddressesAccepted, At
    <3>2. ASSUME NEW h \in Hosts, pinned'[h] # None
          PROVE  \E scope \in Configurations : Accepts(scope, pinned'[h])
      BY <2>1, <2>4, <3>2 DEF AddressesAccepted
    <3> QED
      BY <3>1, <3>2 DEF AddressesAccepted, At, Accepts
  <2>6. (\A d \in Calls : AddressChecked(d))'
    BY <2>1, <2>2, <2>3 DEF AddressChecked, PastCheck, Accepts
  <2>7. RebindingMeansAllowlisted'
    BY <2>2, <2>3 DEF RebindingMeansAllowlisted, At
  <2>8. QED
    BY <2>1, <2>3, <2>4, <2>5, <2>6, <2>7
<1>10. ASSUME NEW c \in Calls, Limit(c) \/ LimitElsewhere(c)
       PROVE  AddressInv'
  <2> DEFINE q == handling[c]
             onward == [q EXCEPT !.at = "audit_allow"]
  <2>1. /\ q.at = "limit" /\ q.ip \in Addresses /\ q.scope \in Configurations
        /\ Accepts(q.scope, q.ip)
    BY <1>10, <1>a, HandlingShape
    DEF Limit, LimitElsewhere, Limited, At, AddressChecked, PastCheck
  <2>2. /\ onward \in Handlings /\ onward.at = "audit_allow" /\ onward.ip = q.ip
        /\ onward.scope = q.scope
    BY <2>1, <1>a, HandlingShape
  <2>3. /\ UNCHANGED <<resolved, pinned>>
        /\ Go(c, onward) \/ Decide(c, q.scope, q.ip, "rate_limited")
    BY <1>10 DEF Limit, LimitElsewhere
  <2> HIDE DEF onward
  <2>4. QED
    BY <2>1, <2>2, <2>3, <1>b, GoKeeps, DecideKeeps
<1>11. ASSUME NEW c \in Calls, Audit(c)
       PROVE  AddressInv'
  <2> DEFINE q == handling[c]
  <2>1. CASE At(c, "audit_allow") /\ Decide(c, q.scope, q.ip, "allow")
    <3>1. q.ip \in Addresses /\ q.scope \in Configurations /\ Accepts(q.scope, q.ip)
      BY <2>1, <1>a, HandlingShape DEF At, AddressChecked, PastCheck
    <3>2. QED
      BY <1>11, <2>1, <3>1, <1>b, DecideKeeps DEF Audit
  <2>2. CASE Refuse(c, "deny")
    BY <1>11, <2>2, RefuseKeeps DEF Audit
  <2>3. QED
    BY <1>11, <2>1, <2>2 DEF Audit
<1>12. ASSUME NEW c \in Calls, RedisFails(c)
       PROVE  AddressInv'
  <2>1. Refuse(c, "error") /\ UNCHANGED <<resolved, pinned>>
    BY <1>12 DEF RedisFails
  <2>2. QED
    BY <2>1, RefuseKeeps
<1>13. ASSUME NEW c \in Calls, Leave(c)
       PROVE  AddressInv'
  <2>1. Waiting \in Handlings /\ Waiting.at = "idle"
    BY DEF Handlings, Waiting
  <2>2. QED
    BY <1>13, <2>1, GoKeeps DEF Leave
<1>14. ASSUME NEW h \in Hosts, Forget(h)
       PROVE  AddressInv'
  <2>1. /\ handling' = handling
        /\ resolved' \in [Hosts -> Addresses \cup {None}]
        /\ pinned' \in [Hosts -> Addresses \cup {None}]
        /\ \A g \in Hosts : pinned'[g] = None \/ pinned'[g] = pinned[g]
    BY <1>14 DEF Forget
  <2>2. QED
    BY <2>1 DEF AddressesAccepted, RebindingMeansAllowlisted, AddressChecked, PastCheck, At,
               Accepts
<1>15. ASSUME UNCHANGED <<resolved, pinned, handling>>
       PROVE  AddressInv'
  BY <1>15 DEF AddressesAccepted, RebindingMeansAllowlisted, AddressChecked, PastCheck, At,
               Accepts
<1>16. \A c \in Calls : CountRequest(c) => UNCHANGED <<resolved, pinned, handling>>
  BY DEF CountRequest
<1>17. QED
  BY <1>1, <1>2, <1>3, <1>4, <1>5, <1>6, <1>7, <1>8, <1>9, <1>10, <1>11, <1>12, <1>13, <1>14,
     <1>15, <1>16 DEF GatewayNext, Handle, gatewayVars

LEMMA AddressInvHolds == GatewaySpec => []AddressInv
<1>1. GatewayInit => AddressInv
  BY DEF GatewayInit, AddressInv, Handlings, Waiting, AddressChecked, PastCheck,
         AddressesAccepted, RebindingMeansAllowlisted, At
<1>2. QED
  BY <1>1, AddressInvStep, PTL DEF GatewaySpec

-----------------------------------------------------------------------------
(* The counter *)

\* Unless a caller died between INCR and EXPIRE: at most one caller is between them, and it is
\* what a counter without expiry waits for.  An expiry is never there without its counter, or
\* the next request would count from 0 with a caller still about to set it.
LimiterInv ==
    /\ LimiterTypeOK
    /\ crashes = 0 =>
        /\ \A c \in Calls : call[c] = "expire" => count > 0 /\ ttl = 0
        /\ \A c, d \in Calls : call[c] = "expire" /\ call[d] = "expire" => c = d
        /\ count > 0 /\ ttl = 0 => \E c \in Calls : call[c] = "expire"
        /\ ttl > 0 => count > 0

LEMMA LimiterInvInit == LimiterInit => LimiterInv
BY LimiterAssumption DEF LimiterInit, LimiterInv, LimiterTypeOK

LEMMA CountedBounds ==
    ASSUME LimiterTypeOK
    PROVE  Counted \in 1 .. MaxCount
BY LimiterAssumption DEF LimiterTypeOK, Counted

LEMMA AllowType ==
    ASSUME LimiterTypeOK, NEW c \in Calls, Allow(c)
    PROVE  /\ recent' \in [1 .. Window -> Nat]
           /\ call' = [call EXCEPT ![c] = "allowed"]
BY LimiterAssumption DEF LimiterTypeOK, Allow

\* One case for each action of the limiter.
LEMMA LimiterInvStep == LimiterInv /\ [LimiterNext]_limiterVars => LimiterInv'
<1> SUFFICES ASSUME LimiterInv, [LimiterNext]_limiterVars
             PROVE  LimiterInv'
  OBVIOUS
<1> USE LimiterAssumption DEF LimiterInv
<1>1. ASSUME NEW c \in Calls, NEW limit \in 1 .. MaxRequests, Incr(c, limit)
      PROVE  LimiterInv'
  <2>1. /\ call[c] = "idle"
        /\ count' \in 1 .. MaxCount /\ ttl' = ttl /\ crashes' = crashes
    BY <1>1, CountedBounds DEF Incr
  <2>2. CASE count = 0 /\ call' = [call EXCEPT ![c] = "expire"] /\ UNCHANGED recent
    BY <2>1, <2>2 DEF LimiterTypeOK
  <2>3. CASE count > 0 /\ Allow(c)
    <3>1. /\ recent' \in [1 .. Window -> Nat]
          /\ call' = [call EXCEPT ![c] = "allowed"]
      BY <2>3, AllowType
    <3>2. LimiterTypeOK'
      BY <2>1, <3>1 DEF LimiterTypeOK
    <3>3. \A d \in Calls : call'[d] = "expire" <=> call[d] = "expire"
      BY <2>1, <3>1 DEF LimiterTypeOK
    <3>4. QED
      BY <2>1, <2>3, <3>2, <3>3 DEF LimiterTypeOK
  <2>4. CASE count > 0 /\ call' = [call EXCEPT ![c] = "denied"] /\ UNCHANGED recent
    BY <2>1, <2>4 DEF LimiterTypeOK
  <2>5. QED
    BY <1>1, <2>2, <2>3, <2>4 DEF Incr, LimiterTypeOK
<1>2. ASSUME NEW c \in Calls, Expire(c)
      PROVE  LimiterInv'
  <2>1. /\ call[c] = "expire" /\ ttl' = Window
        /\ UNCHANGED <<count, crashes>> /\ Allow(c)
    BY <1>2 DEF Expire
  <2>2. QED
    BY <2>1, AllowType DEF LimiterTypeOK
<1>3. ASSUME NEW c \in Calls, Crash(c)
      PROVE  LimiterInv'
  BY <1>3 DEF Crash, LimiterTypeOK
<1>4. ASSUME NEW c \in Calls, Return(c)
      PROVE  LimiterInv'
  BY <1>4 DEF Return, LimiterTypeOK
<1>5. ASSUME Tick
      PROVE  LimiterInv'
  <2>1. recent' \in [1 .. Window -> Nat]
    BY <1>5 DEF Tick, LimiterTypeOK
  <2>2. QED
    BY <1>5, <2>1 DEF Tick, LimiterTypeOK
<1>6. CASE UNCHANGED limiterVars
  BY <1>6 DEF limiterVars, LimiterTypeOK
<1>7. QED
  BY <1>1, <1>2, <1>3, <1>4, <1>5, <1>6 DEF LimiterNext

LEMMA LimiterInvExplains == LimiterInv => CounterWithoutExpiryExplained
<1> SUFFICES ASSUME LimiterInv, count > 0, ttl = 0, ~ (crashes > 0)
             PROVE  Cardinality({c \in Calls : call[c] = "expire"}) = 1
  BY DEF CounterWithoutExpiryExplained
<1>1. crashes = 0
  BY LimiterAssumption DEF LimiterInv, LimiterTypeOK
<1>2. PICK c \in Calls : call[c] = "expire"
  BY <1>1 DEF LimiterInv
<1>3. {d \in Calls : call[d] = "expire"} = {c}
  BY <1>1, <1>2 DEF LimiterInv
<1>4. QED
  BY <1>3, FS_Singleton

\* Every step of the gateway is one of the limiter, or leaves it alone: the gateway calls it in
\* the order of its two commands and counts a request only where the limiter would.
LEMMA GatewayStepsTheLimiter ==
    AddressInv /\ [GatewayNext]_gatewayVars => [LimiterNext]_limiterVars
<1>1. ASSUME AddressInv, NEW c \in Calls, CountRequest(c)
      PROVE  LimiterNext
  <2>1. handling[c].scope.max_requests \in 1 .. MaxRequests
    <3>1. handling[c] \in Handlings /\ handling[c].at = "limit"
      BY <1>1 DEF AddressInv, CountRequest, Limited, At
    <3>2. handling[c].scope \in Configurations
      BY <3>1 DEF Handlings, Waiting
    <3> QED
      BY <3>2, GatewayAssumption
  <2> QED
    BY <1>1, <2>1 DEF CountRequest, LimiterNext
<1> QED
  BY <1>1 DEF GatewayNext, gatewayVars, limiterVars, LimiterNext, Handle, BeginOutside,
       BeginExcluded, Begin, ResolveCached, ResolveNothing, CacheAddress, ResolveName, ReadPin,
       WritePin, Limit, LimitElsewhere, Audit, RedisFails, Leave, Forget

LEMMA LimiterInvHolds == GatewaySpec => []LimiterInv
<1>1. GatewayInit => LimiterInv
  BY LimiterInvInit DEF GatewayInit
<1>2. LimiterInv /\ AddressInv /\ [GatewayNext]_gatewayVars => LimiterInv'
  BY LimiterInvStep, GatewayStepsTheLimiter
<1>3. QED
  BY <1>1, <1>2, AddressInvHolds, PTL DEF GatewaySpec

\* However many requests are validated at once, a counter that does not expire is one whose
\* only creator is about to set its expiry, or was lost before it could (redis.py:85-87).
THEOREM ExpiryIsExplained == GatewaySpec => []CounterWithoutExpiryExplained
BY LimiterInvHolds, LimiterInvExplains, PTL

-----------------------------------------------------------------------------
(* How many requests are allowed *)

Histories == [1 .. Window -> Nat]

\* One mark for each request of a history, so that their number is a cardinality.
Marks(f) == UNION {{i} \X (1 .. f[i]) : i \in 1 .. Window}

Number(f) == Cardinality(Marks(f))

LEMMA MarkIs ==
    ASSUME NEW f \in Histories
    PROVE  \A p : p \in Marks(f) <=> p \in (1 .. Window) \X Nat /\ p[2] \in 1 .. f[p[1]]
<1>1. \A i \in 1 .. Window : f[i] \in Nat
  BY DEF Histories
<1> QED
  BY <1>1 DEF Marks

LEMMA MarksFinite ==
    ASSUME NEW f \in Histories
    PROVE  IsFiniteSet(Marks(f)) /\ Number(f) \in Nat
<1> DEFINE rows == {{i} \X (1 .. f[i]) : i \in 1 .. Window}
           row  == [i \in 1 .. Window |-> {i} \X (1 .. f[i])]
<1>1. row \in Surjection(1 .. Window, rows)
  BY DEF Surjection
<1>2. IsFiniteSet(1 .. Window)
  BY LimiterAssumption, FS_Interval
<1>3. IsFiniteSet(rows)
  BY <1>1, <1>2, FS_Surjection
<1>4. ASSUME NEW i \in 1 .. Window
      PROVE  IsFiniteSet({i} \X (1 .. f[i]))
  <2>1. f[i] \in Int
    BY DEF Histories
  <2>2. IsFiniteSet({i})
    BY FS_Singleton
  <2>3. IsFiniteSet(1 .. f[i])
    BY <2>1, FS_Interval
  <2> QED
    BY <2>2, <2>3, FS_Product
<1>5. \A T \in rows : IsFiniteSet(T)
  BY <1>4
<1> HIDE DEF rows
<1>6. IsFiniteSet(UNION rows)
  BY <1>3, <1>5, FS_UNION
<1> QED
  BY <1>6, FS_CardinalityType DEF Marks, Number, rows

\* One request more, now.
LEMMA OneMore ==
    ASSUME NEW f \in Histories
    PROVE  /\ [f EXCEPT ![1] = @ + 1] \in Histories
           /\ Number([f EXCEPT ![1] = @ + 1]) = Number(f) + 1
<1> DEFINE g == [f EXCEPT ![1] = @ + 1]
           m == <<1, f[1] + 1>>
<1>1. 1 \in 1 .. Window /\ f[1] \in Nat
  BY LimiterAssumption DEF Histories
<1>2. g \in Histories /\ g[1] = f[1] + 1 /\ \A i \in 1 .. Window : i # 1 => g[i] = f[i]
  BY <1>1 DEF Histories
<1>3. m \in (1 .. Window) \X Nat /\ m[1] = 1 /\ m[2] = f[1] + 1
  BY <1>1
<1> HIDE DEF g, m
<1>4. m \notin Marks(f)
  BY <1>1, <1>3, MarkIs
<1>5. ASSUME NEW p PROVE p \in Marks(g) <=> p \in Marks(f) \/ p = m
  <2>1. CASE p \in (1 .. Window) \X Nat /\ p[1] = 1
    <3>1. p = m <=> p[2] = f[1] + 1
      BY <2>1 DEF m
    <3> QED
      BY <1>1, <1>2, <2>1, <3>1, MarkIs
  <2>2. CASE p \in (1 .. Window) \X Nat /\ p[1] # 1
    <3>1. p[1] \in 1 .. Window /\ g[p[1]] = f[p[1]]
      BY <1>2, <2>2
    <3> QED
      BY <1>2, <1>3, <2>2, <3>1, MarkIs
  <2>3. CASE p \notin (1 .. Window) \X Nat
    BY <1>2, <1>3, <2>3, MarkIs
  <2> QED
    BY <2>1, <2>2, <2>3
<1>6. Marks(g) = Marks(f) \cup {m}
  BY <1>5
<1> QED
  BY <1>2, <1>4, <1>6, MarksFinite, FS_AddElement DEF Number, g

\* Time passes; what was allowed Window ticks ago is forgotten.
Later(f) == [i \in 1 .. Window |-> IF i = 1 THEN 0 ELSE f[i - 1]]

LEMMA LaterIsNoMore ==
    ASSUME NEW f \in Histories
    PROVE  /\ Later(f) \in Histories /\ Number(Later(f)) <= Number(f)
           /\ f[Window] > 0 => Number(Later(f)) < Number(f)
<1>1. /\ Later(f) \in Histories /\ Later(f)[1] = 0
      /\ \A i \in 1 .. Window : i # 1 => i - 1 \in 1 .. Window /\ Later(f)[i] = f[i - 1]
  BY LimiterAssumption DEF Later, Histories
<1> DEFINE back == [p \in Marks(Later(f)) |-> <<p[1] - 1, p[2]>>]
<1>2. ASSUME NEW p \in Marks(Later(f))
      PROVE  <<p[1] - 1, p[2]>> \in Marks(f)
  <2>1. p \in (1 .. Window) \X Nat /\ p[2] \in 1 .. Later(f)[p[1]]
    BY <1>1, MarkIs
  <2>2. p[1] \in 1 .. Window /\ p[1] # 1
    BY <1>1, <2>1
  <2>3. p[1] - 1 \in 1 .. Window /\ p[2] \in 1 .. f[p[1] - 1] /\ p[2] \in Nat
    BY <1>1, <2>1, <2>2
  <2> QED
    BY <2>3, MarkIs
<1>3. ASSUME NEW p \in Marks(Later(f)), NEW q \in Marks(Later(f)), back[p] = back[q]
      PROVE  p = q
  <2>1. p \in (1 .. Window) \X Nat /\ q \in (1 .. Window) \X Nat
    BY <1>1, MarkIs
  <2>2. p[1] - 1 = q[1] - 1 /\ p[2] = q[2]
    BY <1>3
  <2>3. p[1] = q[1]
    BY <2>1, <2>2
  <2> QED
    BY <2>1, <2>2, <2>3
<1>4. back \in Injection(Marks(Later(f)), Marks(f))
  BY <1>2, <1>3 DEF Injection, IsInjective
<1>5. Number(Later(f)) <= Number(f)
  BY <1>1, <1>4, MarksFinite, FS_Injection DEF Number
<1>6. ASSUME f[Window] > 0
      PROVE  Number(Later(f)) < Number(f)
  <2> DEFINE first == <<Window, 1>>
             rest  == Marks(f) \ {first}
  <2>1. Window \in 1 .. Window /\ f[Window] \in Nat
    BY LimiterAssumption DEF Histories
  <2>2. first \in Marks(f)
    <3>1. first \in (1 .. Window) \X Nat /\ first[2] \in 1 .. f[first[1]]
      BY <1>6, <2>1
    <3> QED
      BY <3>1, MarkIs
  <2>3. ASSUME NEW p \in Marks(Later(f))
        PROVE  back[p] # first
    <3>1. p \in (1 .. Window) \X Nat
      BY <1>1, MarkIs
    <3>2. p[1] \in 1 .. Window /\ back[p] = <<p[1] - 1, p[2]>>
      BY <3>1
    <3> QED
      BY <3>2, LimiterAssumption
  <2>4. back \in Injection(Marks(Later(f)), rest)
    BY <1>2, <1>3, <2>3 DEF Injection, IsInjective
  <2>5. IsFiniteSet(rest) /\ Cardinality(rest) = Number(f) - 1
    BY <2>2, MarksFinite, FS_RemoveElement DEF Number
  <2>6. Number(Later(f)) <= Cardinality(rest)
    BY <2>4, <2>5, FS_Injection DEF Number
  <2> QED
    BY <1>1, <2>5, <2>6, MarksFinite
<1> QED
  BY <1>1, <1>5, <1>6

\* The requests of two histories together.
LEMMA SumOfHistories ==
    ASSUME NEW f \in Histories, NEW a \in Histories, NEW b \in Histories,
           \A i \in 1 .. Window : f[i] = a[i] + b[i]
    PROVE  Number(f) <= Number(a) + Number(b)
<1> DEFINE rest == Marks(f) \ Marks(a)
           move == [p \in rest |-> <<p[1], p[2] - a[p[1]]>>]
<1>1. ASSUME NEW p \in rest
      PROVE  p \in (1 .. Window) \X Nat /\ p[2] - a[p[1]] \in 1 .. b[p[1]]
  <2>1. p \in (1 .. Window) \X Nat /\ p[2] \in 1 .. f[p[1]] /\ p[2] \notin 1 .. a[p[1]]
    BY MarkIs
  <2>2. p[1] \in 1 .. Window /\ a[p[1]] \in Nat /\ b[p[1]] \in Nat /\ f[p[1]] = a[p[1]] + b[p[1]]
    BY <2>1 DEF Histories
  <2> QED
    BY <2>1, <2>2
<1>2. ASSUME NEW p \in rest
      PROVE  move[p] \in Marks(b)
  <2>1. <<p[1], p[2] - a[p[1]]>> \in (1 .. Window) \X Nat
    BY <1>1
  <2> QED
    BY <1>1, <2>1, MarkIs
<1>3. ASSUME NEW p \in rest, NEW q \in rest, move[p] = move[q]
      PROVE  p = q
  <2>1. p \in (1 .. Window) \X Nat /\ q \in (1 .. Window) \X Nat
    BY <1>1
  <2>2. p[1] = q[1] /\ p[2] - a[p[1]] = q[2] - a[p[1]] /\ a[p[1]] \in Nat
    BY <1>3, <2>1 DEF Histories
  <2>3. p[2] = q[2]
    BY <2>1, <2>2
  <2> QED
    BY <2>1, <2>2, <2>3
<1>4. move \in Injection(rest, Marks(b))
  BY <1>2, <1>3 DEF Injection, IsInjective
<1>5. IsFiniteSet(rest) /\ Cardinality(rest) <= Number(b)
  BY <1>4, MarksFinite, FS_Injection DEF Number
<1>6. Marks(f) \subseteq Marks(a) \cup rest
  OBVIOUS
<1> HIDE DEF rest
<1>7. /\ IsFiniteSet(Marks(a) \cup rest)
      /\ Cardinality(Marks(a) \cup rest) <= Cardinality(Marks(a)) + Cardinality(rest)
  <2>1. IsFiniteSet(Marks(a)) /\ IsFiniteSet(Marks(a) \cap rest)
    BY MarksFinite, FS_Intersection
  <2>2. /\ Cardinality(Marks(a)) \in Nat /\ Cardinality(rest) \in Nat
        /\ Cardinality(Marks(a) \cap rest) \in Nat
    BY <1>5, <2>1, FS_CardinalityType
  <2> QED
    BY <1>5, <2>1, <2>2, FS_Union
<1> QED
  BY <1>5, <1>6, <1>7, MarksFinite, FS_Subset, FS_CardinalityType DEF Number

\* What BurstBounded rests on.  The requests of the last Window ticks are those the present
\* counter has let through and those of counters before it.  The earlier ones were all allowed
\* before the present one's expiry was set, so when that has run out none of them is recent any
\* more, whatever time went by between INCR and EXPIRE.  The request that set the expiry has by
\* then left the window as well, so that the present requests become earlier ones only when they
\* are fewer than MaxRequests.  A caller between the two commands is counted, but not yet among
\* the allowed.
Pending == IF \E c \in Calls : call[c] = "expire" THEN 1 ELSE 0

Split(old, current) ==
    /\ old \in Histories /\ current \in Histories
    /\ \A i \in 1 .. Window : recent[i] = old[i] + current[i]
    /\ Number(old) < MaxRequests
    /\ Number(current) + Pending <= count
    /\ Number(current) + Pending <= MaxRequests
    /\ ttl > 0 => \A i \in 1 .. Window - ttl : old[i] = 0
    /\ ttl > 0 => current[Window - ttl + 1] > 0

BurstInv ==
    /\ LimiterTypeOK
    /\ ttl > 0 => count > 0
    /\ \A c \in Calls : call[c] = "expire" => ttl = 0
    /\ \A c, d \in Calls : call[c] = "expire" /\ call[d] = "expire" => c = d
    /\ \E old, current \in Histories : Split(old, current)

Nobody == [i \in 1 .. Window |-> 0]

LEMMA NobodyIsNone == Nobody \in Histories /\ Number(Nobody) = 0
<1>1. Nobody \in Histories
  BY DEF Nobody, Histories
<1>2. Marks(Nobody) = {}
  <2> SUFFICES ASSUME NEW p \in Marks(Nobody)
               PROVE  FALSE
    OBVIOUS
  <2>1. p[1] \in 1 .. Window /\ p[2] \in 1 .. Nobody[p[1]]
    BY <1>1, MarkIs
  <2> QED
    BY <2>1 DEF Nobody
<1> QED
  BY <1>1, <1>2, FS_EmptySet DEF Number

LEMMA BurstInvInit == LimiterInit => BurstInv
<1> SUFFICES ASSUME LimiterInit
             PROVE  BurstInv
  OBVIOUS
<1>1. Split(Nobody, Nobody)
  BY LimiterAssumption, NobodyIsNone DEF Split, LimiterInit, Pending, Nobody
<1>2. LimiterTypeOK
  BY LimiterInvInit DEF LimiterInv
<1> QED
  BY <1>1, <1>2, NobodyIsNone DEF BurstInv, LimiterInit

\* A request of the present counter is allowed.
LEMMA AllowSplit ==
    ASSUME LimiterTypeOK, NEW c \in Calls, Allow(c),
           NEW old \in Histories, NEW current \in Histories,
           \A i \in 1 .. Window : recent[i] = old[i] + current[i]
    PROVE  \E next \in Histories :
              /\ \A i \in 1 .. Window : recent'[i] = old[i] + next[i]
              /\ Number(next) = Number(current) + 1
              /\ \A i \in 1 .. Window : next[i] >= current[i]
              /\ next[1] > 0
<1> DEFINE next == [current EXCEPT ![1] = @ + 1]
<1>1. next \in Histories /\ Number(next) = Number(current) + 1
  BY OneMore
<1>2. (\A i \in 1 .. Window : next[i] >= current[i]) /\ next[1] > 0
  BY LimiterAssumption DEF Histories
<1>3. ASSUME NEW i \in 1 .. Window
      PROVE  recent'[i] = old[i] + next[i]
  <2>1. /\ recent \in [1 .. Window -> Nat] /\ recent' = [recent EXCEPT ![1] = @ + 1]
        /\ old[i] \in Nat /\ current[i] \in Nat /\ 1 \in 1 .. Window
    <3> HIDE DEF next
    <3>1. recent \in [1 .. Window -> Nat] /\ recent' = [recent EXCEPT ![1] = @ + 1]
      BY DEF LimiterTypeOK, Allow
    <3>2. old[i] \in Nat /\ current[i] \in Nat
      BY DEF Histories
    <3>3. 1 \in 1 .. Window
      BY LimiterAssumption
    <3> QED
      BY <3>1, <3>2, <3>3
  <2>2. next[i] = IF i = 1 THEN current[1] + 1 ELSE current[i]
    BY DEF Histories
  <2>3. recent'[i] = IF i = 1 THEN recent[1] + 1 ELSE recent[i]
    BY <2>1
  <2> QED
    BY <2>1, <2>2, <2>3
<1> QED
  BY <1>1, <1>2, <1>3

\* One case for each action of the limiter.
LEMMA BurstInvStep == BurstInv /\ LimiterInv' /\ [LimiterNext]_limiterVars => BurstInv'
<1> SUFFICES ASSUME BurstInv, LimiterInv', [LimiterNext]_limiterVars
             PROVE  BurstInv'
  OBVIOUS
<1>1. PICK old \in Histories, current \in Histories : Split(old, current)
  BY DEF BurstInv
<1>2. LimiterTypeOK /\ LimiterTypeOK'
  BY DEF BurstInv, LimiterInv
<1>3. /\ Number(old) \in Nat /\ Number(current) \in Nat
      /\ count \in Nat /\ ttl \in 0 .. Window /\ MaxRequests \in Nat \ {0}
      /\ Window \in Nat \ {0} /\ MaxCount \in Nat /\ MaxCount > MaxRequests
  BY <1>2, MarksFinite, LimiterAssumption DEF LimiterTypeOK
<1>4. ASSUME NEW c \in Calls, NEW limit \in 1 .. MaxRequests, Incr(c, limit)
      PROVE  BurstInv'
  <2>1. call[c] = "idle" /\ ttl' = ttl /\ count' = Counted
    BY <1>4 DEF Incr
  <2>2. CASE count = 0 /\ call' = [call EXCEPT ![c] = "expire"] /\ UNCHANGED recent
    <3>1. Number(current) = 0 /\ Pending = 0
      BY <1>1, <1>3, <2>2 DEF Split, Pending
    <3>2. count' = 1 /\ Pending' = 1
      <4>1. count' = 1
        BY <1>3, <2>1, <2>2 DEF Counted
      <4>2. call'[c] = "expire"
        BY <1>2, <2>2 DEF LimiterTypeOK
      <4> QED
        BY <4>1, <4>2 DEF Pending
    <3>3. ttl = 0 /\ ttl' = 0
      BY <1>3, <2>1, <2>2 DEF BurstInv
    <3>4. Number(current) + Pending' <= count' /\ Number(current) + Pending' <= MaxRequests
      BY <1>3, <3>1, <3>2
    <3>5. recent' = recent
      BY <2>2
    <3>6. Split(old, current)'
      BY <1>1, <3>3, <3>4, <3>5 DEF Split
    <3>7. \A d \in Calls : call[d] # "expire"
      BY <3>1 DEF Pending
    <3> QED
      BY <1>2, <2>1, <2>2, <3>2, <3>3, <3>6, <3>7 DEF BurstInv, LimiterTypeOK
  <2>3. CASE count \in 1 .. limit - 1 /\ Allow(c)
    <3>1. PICK next \in Histories :
             /\ \A i \in 1 .. Window : recent'[i] = old[i] + next[i]
             /\ Number(next) = Number(current) + 1
             /\ \A i \in 1 .. Window : next[i] >= current[i]
      BY <1>1, <1>2, <2>3, AllowSplit DEF Split
    <3>2. \A d \in Calls : call'[d] = "expire" <=> call[d] = "expire"
      BY <1>2, <2>1, <2>3 DEF Allow, LimiterTypeOK
    <3>3. Pending' = Pending /\ Pending \in {0, 1}
      BY <3>2 DEF Pending
    <3>4. count' = count + 1 /\ count + 1 <= MaxRequests
      BY <1>3, <2>1, <2>3 DEF Counted
    <3>5. ttl' > 0 => next[Window - ttl' + 1] > 0
      <4>1. ttl > 0 => Window - ttl + 1 \in 1 .. Window
        BY <1>3
      <4>2. \A i \in 1 .. Window : next[i] \in Nat /\ current[i] \in Nat
        BY DEF Histories
      <4> QED
        BY <1>1, <2>1, <3>1, <4>1, <4>2 DEF Split
    <3>6. Split(old, next)'
      BY <1>1, <1>3, <2>1, <3>1, <3>3, <3>4, <3>5 DEF Split
    <3> QED
      BY <1>2, <1>3, <2>1, <3>2, <3>4, <3>6 DEF BurstInv
  <2>4. CASE count >= limit /\ call' = [call EXCEPT ![c] = "denied"] /\ UNCHANGED recent
    <3>1. \A d \in Calls : call'[d] = "expire" <=> call[d] = "expire"
      BY <1>2, <2>1, <2>4 DEF LimiterTypeOK
    <3>2. Pending' = Pending /\ Pending \in {0, 1}
      BY <3>1 DEF Pending
    <3>3. count' >= count /\ count' \in Nat
      BY <1>3, <2>1 DEF Counted
    <3>4. Split(old, current)'
      BY <1>1, <1>3, <2>1, <2>4, <3>2, <3>3 DEF Split
    <3> QED
      BY <1>2, <1>3, <2>1, <3>1, <3>3, <3>4 DEF BurstInv
  <2> QED
    BY <1>4, <2>2, <2>3, <2>4 DEF Incr
<1>5. ASSUME NEW c \in Calls, Expire(c)
      PROVE  BurstInv'
  <2>1. call[c] = "expire" /\ ttl' = Window /\ count' = count /\ Allow(c)
    BY <1>5 DEF Expire
  <2>2. PICK next \in Histories :
           /\ \A i \in 1 .. Window : recent'[i] = old[i] + next[i]
           /\ Number(next) = Number(current) + 1
           /\ next[1] > 0
    BY <1>1, <1>2, <2>1, AllowSplit DEF Split
  <2>3. \A d \in Calls : call'[d] # "expire"
    BY <1>2, <2>1 DEF Allow, BurstInv, LimiterTypeOK
  <2>4. Pending = 1 /\ Pending' = 0
    BY <2>1, <2>3 DEF Pending
  <2>5. Split(old, next)'
    BY <1>1, <1>3, <2>1, <2>2, <2>4 DEF Split
  <2>6. count' > 0
    BY <1>1, <1>3, <2>1, <2>4 DEF Split
  <2> QED
    BY <1>2, <2>3, <2>5, <2>6 DEF BurstInv
<1>6. ASSUME NEW c \in Calls, Crash(c) \/ Return(c)
      PROVE  BurstInv'
  <2>1. /\ UNCHANGED <<count, ttl, recent>>
        /\ call' = [call EXCEPT ![c] = "idle"]
    BY <1>6 DEF Crash, Return
  <2>2. \A d \in Calls : call'[d] = "expire" => call[d] = "expire"
    BY <1>2, <2>1 DEF LimiterTypeOK
  <2>3. Pending' <= Pending /\ Pending' \in {0, 1} /\ Pending \in {0, 1}
    BY <2>2 DEF Pending
  <2>4. Split(old, current)'
    BY <1>1, <1>3, <2>1, <2>3 DEF Split
  <2> QED
    BY <1>2, <2>1, <2>2, <2>4 DEF BurstInv
<1>7. ASSUME Tick
      PROVE  BurstInv'
  <2>1. /\ Later(old) \in Histories /\ Number(Later(old)) <= Number(old)
        /\ Later(current) \in Histories /\ Number(Later(current)) <= Number(current)
        /\ current[Window] > 0 => Number(Later(current)) < Number(current)
        /\ Number(Later(old)) \in Nat /\ Number(Later(current)) \in Nat
    BY LaterIsNoMore, MarksFinite
  <2>2. \A i \in 1 .. Window : recent'[i] = Later(old)[i] + Later(current)[i]
    BY <1>1, <1>3, <1>7 DEF Split, Tick, Later, Histories
  <2>3. call' = call /\ Pending' = Pending /\ Pending \in {0, 1}
    BY <1>7 DEF Tick, Pending
  <2>4. CASE ttl = 1
    <3>1. ttl' = 0 /\ count' = 0 /\ Pending = 0
      BY <1>7, <2>4 DEF Tick, BurstInv, Pending
    <3>2. \A i \in 1 .. Window : Later(old)[i] = 0
      BY <1>1, <1>3, <2>4 DEF Split, Later
    <3>3. \A i \in 1 .. Window : recent'[i] = Later(current)[i] + Nobody[i]
      <4>1. Later(current) \in Histories
        BY <2>1
      <4>2. \A i \in 1 .. Window : Later(current)[i] \in Nat
        BY <4>1 DEF Histories
      <4> QED
        BY <2>2, <3>2, <4>2 DEF Nobody
    <3>4. Number(Later(current)) < MaxRequests
      <4>1. current[Window] > 0
        BY <1>1, <1>3, <2>4 DEF Split
      <4> QED
        BY <1>1, <1>3, <2>1, <3>1, <4>1 DEF Split
    <3>5. Split(Later(current), Nobody)'
      BY <1>1, <1>3, <2>1, <2>3, <3>1, <3>3, <3>4, NobodyIsNone DEF Split
    <3> QED
      BY <1>2, <2>1, <2>3, <3>1, <3>5, NobodyIsNone DEF BurstInv
  <2>5. CASE ttl # 1
    <3>1. count' = count /\ ttl' = IF ttl > 0 THEN ttl - 1 ELSE 0
      BY <1>7, <2>5 DEF Tick
    <3>2. ttl' > 0 => \A i \in 1 .. Window - ttl' : Later(old)[i] = 0
      BY <1>1, <1>3, <3>1 DEF Split, Later
    <3>3. ttl' > 0 => Later(current)[Window - ttl' + 1] > 0
      BY <1>1, <1>3, <3>1 DEF Split, Later
    <3>4. Split(Later(old), Later(current))'
      BY <1>1, <1>3, <2>1, <2>2, <2>3, <3>1, <3>2, <3>3 DEF Split
    <3> QED
      BY <1>2, <1>3, <2>1, <2>3, <3>1, <3>4 DEF BurstInv
  <2> QED
    BY <2>4, <2>5
<1>8. CASE UNCHANGED limiterVars
  BY <1>8 DEF limiterVars, BurstInv, LimiterTypeOK, Split, Pending
<1> QED
  BY <1>4, <1>5, <1>6, <1>7, <1>8 DEF LimiterNext

LEMMA BurstInvBounds == BurstInv => BurstBounded
<1> SUFFICES ASSUME BurstInv
             PROVE  BurstBounded
  OBVIOUS
<1>1. PICK old \in Histories, current \in Histories : Split(old, current)
  BY DEF BurstInv
<1>2. recent \in Histories
  BY DEF BurstInv, LimiterTypeOK, Histories
<1>3. Number(recent) <= Number(old) + Number(current)
  BY <1>1, <1>2, SumOfHistories DEF Split
<1>4. Number(old) \in Nat /\ Number(current) \in Nat /\ Number(recent) \in Nat
  BY <1>2, MarksFinite
<1>5. Number(old) < MaxRequests /\ Number(current) <= MaxRequests
  BY <1>1, <1>4, LimiterAssumption DEF Split, Pending
<1>6. AllowedLately = Number(recent)
  BY DEF AllowedLately, Number, Marks
<1> QED
  BY <1>3, <1>4, <1>5, <1>6, LimiterAssumption DEF BurstBounded

\* Any window_seconds of time see fewer than twice max_requests requests allowed, for any number
\* of callers, any order of their commands and any delay between them (redis.py:92-112), and
\* however update_scope changes the limit up to MaxRequests.
THEOREM BurstsAreBounded == GatewaySpec => []BurstBounded
<1>1. GatewayInit => BurstInv
  BY BurstInvInit DEF GatewayInit
<1>2. BurstInv /\ LimiterInv' /\ AddressInv /\ [GatewayNext]_gatewayVars => BurstInv'
  BY BurstInvStep, GatewayStepsTheLimiter
<1> QED
  BY <1>1, <1>2, LimiterInvHolds, AddressInvHolds, BurstInvBounds, PTL DEF GatewaySpec

-----------------------------------------------------------------------------
(* The types *)

\* Every variable has its type: in particular each decision is one of the five, and what
\* validate_request keeps of a request across its awaits fits the check it has reached.
THEOREM GatewayTypeCorrect == GatewaySpec => []GatewayTypeOK
<1>1. LimiterInv /\ AddressInv => GatewayTypeOK
  BY DEF LimiterInv, AddressInv, GatewayTypeOK
<1>2. QED
  BY <1>1, LimiterInvHolds, AddressInvHolds, PTL

\* Whatever requests of other scopes, with other lists, cache, pin and let expire between a
\* request's reads and writes, it is allowed to no address but one that its own lists accept, and
\* no host is pinned to an address that nobody's lists accept (scope_gateway.py:282, 354).
THEOREM AddressesAreAccepted == GatewaySpec => []AddressesAccepted
<1>1. AddressInv => AddressesAccepted
  BY DEF AddressInv
<1>2. QED
  BY <1>1, AddressInvHolds, PTL

\* Rebinding is reported for a private address of the request's own allowlist only.
THEOREM RebindingIsAllowlisted == GatewaySpec => []RebindingMeansAllowlisted
<1>1. AddressInv => RebindingMeansAllowlisted
  BY DEF AddressInv
<1>2. QED
  BY <1>1, AddressInvHolds, PTL
=============================================================================
