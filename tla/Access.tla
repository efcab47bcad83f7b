-------------------------------- MODULE Access --------------------------------
(***************************************************************************)
(* Who may call what: the tokens of pkg/auth, the interceptor and the role *)
(* check of pkg/middleware.  A token is the record of its claims; of its   *)
(* times only whether they admit it now is kept.                           *)
(***************************************************************************)

Token(sub, role, live) ==
    [sub |-> sub, iss |-> "go-ozon-marketplace", aud |-> {"api-gateway"}, jti |-> TRUE,
     role |-> role, live |-> live]

\* No authorization header, or one that is not a token of this system.
NoToken == [Token("", "", FALSE) EXCEPT !.jti = FALSE]

\* ServiceTokenIssuer.Issue, as NewFactory sets it up.
ServiceToken(service) == Token(service, "service", TRUE)

\* parseJWT.
Accepted(t) ==
    /\ t.live /\ t.sub # "" /\ t.jti
    /\ t.iss = "go-ozon-marketplace" /\ "api-gateway" \in t.aud

Nobody == [id |-> "", role |-> ""]

\* JWTVerifier.Verify: a token without a role is a user's.
Verify(t) ==
    IF Accepted(t) THEN [id |-> t.sub, role |-> IF t.role = "" THEN "user" ELSE t.role]
    ELSE Nobody

PublicEndpoints ==
    {"Register", "Login", "HealthCheck", "GetProduct", "ListProducts", "SearchProducts"}

\* AuthUnaryInterceptor: whether the handler runs, and whom it sees.
Admitted(method, t) == method \in PublicEndpoints \/ Accepted(t)

Caller(method, t) == IF method \in PublicEndpoints THEN Nobody ELSE Verify(t)

\* GetRole finds no role where the interceptor set no identity.
RequireRole(who, allowed) == who # Nobody /\ who.role \in allowed
=============================================================================
