-------------------------------- MODULE Users --------------------------------
(***************************************************************************)
(* user-service: Register, Login and GetUser on replicas that share the    *)
(* users table and count calls each in its own memory.                     *)
(*                                                                         *)
(* Allow reads the clock before it takes the limiter's mutex, so a call    *)
(* carries a time that may be old when it is counted.                      *)
(***************************************************************************)
EXTENDS Naturals, Sequences, FiniteSets, Access

CONSTANTS UserCalls, UserReplicas,
          Mailboxes, Passwords,
          Limit, Window,        \* NewMemoryRateLimiter
          MaxDelay,             \* bound on the wait for the limiter's mutex
          MaxTime, MaxRestarts  \* bounds

ASSUME UsersAssumption ==
    /\ Limit \in Nat \ {0} /\ Window \in Nat \ {0} /\ MaxDelay \in 0..Window - 1
    /\ MaxTime \in Nat /\ MaxRestarts \in Nat

VARIABLES users,     \* rows: id, email, password (a hash only verifyPassword looks at)
          call,      \* each call, with the state it began in
          hits,      \* MemoryRateLimiter.hits of each replica
          passed,    \* history: what the limiters let through, and when
          time, restarts,
          crowd      \* what clients ask for, and until when: any requests at one time,
                     \* or one request again and again

userVars == <<users, call, hits, passed, time, restarts, crowd>>

\* The address as typed: letter case and blanks around it are its spelling.
Addresses == [box : Mailboxes, spelling : {"normal", "other"}]

\* Mutant: the address is taken as typed.
AsTyped(email) == email

normalizeEmail(email) == [email EXCEPT !.spelling = "normal"]

UserRequests ==
    [op : {"register", "login"}, email : Addresses, password : Passwords,
     token : {NoToken}, target : {""}]

NoCall == [pc |-> "idle"]

UsersInit ==
    /\ users = {} /\ call = [c \in UserCalls |-> NoCall]
    /\ hits = [r \in UserReplicas |-> [key \in {} |-> <<>>]]
    /\ passed = {} /\ time = 0 /\ restarts = 0
    /\ \/ crowd = [asks |-> UserRequests, until |-> 0]
       \/ \E op \in {"register", "login"} :
             crowd = [asks |-> {CHOOSE q \in UserRequests : q.op = op}, until |-> MaxTime]

\* The clock reading is of no use after Allow.
CallGoes(c, pc, answer, value) ==
    call' = [call EXCEPT ![c].pc = pc, ![c].now = 0, ![c].answer = answer, ![c].value = value]
CallEnds(c, answer, value) == CallGoes(c, "done", answer, value)

\* The registrations and logins answered by now.
Succeeded(op) == {c \in UserCalls : call[c].pc = "done" /\ call[c].op = op /\ call[c].answer = "ok"}

\* A call begins, and where it is limited reads the clock.  GetUser comes with
\* a token some login answered, or with none.
CallBegins(c, r) ==
    /\ call[c].pc = "idle"
    /\ \E q \in crowd.asks
             \cup [op : {"get"}, email : {[box |-> "", spelling |-> "normal"]}, password : {""},
                   token : {NoToken} \cup {call[l].value : l \in Succeeded("login")},
                   target : {""} \cup {u.id : u \in users}] :
          call' = [call EXCEPT ![c] =
                     [pc |-> IF q.op = "get" THEN "reading" ELSE "arrived",
                      op |-> q.op, email |-> q.email, password |-> q.password,
                      token |-> q.token, target |-> q.target,
                      replica |-> r, now |-> IF q.op = "get" THEN 0 ELSE time, registered |-> Succeeded("register"),
                      answer |-> "none", value |-> NoToken]]
    /\ UNCHANGED <<users, hits, passed, time, restarts, crowd>>

LimitKey(q) == <<q.op, normalizeEmail(q.email)>>

HitsOf(r, key) == IF key \in DOMAIN hits[r] THEN hits[r][key] ELSE <<>>

\* Mutant: one call more than the limit.
RoomForOneMore(recent) == Len(recent) <= Limit

Room(recent) == Len(recent) < Limit

\* MemoryRateLimiter.Allow under the mutex.  The cutoff is now - Window.
Allow(c) ==
    LET q == call[c]
        key == LimitKey(q)
        recent == SelectSeq(HitsOf(q.replica, key), LAMBDA t : t + Window > q.now)
        kept(new) == [hits EXCEPT ![q.replica] =
                        [k \in DOMAIN @ \cup {key} |-> IF k = key THEN new ELSE @[k]]]
    IN  /\ q.pc = "arrived"
        /\ \/ Room(recent) /\ hits' = kept(Append(recent, q.now)) /\ CallGoes(c, "allowed", "none", NoToken)
              /\ passed' = passed \cup {[key |-> key, by |-> c, at |-> time]}
           \/ ~Room(recent) /\ hits' = kept(recent) /\ CallEnds(c, "limited", NoToken)
              /\ UNCHANGED passed
        /\ UNCHANGED <<users, time, restarts, crowd>>

GetByEmail(email) == {u \in users : u.email = email}
GetByID(id)       == {u \in users : u.id = id}

\* UserPostgres.Create: email is unique.  The answer to a done insert may be lost.
InsertUser(c) ==
    LET email == normalizeEmail(call[c].email) IN
    /\ call[c].pc = "allowed" /\ call[c].op = "register"
    /\ IF GetByEmail(email) # {}
       THEN CallEnds(c, "exists", NoToken) /\ UNCHANGED users
       ELSE /\ users' = users \cup {[id |-> c, email |-> email, password |-> call[c].password, role |-> "user"]}
            /\ \/ CallEnds(c, "ok", Token(c, "user", TRUE))
               \/ CallEnds(c, "error", NoToken)
    /\ UNCHANGED <<hits, passed, time, restarts, crowd>>

verifyPassword(user, password) == user.password = password

\* Login after the limiter: GetByEmail, verifyPassword, issueToken.
Login(c) ==
    LET found == GetByEmail(normalizeEmail(call[c].email)) IN
    /\ call[c].pc = "allowed" /\ call[c].op = "login"
    /\ \/ \E u \in found : verifyPassword(u, call[c].password)
                           /\ CallEnds(c, "ok", Token(u.id, u.role, TRUE))
       \/ (\A u \in found : ~verifyPassword(u, call[c].password)) /\ CallEnds(c, "invalid", NoToken)
    /\ UNCHANGED <<users, hits, passed, time, restarts, crowd>>

\* UserHandler.GetUser: any profile for an admin, one's own for others.
GetUser(c) ==
    LET q == call[c]
        who == Caller("GetUser", q.token)
        id == IF q.target = "" THEN who.id ELSE q.target
        found == GetByID(id)
    IN  /\ q.pc = "reading"
        /\ CASE ~Admitted("GetUser", q.token) -> CallEnds(c, "invalid", NoToken)
             [] Admitted("GetUser", q.token) /\ q.target # "" /\ ~RequireRole(who, {"admin"}) ->
                  CallEnds(c, "denied", NoToken)
             [] OTHER -> \/ \E u \in found : CallEnds(c, "ok", u)
                         \/ found = {} /\ CallEnds(c, "not found", NoToken)
        /\ UNCHANGED <<users, hits, passed, time, restarts, crowd>>

\* A query fails or times out before it takes effect.
QueryFails(c) ==
    /\ call[c].pc \in {"allowed", "reading"}
    /\ CallEnds(c, "error", NoToken)
    /\ UNCHANGED <<users, hits, passed, time, restarts, crowd>>

\* The clock does not run ahead of a call that waits for the mutex by more than MaxDelay.
Clock ==
    /\ time < crowd.until
    /\ \A c \in UserCalls : call[c].pc = "arrived" => time < call[c].now + MaxDelay
    /\ time' = time + 1
    /\ UNCHANGED <<users, call, hits, passed, restarts, crowd>>

\* A replica starts with an empty limiter; the calls it was at are lost.
Restart(r) ==
    /\ restarts < MaxRestarts /\ restarts' = restarts + 1
    /\ hits' = [hits EXCEPT ![r] = [key \in {} |-> <<>>]]
    /\ call' = [c \in UserCalls |->
                  IF call[c].pc \in {"idle", "done"} \/ call[c].replica # r THEN call[c]
                  ELSE [call[c] EXCEPT !.pc = "done", !.now = 0, !.answer = "error"]]
    /\ UNCHANGED <<users, passed, time, crowd>>

UsersNext ==
    \/ \E c \in UserCalls :
          \/ \E r \in UserReplicas : CallBegins(c, r)
          \/ Allow(c) \/ InsertUser(c) \/ Login(c) \/ GetUser(c) \/ QueryFails(c)
    \/ Clock
    \/ \E r \in UserReplicas : Restart(r)

UsersSpec == UsersInit /\ [][UsersNext]_userVars

-----------------------------------------------------------------------------
\* Whoever was told that an address is registered gets in with it, however the
\* address is spelled then: Login does not refuse the credentials, its token is
\* for that user, and GetUser answers that user's profile to it.
RegisteredIsReachable ==
    \A c \in UserCalls : call[c].pc = "done" =>
        /\ call[c].op = "login" =>
             \A reg \in {r \in call[c].registered :
                           call[r].email.box = call[c].email.box /\ call[r].password = call[c].password} :
                /\ call[c].answer # "invalid"
                /\ call[c].answer = "ok" => call[c].value.sub = call[reg].value.sub
        /\ call[c].op = "get" /\ call[c].target = "" /\ call[c].token # NoToken =>
             /\ call[c].answer \in {"ok", "error"}
             /\ call[c].answer = "ok" => call[c].value.id = call[c].token.sub

\* The limiters let at most Limit calls for one address through per replica
\* in any time shorter than the window by the wait for the mutex; a restart
\* of a replica grants as many again.
LimitHolds ==
    \A p \in passed :
        Cardinality({q \in passed : /\ q.key = p.key /\ q.at <= p.at
                                    /\ q.at + (Window - MaxDelay) > p.at})
            <= Limit * (Cardinality(UserReplicas) + restarts)
=============================================================================
