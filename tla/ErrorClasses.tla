----------------------------- MODULE ErrorClasses -----------------------------
(***************************************************************************)
(* pkg/errors: how an error is wrapped, turned into a gRPC status at the   *)
(* border of a service, and seen by the caller, which may wrap it and pass *)
(* it on in turn.                                                          *)
(*                                                                         *)
(* An error is the chain of its layers, the outermost first.  A layer is   *)
(* a sentinel, an AppError with its Kind, a gRPC status with its code, a   *)
(* deadline of a context, or text: that of fmt.Errorf, or any other error. *)
(***************************************************************************)
EXTENDS Naturals, Sequences

CONSTANT MaxLayers  \* bound on the length of a chain

VARIABLES err,    \* the error as it is now
          class,  \* the code of what it arose as
          hidden  \* whether something on its way hid its class

errorVars == <<err, class, hidden>>

\* registry: Kind to gRPC code and whether the call may be repeated.
Entry(code, retryable) == [code |-> code, retryable |-> retryable]
Registry ==
    [not_found           |-> Entry("NotFound", FALSE),
     already_exists      |-> Entry("AlreadyExists", FALSE),
     invalid_argument    |-> Entry("InvalidArgument", FALSE),
     invalid_credentials |-> Entry("Unauthenticated", FALSE),
     permission_denied   |-> Entry("PermissionDenied", FALSE),
     conflict            |-> Entry("FailedPrecondition", FALSE),
     insufficient_stock  |-> Entry("FailedPrecondition", FALSE),
     failed_precondition |-> Entry("FailedPrecondition", FALSE),
     unauthenticated     |-> Entry("Unauthenticated", FALSE),
     unavailable         |-> Entry("Unavailable", TRUE),
     deadline_exceeded   |-> Entry("DeadlineExceeded", TRUE),
     internal            |-> Entry("Internal", FALSE)]

Kinds == DOMAIN Registry

\* The sentinels are named like their kinds.
Sentinels == Kinds \ {"internal"}

ParseKind(s) == IF s \in Kinds THEN s ELSE "internal"

Layer(is, name) == [is |-> is, name |-> name]

\* errors.Is finds a sentinel anywhere in the chain.  AppError unwraps.
SentinelsIn(chain) == {chain[i].name : i \in {j \in DOMAIN chain : chain[j].is = "sentinel"}}

StatusesIn(chain) == {chain[i].name : i \in {j \in DOMAIN chain : chain[j].is = "status"}}

\* ToStatus sees an AppError on the outside or a sentinel within, nothing else:
\* neither a status nor a deadline of a context.
Recognised(chain) == Head(chain).is = "app" \/ SentinelsIn(chain) # {}

\* Mutant: what is not recognised may be repeated.
ToStatusUnavailable(chain) ==
    IF Head(chain).is = "app" THEN Registry[ParseKind(Head(chain).name)].code
    ELSE IF SentinelsIn(chain) # {} THEN Registry[CHOOSE s \in SentinelsIn(chain) : TRUE].code
    ELSE "Unavailable"

\* An AppError decides by its Kind, else the sentinel within; a chain has one at most.
ToStatus(chain) ==
    IF Head(chain).is = "app" THEN Registry[ParseKind(Head(chain).name)].code
    ELSE IF SentinelsIn(chain) # {} THEN Registry[CHOOSE s \in SentinelsIn(chain) : TRUE].code
    ELSE "Internal"

\* What grpc makes of an error that a handler returns as it is.
RawStatus(chain) ==
    IF StatusesIn(chain) # {} THEN CHOOSE c \in StatusesIn(chain) : TRUE
    ELSE IF \E i \in DOMAIN chain : chain[i].is = "context" THEN "DeadlineExceeded"
    ELSE "Unknown"

Retryable(code) == \E k \in Kinds : Registry[k].code = code /\ Registry[k].retryable

\* Two codes stand for several kinds, of which the most general is taken, and
\* a code that is no kind's is Internal.
kindFromGRPC(code) ==
    IF code \in {"Unauthenticated", "FailedPrecondition"}
    THEN IF code = "Unauthenticated" THEN "unauthenticated" ELSE "failed_precondition"
    ELSE IF \E k \in Kinds : Registry[k].code = code THEN CHOOSE k \in Kinds : Registry[k].code = code
    ELSE "internal"

\* A sentinel, an AppError made by E, a deadline, or an error of a library.
ErrorsInit ==
    /\ err \in {<<Layer("sentinel", s)>> : s \in Sentinels} \cup {<<Layer("app", k)>> : k \in Kinds}
               \cup {<<Layer("context", "deadline")>>, <<Layer("text", "")>>}
    /\ class = IF err[1].is = "context" THEN "DeadlineExceeded" ELSE ToStatus(err)
    /\ hidden = FALSE

\* fmt.Errorf("...: %w", err) hides the Kind of an AppError without a sentinel.
\* It hides nothing else by itself: order-service wraps so what its clients return.
Errorf ==
    /\ Len(err) < MaxLayers
    /\ err' = <<Layer("text", "")>> \o err
    /\ hidden' = (hidden \/ (Head(err).is = "app" /\ SentinelsIn(err) = {}))
    /\ UNCHANGED class

\* The sentinels that services wrap and the codes they give to Wrap.
WrapCalls ==
    {<<"invalid_credentials", "unauthenticated">>, <<"permission_denied", "permission_denied">>,
     <<"invalid_argument", "invalid_argument">>, <<"failed_precondition", "failed_precondition">>,
     <<"invalid_argument", "invalid_quantity">>}

\* Wrap looks its code up among the kinds; what is none becomes internal.
Wrap ==
    \E call \in WrapCalls :
        /\ err = <<Layer("sentinel", call[1])>>
        /\ err' = <<Layer("app", ParseKind(call[2]))>> \o err
        /\ hidden' = (call[2] \notin Kinds)
        /\ UNCHANGED class

\* How handlers answer: the sentinels they look for, and what they do with the rest.
Answering(known, rest) == [known |-> known, rest |-> rest]
Handlings ==
    {Answering({}, "ToStatus"), Answering({"invalid_argument"}, "ToStatus"),
     Answering({}, "raw"), Answering({"already_exists"}, "raw"),
     Answering({}, "Internal"), Answering({"not_found"}, "Internal"),
     Answering({"invalid_argument", "failed_precondition"}, "Internal")}

\* The handler answers; the caller holds a status error.
Crosses ==
    \E h \in Handlings :
        LET found == h.known \cap SentinelsIn(err)
            code  == IF found # {} THEN Registry[CHOOSE s \in found : TRUE].code
                     ELSE CASE h.rest = "ToStatus" -> ToStatus(err)
                            [] h.rest = "raw"      -> RawStatus(err)
                            [] h.rest = "Internal" -> "Internal"
        IN  /\ err' = <<Layer("status", code)>>
            /\ hidden' = (hidden \/ (found = {} /\ CASE h.rest = "ToStatus" -> ~Recognised(err)
                                                     [] h.rest = "raw"      -> RawStatus(err) = "Unknown"
                                                     [] h.rest = "Internal" -> TRUE))
            /\ UNCHANGED class

\* A caller that converts the status (FromStatus); FromError finds it in a chain too.
FromStatus ==
    /\ \E code \in StatusesIn(err) : err' = <<Layer("app", kindFromGRPC(code))>>
    /\ UNCHANGED <<class, hidden>>

ErrorsNext == Errorf \/ Wrap \/ Crosses \/ FromStatus

ErrorsSpec == ErrorsInit /\ [][ErrorsNext]_errorVars

-----------------------------------------------------------------------------
\* Over any number of services an error never turns into one of another class.
\* A caller receives the code of what the error arose as, and with it whether the
\* call may be repeated, unless a layer hid it: text around an AppError, a code
\* that Wrap does not know, or a handler that answers Internal, returns what is
\* no status, or gives ToStatus what it does not recognise.  Then it is Internal
\* or Unknown, which nobody repeats.
HopKeepsClass ==
    Head(err).is = "status" =>
        LET code == Head(err).name IN
        /\ code = class \/ (hidden /\ code \in {"Internal", "Unknown"})
        /\ Retryable(code) => Retryable(class)
=============================================================================
