---------------------------- MODULE ProviderFallback ----------------------------
(***************************************************************************)
(* How Tokenless decides whether a provider failure may move a job to the  *)
(* next provider of its automatic fallback plan: the failure classifier,   *)
(* the request the runner builds for the next provider, the proof it       *)
(* attaches after a submission, and the store's acceptance of that proof.  *)
(*                                                                         *)
(* A request is the part of request_json these decisions read:             *)
(*   provider    the provider the job currently runs on                    *)
(*   plan        fallback.alternatives (<<>> stands for fallback: null)    *)
(*   trail       routingObservation.attempts                               *)
(*   exclusions  whether routingObservation carries an exclusions key      *)
(* The operators are pure; JobStore and ManagedRunner use them.            *)
(***************************************************************************)
EXTENDS Integers, Sequences

CONSTANT Providers

(***************************************************************************)
(* Failure kinds.  A blocker is what the provider page shows; an error is  *)
(* what navigation, an action or the capacity projection reports.          *)
(* "availability" is the family of region, maintenance and outage notices. *)
(***************************************************************************)
UserBlockers == {"challenge", "auth"}
TerminalBlockers == {"rate_limit", "plan_limit", "credits", "suspended", "availability"}
Blockers == UserBlockers \union TerminalBlockers
Errors == {"capacity", "unreachable", "unavailable", "uncertain_submit",
           "input_too_long", "ambiguous"}
Failures == Blockers \union Errors

\* The reasons no decision tells apart (auth, captcha, unreachable, unavailable) are "other".
Reasons == {"rate_limit", "capacity", "other"}

\* routingFailureReason: the bounded reason an attempt is recorded with.
FailureReason(f) ==
    CASE f = "rate_limit" -> "rate_limit"
      [] f \in {"plan_limit", "credits", "input_too_long", "capacity"} -> "capacity"
      [] OTHER -> "other"

\* Mutant of Eligible: any failure of the submitting action is safe to replay.
EligibleAmbiguous(f, submitted, submitting) ==
    \/ f \in Blockers \union {"capacity"}
    \/ f = "input_too_long" /\ submitted
    \/ ~submitted /\ submitting
    \/ f \in {"unreachable", "unavailable"} /\ ~submitted /\ ~submitting

(***************************************************************************)
(* automaticFallbackEligible, as the two classifiers set it.  A visible    *)
(* blocker is classified without looking at the submission; an error is    *)
(* not eligible after a submission, except an input that was too long.     *)
(* An uncertain prompt submission is eligible on the submitting action     *)
(* itself, and an unreachable or unavailable surface on every other one.   *)
(* "ambiguous" stands for every code that is never eligible.               *)
(***************************************************************************)
Eligible(f, submitted, submitting) ==
    \/ f \in Blockers \union {"capacity"}
    \/ f = "input_too_long" /\ submitted
    \/ f = "uncertain_submit" /\ ~submitted /\ submitting
    \/ f \in {"unreachable", "unavailable"} /\ ~submitted /\ ~submitting

Attempts == [provider : Providers, reason : Reasons, submitted : BOOLEAN]
NoProof == [provider |-> "none", reason |-> "none"]
Proofs == [provider : Providers, reason : {"rate_limit", "capacity"}] \union {NoProof}

\* Mutant of RejectionProof: an answer that was read already does not matter.
RejectionProofAfterAnswer(request, f, submitted, visibleResponse) ==
    IF /\ submitted
       /\ f \in {"rate_limit", "credits", "input_too_long"}
       /\ request.plan # <<>>
    THEN [provider |-> request.provider, reason |-> FailureReason(f)]
    ELSE NoProof

\* providerRejectionFallbackProof: the provider visibly refused what was submitted.
RejectionProof(request, f, submitted, visibleResponse) ==
    IF /\ submitted
       /\ f \in {"rate_limit", "credits", "input_too_long"}
       /\ ~visibleResponse
       /\ request.plan # <<>>
    THEN [provider |-> request.provider, reason |-> FailureReason(f)]
    ELSE NoProof

\* Mutant of NextRequest: the alternative that was taken stays in the plan.
NextRequestKeepingPlan(request, reason, submitted) ==
    [request EXCEPT
        !.provider = Head(request.plan),
        !.trail = Append(request.trail,
            [provider |-> request.provider, reason |-> reason, submitted |-> submitted])]

\* The request safeFallbackRequest builds for the first alternative of the plan.
NextRequest(request, reason, submitted) ==
    [request EXCEPT
        !.provider = Head(request.plan),
        !.plan = Tail(request.plan),
        !.trail = Append(request.trail,
            [provider |-> request.provider, reason |-> reason, submitted |-> submitted])]

\* validateRoutingObservation refuses a visible proof beside the reason "unavailable",
\* and that is how an availability blocker would be recorded.
Recordable(f) == f # "availability"

(***************************************************************************)
(* safeFallbackRequest returns a request (not null, and without throwing). *)
(* Before a submission nothing may have happened that a restart cannot     *)
(* rebuild (pinned); after it the provider must have refused the prompt.   *)
(***************************************************************************)
MayFallBack(request, f, submitted, submitting, visibleResponse, pinned) ==
    /\ request.plan # <<>>
    /\ IF RejectionProof(request, f, submitted, visibleResponse) = NoProof
       THEN Eligible(f, submitted, submitting) /\ ~submitted /\ ~pinned /\ Recordable(f)
       ELSE TRUE

MaxAlternatives == 5

(***************************************************************************)
(* isPostSubmissionFallback: what the store demands before it lets a job   *)
(* that was already submitted restart on another provider.  The next       *)
(* request may carry no routing key besides its attempts.                  *)
(***************************************************************************)
AcceptedAfterSubmission(request, hasResult, next, proof) ==
    /\ proof # NoProof
    /\ proof.provider = request.provider
    /\ ~hasResult
    /\ Len(request.plan) \in 1 .. MaxAlternatives
    /\ Head(request.plan) = next.provider
    /\ ~next.exclusions
    /\ Len(next.trail) \in 1 .. MaxAlternatives
    /\ next.trail[Len(next.trail)] =
           [provider |-> request.provider, reason |-> proof.reason, submitted |-> TRUE]

\* The providers a job visits, in order: those it left, its own, those still planned.
Route(request) ==
    [i \in 1 .. Len(request.trail) |-> request.trail[i].provider]
        \o <<request.provider>> \o request.plan

=============================================================================
