---------------------------- MODULE ContextualReview ----------------------------
(***************************************************************************)
(* The second reading of a recommendation: contextual_review.py sends the   *)
(* frozen context and its evaluation to a model (contextual_provider.py),   *)
(* validates the answer against both, and writes a review beside the        *)
(* evaluation, which it never changes.  What leaves is                      *)
(* backend/export_outcomes.decide_output of the two.                        *)
(*                                                                         *)
(* Composed with the evaluation: a review is made of what Evaluate decided,  *)
(* and goes with it when the world changes.                                 *)
(***************************************************************************)
EXTENDS InvoiceEvaluation

CONSTANTS
    Calls,          \* what the HTTP call to the model may come to
    Remarks,        \* the findings a model may state
    MaxReviewed     \* bound: evaluations further than this from the baseline are not reviewed

VARIABLE review     \* the review of the current decision, or NULL

reviewVars == <<vars, review>>

----------------------------------------------------------------------------
(* The request. Every source is read whole unless the request is too long:    *)
(* then long sources are sent as excerpts. What is not JSON cannot be read.    *)

Sources(in) ==
    {"invoice", "checks", "ruleset"}
    \union {p \in {"reading", "evidence", "workbook"} : in[p]}
    \union {p \in Snapshots : in[p].avail # "absent"}
Unavailable(in) ==
    {p \in {"reading", "evidence"} : ~in[p]} \union {p \in Snapshots : in[p].avail = "unavailable"}
Unreadable(in) == Sources(in) \intersect {"workbook"}
Partial(in)    == {p \in Snapshots : in[p].avail = "partial"}
Documents(in)  == Sources(in) \ (Unavailable(in) \union Unreadable(in))

Fits == {"whole", "excerpts", "too_large"}

----------------------------------------------------------------------------
(* The call: [status, raised, length, finish, body]. length: "short", "long"   *)
(* (over the reviewer's output budget) or "cut" (over the adapter's cap).       *)

CallError(call) ==
    IF call.raised \in {"timeout", "transport_error"} THEN call.raised
    ELSE IF call.status \in {401, 403}                THEN "authentication_error"
    ELSE IF call.status = 429                         THEN "rate_limited"
    ELSE IF call.status \notin 200 .. 299             THEN "http_error"
    ELSE IF call.length = "cut"                       THEN "output_too_large"
    ELSE IF call.finish # "stop" \/ call.body # "json" THEN "invalid_response"
    ELSE IF call.length = "long"                      THEN "output_too_large"
    ELSE NULL

----------------------------------------------------------------------------
(* The answer: assessments (one per rule), the remarks, the sources it says it *)
(* reviewed, and its one citation, [source, kept, exact]: kept tells whether an *)
(* excerpt holds the place, exact whether the quote is there. Rule assessments  *)
(* and remarks that carry evidence carry that citation.                         *)

Unresolved(result) ==
    result.status \in {"BLOCKED", "UNSUPPORTED", "ERROR", "NEEDS_REVIEW"} \/ ~result.complete

ValidCitation(answer, fit) ==
    /\ answer.cite.source \in answer.reviewed
    /\ answer.cite.exact
    /\ fit = "excerpts" => answer.cite.kept

\* Mutant: a rule may be doubted without a remark that blocks it.
ValidAnswerUnexplained(answer, in, res, fit) ==
    /\ DOMAIN answer.assessments = DOMAIN res
    /\ answer.reviewed \subseteq Documents(in)
    /\ answer.cite # NULL => ValidCitation(answer, fit)
    /\ \A i \in DOMAIN res : Unresolved(res[i]) => answer.assessments[i] = "UNCERTAIN"

ValidAnswer(answer, in, res, fit) ==
    /\ DOMAIN answer.assessments = DOMAIN res
    /\ answer.reviewed \subseteq Documents(in)
    /\ answer.cite # NULL => ValidCitation(answer, fit)
    /\ \A r \in answer.remarks :
          /\ r.rules \subseteq {res[i].rule : i \in DOMAIN res}
          /\ r.duplicate \/ r.kind = "AUTHORIZATION_GAP" => r.blocking
          /\ answer.cite # NULL \/ r.kind = "REVIEW_LIMITATION"
    /\ \A i \in DOMAIN res :
          /\ Unresolved(res[i]) => answer.assessments[i] = "UNCERTAIN"
          /\ answer.assessments[i] # "UNCERTAIN" => answer.cite # NULL
          /\ answer.assessments[i] # "SUPPORTED" =>
                \E r \in answer.remarks : r.blocking /\ res[i].rule \in r.rules

----------------------------------------------------------------------------
(* The review.                                                               *)

Failed(code, fit) ==
    [status |-> "FAILED", attention |-> TRUE, error |-> code, fit |-> fit,
     assessments |-> <<>>, remarks |-> {}, unreviewed |-> NULL]

\* Mutant: what the model did not read is not a limitation.
LimitedBySources(answer, in, res, fit) ==
    \/ fit = "excerpts"
    \/ \E r \in answer.remarks : r.kind = "REVIEW_LIMITATION"
    \/ Unavailable(in) \union Unreadable(in) \union Partial(in) # {}
    \/ \E i \in DOMAIN res : ~res[i].complete

Limited(answer, in, res, fit) ==
    \/ fit = "excerpts"
    \/ \E r \in answer.remarks : r.kind = "REVIEW_LIMITATION"
    \/ Unavailable(in) \union Unreadable(in) \union Partial(in) # {}
    \/ Documents(in) \ answer.reviewed # {}
    \/ res = <<>> \/ \E i \in DOMAIN res : ~res[i].complete

Reviewed(answer, in, res, findings, made, fit) ==
    LET complete == /\ ~Limited(answer, in, res, fit)
                    /\ \A i \in DOMAIN res : answer.assessments[i] # "UNCERTAIN"
        clean    == /\ complete
                    /\ made = "PAGAR" /\ Eligible(res, made)
                    /\ \A i \in DOMAIN res : answer.assessments[i] = "SUPPORTED"
                    /\ Outstanding(in, findings, res) = {}
                    /\ \A r \in answer.remarks : ~r.blocking
    IN  [status |-> IF complete THEN "COMPLETED" ELSE "INCOMPLETE", attention |-> ~clean,
         error |-> NULL, fit |-> fit, assessments |-> answer.assessments,
         remarks |-> answer.remarks, unreviewed |-> Documents(in) \ answer.reviewed]

\* decide_output, when the run asked for reviews: only an approval needs one.
Output(made, rev) ==
    LET challenged == \/ \E i \in DOMAIN rev.assessments : rev.assessments[i] = "CHALLENGED"
                      \/ \E r \in rev.remarks : r.blocking /\ r.kind # "REVIEW_LIMITATION"
    IN  IF made # "PAGAR" THEN made
        ELSE IF rev = NULL THEN "ESCALAR"
        ELSE IF rev.status = "FAILED" \/ challenged THEN "ESCALAR" ELSE "PAGAR"

----------------------------------------------------------------------------
InitReviewed == Init /\ review = NULL

Decide == Next /\ review' = NULL

Reviewable == stage = "decided" /\ review = NULL /\ Cardinality(changed) <= MaxReviewed

\* The request was too long, the call failed, or the answer does not hold.
ReviewFails(fit, call) ==
    /\ review' = IF fit = "too_large" THEN Failed("input_too_large", fit)
                 ELSE Failed(CallError(call), fit)
    /\ fit = "too_large" \/ CallError(call) # NULL
    /\ UNCHANGED vars

\* The rules it doubts are doubted in one way; "cited" sources may not be read.
Answer(doubted, doubt, remarks, unread, cite) ==
    [assessments |-> [i \in DOMAIN results |->
                        IF results[i].rule \in doubted THEN doubt ELSE "SUPPORTED"],
     remarks |-> remarks, reviewed |-> Documents(input) \ unread, cite |-> cite]
ReviewAnswers(fit, answer) ==
    /\ review' = IF ValidAnswer(answer, input, results, fit)
                 THEN Reviewed(answer, input, results, context.findings, decision, fit)
                 ELSE Failed("invalid_response", fit)
    /\ UNCHANGED vars

Doubted == {{results[i].rule : i \in {j \in DOMAIN results : Unresolved(results[j])}}, {}, {"amount"}}
Unread  == {{}, {"orders"}}
Cite(source, kept, exact) == [source |-> source, kept |-> kept, exact |-> exact]
Citations ==
    {NULL, Cite("orders", TRUE, TRUE), Cite("invoice", FALSE, TRUE), Cite("invoice", TRUE, FALSE)}

ReviewStep ==
    /\ Reviewable
    /\ \/ \E fit \in Fits, call \in Calls : ReviewFails(fit, call)
       \/ \E fit \in Fits \ {"too_large"}, doubted \in Doubted, doubt \in {"CHALLENGED", "UNCERTAIN"},
             remarks \in {{}} \union {{r} : r \in Remarks}, unread \in Unread, cite \in Citations :
             ReviewAnswers(fit, Answer(doubted, doubt, remarks, unread, cite))

NextReviewed == Decide \/ ReviewStep
SpecReviewed == InitReviewed /\ [][NextReviewed]_reviewVars

----------------------------------------------------------------------------
(* What the review is for: a review that asks for nobody's attention leaves    *)
(* nothing to look at. The invoice is payable by the raw input, no source was   *)
(* cut, missing, unreadable or left unread, every rule was supported by a quote *)
(* that is there, and nothing blocking was said (review_evaluation, "attention  *)
(* _required").                                                                *)
UnattendedIsPayable ==
    review # NULL /\ ~review.attention =>
        /\ AsksEnough(input) => PayableInvoice(input)
        /\ review.fit = "whole" /\ review.unreviewed = {}
        /\ Sources(input) = Documents(input) /\ Partial(input) = {}
        /\ \A i \in DOMAIN results : review.assessments[i] = "SUPPORTED"
        /\ \A r \in review.remarks : ~r.blocking

(* What leaves as PAGAR under review was decided PAGAR, every rule of it was    *)
(* supported, or doubted only because the model could not read something and    *)
(* said so: a rule the model doubts for a reason of the invoice never leaves    *)
(* (decide_output reads the remarks that _validate_response requires).          *)
ExportedWasNotDoubted ==
    decision # NULL /\ Output(decision, review) = "PAGAR" =>
        /\ \A i \in DOMAIN results : results[i].status \in {"PASS", "NOT_APPLICABLE"}
        /\ \A i \in DOMAIN results :
              \/ review.assessments[i] = "SUPPORTED"
              \/ \E r \in review.remarks :
                    r.kind = "REVIEW_LIMITATION" /\ results[i].rule \in r.rules
        /\ review.status = "COMPLETED" => Sources(input) = Documents(input)
=================================================================================
