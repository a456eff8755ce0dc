------------------------------- MODULE TextCascade -------------------------------
(***************************************************************************)
(* How a file becomes an invoice (ingestion/pipeline.py, _process_input):    *)
(* first from its own text layer, without a model; when the gate rejects      *)
(* that, from its pixels, read by a vision model (providers/vision.py) and     *)
(* interpreted by another (providers/deepseek.py or ChoiceInterpreter).       *)
(* A person may correct the reading of a finished file and have it             *)
(* interpreted again (ingestion/review.py, the interpret command).            *)
(*                                                                         *)
(* A file has one page here. Its jobs end as the queue lets them, see         *)
(* JobQueue: what this module adds is which route they open.                  *)
(***************************************************************************)
EXTENDS ChoiceInterpreter

CONSTANTS
    Batches,        \* files with the configuration they are ingested under
    MaxCommands     \* bound: retries and corrected readings

ASSUME BatchesAssumption ==
    \A b \in Batches : /\ b.printed \in Seq(Range(b.printed)) /\ \A l \in Range(b.printed) : IsPrinted(l)
                       /\ b.interpreter \in {"deepseek", "jev"}

VARIABLES
    file,       \* [printed, layer]: the layer is "text", "short" or "unreadable"
    mode,       \* [cascade, interpreter]: "on" or "vision-only", "deepseek" or "jev"
    stage,      \* where the file is
    native,     \* how the two jobs of the deterministic route ended, until vision has read
    outcome,    \* the published outcome, or NULL
    commands    \* retries and corrected readings so far

cascadeVars == <<jevVars, file, mode, stage, native, outcome, commands>>

NotTried    == [reading |-> NULL, fields |-> NULL]
\* How a local job ends: its own result, one that another worker still computes,
\* an unknown one, or an exception that is not the stage's own.
LocalEnds   == {"ok", "held", "unknown", "raised"}

\* read: the outcome holds a reading, whether or not it was interpreted.
Outcome(status, code, route, invoice, read) ==
    [status |-> status, code |-> code, route |-> route, invoice |-> invoice, read |-> read]

InitCascade ==
    /\ InitJev /\ text = <<>>
    /\ \E b \in Batches : /\ file = [printed |-> b.printed, layer |-> b.layer]
                          /\ mode = [cascade |-> b.cascade, interpreter |-> b.interpreter]
    /\ stage = "new" /\ native = NotTried /\ outcome = NULL /\ commands = 0

\* The handler of _process_input: what the provider could not hold is for a person.
ErrorStatus(code) ==
    IF code \in {"unsupported_size", "candidate_overflow", "question_overflow"} THEN "needs_review" ELSE "failed"
Publish(result) == outcome' = result /\ stage' = "done"
Fail(code) == Publish(Outcome(ErrorStatus(code), code, "vision", NULL, stage = "interpret"))

----------------------------------------------------------------------------
(* The deterministic route.                                                  *)

\* The file is not what the manifest names, or is no PDF at all.
InvalidFile ==
    /\ stage = "new"
    /\ \E code \in {"invalid_pdf", "source_hash_mismatch"} : Fail(code)
    /\ UNCHANGED <<jevVars, file, mode, native, commands>>

HasText == mode.cascade = "on" /\ file.layer = "text"

NoText ==
    /\ stage = "new" /\ ~HasText
    /\ stage' = "vision"
    /\ UNCHANGED <<jevVars, file, mode, native, outcome, commands>>

NativeInvoice == CHOOSE invoice \in {NormalizeInvoice(raw) : raw \in {Written(Extract(file.printed))}} : TRUE

\* Both local jobs ended; the first exception of the two is the one that counts.
Native(reading, fields) ==
    LET first == IF reading # "ok" THEN reading ELSE fields
    IN  /\ stage = "new" /\ HasText
        /\ native' = [reading |-> reading, fields |-> fields]
        /\ IF first = "ok" /\ Accept(NativeInvoice, file.printed)
           THEN Publish(Outcome("completed", NULL, "deterministic", NativeInvoice, TRUE))
           ELSE IF first \in {"ok", "held"} THEN stage' = "vision" /\ UNCHANGED outcome
           ELSE Fail(first)
        /\ UNCHANGED <<jevVars, file, mode, commands>>

----------------------------------------------------------------------------
(* The vision route. A block per line; a line may be missed, or marked as      *)
(* uncertain, or be the only one.                                            *)

VisionReadings(lines) ==
    {lines}
    \union {[lines EXCEPT ![i].uncertain = TRUE] : i \in DOMAIN lines}
    \union {RemoveAt(lines, i) : i \in DOMAIN lines}

VisionReads(reading) ==
    /\ stage = "vision"
    /\ IF reading = <<>> THEN Fail("empty_ocr_page") /\ UNCHANGED jevVars
       ELSE /\ stage' = "interpret" /\ UNCHANGED outcome
            /\ IF mode.interpreter = "jev" THEN BeginInterpretation(reading, reading # file.printed)
               ELSE text' = reading /\ UNCHANGED <<heard, paid, job>>
    /\ native' = NotTried /\ UNCHANGED <<file, mode, commands>>

VisionFails ==
    /\ stage = "vision"
    /\ \E code \in {"pdf_no_pages", "provider_http_error", "invalid_response", "unsupported_size", "TimeoutError"} :
          Fail(code)
    /\ UNCHANGED <<jevVars, file, mode, native, commands>>

----------------------------------------------------------------------------
(* Interpretation.                                                           *)

\* DeepSeek answers at once: what a careful model reads, but for one field that it
\* leaves out with an issue, does not link, or links to a block that does not exist.
DeepSeekAnswers(careful, n) ==
    {careful, [careful EXCEPT !.rows = <<>>]}
    \union {[careful EXCEPT ![f] = Gap, !.issues = {f}] : f \in Scalars}
    \union {[careful EXCEPT ![f].at = at] : f \in Scalars, at \in {{}, {n + 1}}}

DeepSeekReads ==
    /\ stage = "interpret" /\ mode.interpreter = "deepseek"
    /\ \E careful \in {Extract(text)} : \E invoice \in DeepSeekAnswers(careful, Len(text)) :
       \E raw \in {Written(invoice)} : \E seen \in {NormalizeInvoice(raw)} :
          Publish(Outcome(Status(seen, text), NULL, "vision", seen, TRUE))
    /\ UNCHANGED <<jevVars, file, mode, native, commands>>

InterpreterFails ==
    /\ stage = "interpret" /\ mode.interpreter = "deepseek"
    /\ \E code \in {"unsupported_size", "rate_limited", "invalid_response", "ValueError"} : Fail(code)
    /\ UNCHANGED <<jevVars, file, mode, native, commands>>

Interpret == stage = "interpret" /\ mode.interpreter = "jev" /\ NextJev
             /\ UNCHANGED <<file, mode, stage, native, outcome, commands>>

\* What the job of the interpreter came to is the outcome of the file.
JevEnds ==
    /\ stage = "interpret" /\ mode.interpreter = "jev"
    /\ \/ /\ job.state \in {"completed", "needs_review"}
          /\ Publish(Outcome(job.state, NULL, "vision", Interpreted(Conversation(text, heard)), TRUE))
       \/ job.state \in {"failed", "unknown"} /\ Fail(job.code)
    /\ UNCHANGED <<jevVars, file, mode, native, commands>>

\* The retry command takes the file up again where its job failed.
RetryFile ==
    /\ stage = "done" /\ mode.interpreter = "jev" /\ commands < MaxCommands /\ RetryJob
    /\ stage' = "interpret" /\ outcome' = NULL /\ commands' = commands + 1
    /\ UNCHANGED <<file, mode, native>>

----------------------------------------------------------------------------
(* A corrected reading: of a file that has one, by somebody who names himself, *)
(* saw every page, and gives a reason for each block he changes.              *)

Doubted(lines) == {i \in DOMAIN lines : lines[i].uncertain}
Corrections(lines) ==
    {lines} \union {[lines EXCEPT ![i].uncertain = FALSE] : i \in Doubted(lines)}
    \union {[lines EXCEPT ![i].uncertain = FALSE, ![i].numbers = <<>>] : i \in Doubted(lines)}

ReadBefore == IF outcome.route = "deterministic" THEN file.printed ELSE text

Correct(reading) ==
    /\ stage = "done" /\ outcome.read /\ commands < MaxCommands
    /\ stage' = "interpret" /\ outcome' = NULL /\ commands' = commands + 1
    /\ IF mode.interpreter = "jev" THEN BeginInterpretation(reading, FALSE)
       ELSE text' = reading /\ UNCHANGED <<heard, paid, job>>
    /\ UNCHANGED <<file, mode, native>>

NextCascade ==
    \/ InvalidFile \/ NoText \/ VisionFails \/ DeepSeekReads \/ InterpreterFails \/ Interpret \/ JevEnds \/ RetryFile
    \/ \E reading, fields \in LocalEnds : Native(reading, fields)
    \/ stage = "vision" /\ \E reading \in VisionReadings(file.printed) : VisionReads(reading)
    \/ /\ stage = "done" /\ outcome.read
       /\ \E reading \in Corrections(ReadBefore) : Correct(reading)

SpecCascade == InitCascade /\ [][NextCascade]_cascadeVars

----------------------------------------------------------------------------
(* A file that never went to a model names one supplier, one order and one       *)
(* account: no other identifier of the kind is printed anywhere, and the tax     *)
(* identifier is not the customer's, wherever that one is printed (extract).     *)
NativeIsUnambiguous ==
    stage = "done" /\ outcome.route = "deterministic" /\ outcome.status = "completed" =>
        LET lines == file.printed read == outcome.invoice
        IN  /\ Distinct(lines, LAMBDA l : l.orders) = {read.order_reference.v}
            /\ Distinct(lines, LAMBDA l : l.ibans) = {read.iban.v}
            /\ read.supplier_tax.v # read.customer_tax.v
            /\ \A i \in DOMAIN lines : \A k \in DOMAIN lines[i].taxes :
                  \/ lines[i].taxes[k] \in {read.supplier_tax.v, read.customer_tax.v}
                  \/ lines[i].cliente \/ lines[i].opens = "cliente"

Numbers(lines, at) == UNION {Range(lines[i].numbers) : i \in at}
ReadsLike(field, lines) ==
    \E n \in Numbers(lines, field.at) :
        /\ ~n.rate
        /\ \/ field.v = NormalizeDecimal(n.w)
           \/ Last(n.w.lens) = 3 /\ field.v = Whole(n.w)
           \/ NormalizeDecimal(n.w) = NULL /\ field.v = Amount(n.w)

(* What the text layer says is what a model's choice of the same text would have *)
(* said: base, total, tax and rows of an accepted file are the normal form of a  *)
(* number printed in the line they link to, and the date is a date printed        *)
(* there. The two routes read a number differently only if three digits follow    *)
(* its last separator, as in 1.250, or if the model's one refuses it, as 1.250.00  *)
(* (_amount, normalize_decimal).                                                *)
RoutesReadAlike ==
    stage = "done" /\ outcome.route = "deterministic" /\ outcome.status = "completed" =>
        LET lines == file.printed read == outcome.invoice
        IN  /\ \A f \in {read.taxable_base, read.total, read.taxes[1].amount}
                          \union {read.rows[i].amount : i \in DOMAIN read.rows} : ReadsLike(f, lines)
            /\ \E i \in read.issue_date.at : \E k \in DOMAIN lines[i].dates :
                  NormalizeDate(lines[i].dates[k]) \in {NULL, read.issue_date.v}

(* A completed interpretation of Jev says of two parties what two places of the  *)
(* reading say: the spans chosen for the supplier are not the customer's, and    *)
(* every identifier, date and amount is the text of a line it links to.          *)
ChoicesAreSpans ==
    stage = "done" /\ mode.interpreter = "jev" /\ outcome.route = "vision" /\ outcome.status = "completed" =>
        LET read == outcome.invoice
            said == Conversation(text, heard).answers
        IN  /\ said[<<"supplier_tax", 0>>] # said[<<"customer_tax", 0>>] \/ read.supplier_tax.v = NULL
            /\ \A i \in read.iban.at : read.iban.v \in text[i].ibans
            /\ \A i \in read.supplier_tax.at : read.supplier_tax.v \in Range(text[i].taxes)
            /\ \A i \in read.issue_date.at :
                  \E k \in DOMAIN text[i].dates : NormalizeDate(text[i].dates[k]) = read.issue_date.v
            /\ \A f \in {read.taxable_base, read.total} \union {read.rows[k].amount : k \in DOMAIN read.rows} :
                  f.v # NULL => \E n \in Numbers(text, f.at) : NormalizeDecimal(n.w) = f.v

(* The uncertainty of a stored stage does not open a paid one: a file whose        *)
(* deterministic jobs ended with an unknown outcome is not sent to a model        *)
(* ("Persistence uncertainty must not trigger a paid fallback", pipeline.py).     *)
UncertainNeverPays ==
    "unknown" \in {native.reading, native.fields} => stage \notin {"vision", "interpret"}

(* A field the text layer leaves open is taken up by the vision stage ("shows up  *)
(* in gaps so the vision stage can take over", deterministic.py).                 *)
GapsGoToVision ==
    stage = "done" /\ outcome.route = "deterministic" /\ outcome.status = "completed" =>
        Gaps(file.printed, Extract(file.printed)) = {}
=================================================================================
