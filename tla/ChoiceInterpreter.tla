---------------------------- MODULE ChoiceInterpreter ----------------------------
(***************************************************************************)
(* The interpreter that only lets a model choose: providers/jev.py offers    *)
(* spans of the reading (ingestion/candidates.py) as the options of bounded  *)
(* questions, plays a tournament when a question has too many of them, and    *)
(* assembles the invoice from the answers.                                   *)
(*                                                                         *)
(* The adapter is a function of the answers it has heard, so the module says  *)
(* which request comes next after a set of answers and what the last one       *)
(* leaves. What it costs is the rest: request_callback of pipeline.py keeps    *)
(* each valid answer, an attempt that fails leaves them to the next one, and   *)
(* a retry of a failed or unknown job inherits them; taking up a kept answer    *)
(* sends nothing, so an attempt begins at the first request without one.       *)
(***************************************************************************)
EXTENDS PrintedInvoice

CONSTANTS
    OptionLimit,    \* options of one question, abstentions included
    MaxQuestions,   \* questions of one request
    MaxBatch,       \* questions whose request is within the input limit
    MaxCalls,       \* answers of one attempt
    MaxAttempts,    \* attempts of one job
    MaxOdd          \* bound: answers that are not what the document says

ASSUME LimitsValid ==
    /\ OptionLimit \in Nat /\ MaxQuestions \in Nat /\ MaxBatch \in Nat
    /\ OptionLimit >= 5 /\ MaxQuestions >= 1 /\ MaxBatch >= 1 /\ MaxCalls >= 1

VARIABLES
    text,       \* the reading that is interpreted
    heard,      \* the answers kept for this job and its attempts, by the questions of the request
    paid,       \* how often a valid answer to a request was bought, or may have been
    job         \* [state, attempts, consents, odd, code]

jevVars == <<text, heard, paid, job>>

----------------------------------------------------------------------------
(* Options are <<kind, line, index>>: spans of the reading, roles, abstentions. *)

Word(name)  == <<name, 0, 0>>
NOT_FOUND   == Word("not found")
NONE_OF_THE_ABOVE == Word("none of the above")
AMBIGUOUS   == Word("ambiguous")
ABSTENTIONS == {NOT_FOUND, NONE_OF_THE_ABOVE, AMBIGUOUS}
ASSUME ChoiceAssumption == NULL \notin ABSTENTIONS

\* The elements of a sequence that are in a set, in their order.
Only(s, S) ==
    LET only[n \in Nat] ==
            IF n = 0 THEN <<>>
            ELSE IF s[n] \in S THEN Append(only[n - 1], s[n]) ELSE only[n - 1]
    IN  only[Len(s)]

\* The spans of a line, by their kind, in the order in which they are listed.
KINDS == <<"text", "name", "identifier", "order", "iban", "date", "currency", "tax_id", "amount">>
SpanCount(l) ==
    [text |-> 1, name |-> IF l.name # NULL THEN 1 ELSE 0, identifier |-> IF l.token # NULL THEN 1 ELSE 0,
     order |-> Cardinality(l.orders), iban |-> Cardinality(l.ibans), date |-> Len(l.dates),
     currency |-> Cardinality(l.coins), tax_id |-> Len(l.taxes), amount |-> Len(l.numbers)]
LineCandidates(l, i, kinds) ==
    FlattenSeq([n \in DOMAIN kinds |->
        [k \in 1 .. SpanCount(l)[kinds[n]] |-> <<kinds[n], i, k>>]])
Candidates(lines, kinds) == FlattenSeq([i \in DOMAIN lines |-> LineCandidates(lines[i], i, kinds)])

\* Orders and names are spans of kind "text" for the code.
FieldKinds ==
    [invoice_number |-> <<"text", "name", "identifier", "order">>, issue_date |-> <<"date">>,
     currency |-> <<"currency">>, supplier_tax |-> <<"tax_id">>, customer_tax |-> <<"tax_id">>,
     iban |-> <<"iban">>, taxable_base |-> <<"amount">>, total |-> <<"amount">>,
     order_reference |-> <<"text", "name", "identifier", "order">>,
     supplier_name |-> <<"text", "name", "order">>, customer_name |-> <<"text", "name", "order">>]

SpanValue(c, lines) ==
    LET l == lines[c[2]] k == c[3]
    IN  CASE c[1] = "date"       -> l.dates[k]
          [] c[1] = "tax_id"     -> l.taxes[k]
          [] c[1] = "amount"     -> l.numbers[k].w
          [] c[1] = "iban"       -> SetToSeq(l.ibans)[k]
          [] c[1] = "order"      -> SetToSeq(l.orders)[k]
          [] c[1] = "currency"   -> SetToSeq(l.coins)[k]
          [] c[1] = "identifier" -> l.token
          [] c[1] = "name"       -> l.name.v
          [] c[1] = "text"       -> "the whole line"

----------------------------------------------------------------------------
(* Questions, <<name, line>>, and their options.                             *)

Roles == <<Word("line"), Word("tax"), Word("note"), Word("other")>>
Types == <<Word("invoice"), Word("credit_note"), Word("other"), Word("unknown")>>

Sentinels(q) ==
    IF q[1] = "role" THEN {AMBIGUOUS} ELSE IF q[1] = "document_type" THEN {} ELSE ABSTENTIONS

Legible(lines, i) ==
    {c \in {<<"amount", i, k>> : k \in DOMAIN lines[i].numbers} : NormalizeDecimal(SpanValue(c, lines)) # NULL}
OptionsOf(q, lines) ==
    IF q[1] = "role" THEN Roles
    ELSE IF q[1] = "document_type" THEN Types
    ELSE IF q[2] = 0 THEN Candidates(lines, FieldKinds[q[1]])
    ELSE IF q[1] \in {"quantity", "amount", "rate"}
         THEN Only(LineCandidates(lines[q[2]], q[2], <<"amount">>), Legible(lines, q[2]))
    ELSE LineCandidates(lines[q[2]], q[2], KINDS)

FieldOrder == <<"invoice_number", "issue_date", "currency", "supplier_tax", "customer_tax", "iban",
                "taxable_base", "total", "order_reference", "supplier_name", "customer_name">>
FirstQuestions(lines) ==
    [n \in DOMAIN FieldOrder |-> <<FieldOrder[n], 0>>] \o <<<<"document_type", 0>>>>
    \o [i \in DOMAIN lines |-> <<"role", i>>]

RowFields(role) ==
    IF role = Word("line") THEN <<"description", "quantity", "amount">>
    ELSE IF role = Word("tax") THEN <<"label", "rate", "amount">> ELSE <<>>
RowQuestions(lines, answers) ==
    FlattenSeq([i \in DOMAIN lines |->
        LET fields == RowFields(answers[<<"role", i>>])
        IN  [n \in DOMAIN fields |-> <<fields[n], i>>]])

----------------------------------------------------------------------------
(* _ask. A request is a function from questions, <<name, line, round, group>>  *)
(* with round 0 for the last one, to the options it offers. Its questions say   *)
(* which request it is: their options follow from the answers before it. The    *)
(* empty request says that nothing is left to ask.                             *)

\* One question is played from round to round until few options are left.
Width(q)   == OptionLimit - Cardinality(Sentinels(q))
Few(q, left) == Len(left.entries) <= Width(q)

\* The groups of a round, and those whose winner is not known.
Groups(q, left) == 1 .. (Len(left.entries) + Width(q) - 1) \div Width(q)
Group(q, left, g) ==
    LET last == IF g * Width(q) < Len(left.entries) THEN g * Width(q) ELSE Len(left.entries)
    IN  SubSeq(left.entries, (g - 1) * Width(q) + 1, last)
GroupId(q, left, g) == <<q[1], q[2], left.round, g>>
Open(q, left, answers) ==
    IF Few(q, left) THEN {} ELSE {g \in Groups(q, left) : {GroupId(q, left, g)} \notin DOMAIN answers}

NextRound(q, left, answers) ==
    LET choices == [g \in Groups(q, left) |-> answers[{GroupId(q, left, g)}][GroupId(q, left, g)]]
    IN  IF Few(q, left) \/ Open(q, left, answers) # {} THEN left
        ELSE [round |-> left.round + 1, entries |-> Only(choices, Range(choices) \ ABSTENTIONS),
              said |-> left.said \union (Range(choices) \intersect ABSTENTIONS)]

\* What is left of a question's options: every round leaves fewer.
Rounds(q, options, answers) ==
    LET play[n \in Nat] ==
            IF n = 0 THEN [round |-> 1, entries |-> options, said |-> {}]
            ELSE NextRound(q, play[n - 1], answers)
    IN  play[IF Len(options) > Width(q) THEN Len(options) - Width(q) ELSE 0]

\* A group abstention must not be laundered into a confident winner.
\* Mutant: it is forgotten when another group has a winner.
UndecidedUnlessWon(left) ==
    IF left.round = 1 \/ left.entries # <<>> THEN NULL
    ELSE IF AMBIGUOUS \in left.said THEN AMBIGUOUS
    ELSE IF NONE_OF_THE_ABOVE \in left.said THEN NONE_OF_THE_ABOVE ELSE NOT_FOUND
Undecided(left) ==
    IF left.round = 1 THEN NULL
    ELSE IF AMBIGUOUS \in left.said THEN AMBIGUOUS
    ELSE IF left.entries # <<>> THEN NULL
    ELSE IF NONE_OF_THE_ABOVE \in left.said THEN NONE_OF_THE_ABOVE ELSE NOT_FOUND

Played(questions, lines, answers) ==
    [q \in Range(questions) |-> Rounds(q, OptionsOf(q, lines), answers)]

\* The questions the tournaments leave open go out in bounded requests, halved
\* while they are too long. A batch is a set of questions, in their order.
Rank(q, S, place) == Cardinality({r \in S : place[r] <= place[q]})
First(S, place)   == CHOOSE q \in S : \A r \in S : place[q] <= place[r]
Halves(b, place)  ==
    IF Cardinality(b) <= MaxBatch THEN {b}
    ELSE LET front == {q \in b : Rank(q, b, place) <= Cardinality(b) \div 2} IN {front, b \ front}
Packed(S, place)  ==
    LET chunk(k) == {q \in S : (Rank(q, S, place) - 1) \div MaxQuestions = k}
        cut[n \in Nat] == IF n = 0 THEN {chunk(k) : k \in 0 .. Cardinality(S) \div MaxQuestions}
                          ELSE UNION {Halves(b, place) : b \in cut[n - 1]}
    IN  cut[MaxQuestions] \ {{}}

Final(q) == <<q[1], q[2], 0, 0>>
Ids(b)   == {Final(q) : q \in b}
BatchesOf(left, place) == Packed({q \in DOMAIN left : Undecided(left[q]) = NULL}, place)

GroupRequest(q, left, answers) ==
    LET g == Min(Open(q, left, answers)) IN [id \in {GroupId(q, left, g)} |-> Group(q, left, g)]
BatchRequest(b, left) == [id \in Ids(b) |-> left[<<id[1], id[2]>>].entries]

NextRequest(left, place, batches, answers) ==
    LET playing == {q \in DOMAIN left : Open(q, left[q], answers) # {}}
        unsent  == {b \in batches : Ids(b) \notin DOMAIN answers}
    IN  IF playing # {} THEN GroupRequest(First(playing, place), left[First(playing, place)], answers)
        ELSE IF unsent # {} THEN BatchRequest(CHOOSE b \in unsent : First(UNION unsent, place) \in b, left)
        ELSE <<>>

Said(q, left, batches, answers) ==
    IF Undecided(left[q]) # NULL THEN Undecided(left[q])
    ELSE answers[Ids(CHOOSE b \in batches : q \in b)][Final(q)]
Sent(left, place, answers) ==
    LET batches == BatchesOf(left, place)
        next    == NextRequest(left, place, batches, answers)
    IN  [next |-> next, answers |-> IF next # <<>> THEN <<>> ELSE [q \in DOMAIN left |-> Said(q, left, batches, answers)]]

Places(questions) == [q \in Range(questions) |-> CHOOSE n \in DOMAIN questions : questions[n] = q]
Asked(questions, lines, answers) ==
    CHOOSE turn \in {Sent(left, place, answers) :
                        left \in {Played(questions, lines, answers)}, place \in {Places(questions)}} : TRUE

\* The whole conversation: fields and roles, then, once those are known, the rows.
Both(first, rows) ==
    [q \in DOMAIN first \union DOMAIN rows |-> IF q \in DOMAIN first THEN first[q] ELSE rows[q]]
Continued(first, lines, answers) ==
    LET rows == Asked(RowQuestions(lines, first.answers), lines, answers)
    IN  IF first.next # <<>> THEN first
        ELSE [next |-> rows.next, answers |-> IF rows.next # <<>> THEN <<>> ELSE Both(first.answers, rows.answers)]
Conversation(lines, answers) ==
    CHOOSE turn \in {Continued(first, lines, answers) : first \in {Asked(FirstQuestions(lines), lines, answers)}} : TRUE

----------------------------------------------------------------------------
(* run, after the last answer.                                               *)

Doubtful(choice) == choice \in {AMBIGUOUS, NONE_OF_THE_ABOVE}

Chosen(choice, lines) ==
    IF choice \in ABSTENTIONS THEN Gap ELSE Field(SpanValue(choice, lines), {choice[2]})
Same(answers, f, g) == answers[<<f, 0>>] = answers[<<g, 0>>] /\ answers[<<f, 0>>] \notin ABSTENTIONS
\* Mutant: only names are compared.
SharedNames(answers) ==
    {f \in {"supplier_name", "customer_name"} : Same(answers, "supplier_name", "customer_name")}
Shared(answers) ==
    {f \in {"supplier_tax", "customer_tax"} : Same(answers, "supplier_tax", "customer_tax")}
    \union {f \in {"supplier_name", "customer_name"} : Same(answers, "supplier_name", "customer_name")}
Undated(answers, lines) ==
    {f \in {"issue_date"} : /\ answers[<<f, 0>>] \notin ABSTENTIONS
                            /\ NormalizeDate(SpanValue(answers[<<f, 0>>], lines)) = NULL}

LinesOf(role, answers, lines) == {i \in DOMAIN lines : answers[<<"role", i>>] = role}
RowOf(i, fields, answers, lines) == [f \in fields |-> Chosen(answers[<<f, i>>], lines)]
\* A description or a label that was not found is the whole line, and an issue.
RowIssues(role, named, answers, lines) ==
    \E i \in DOMAIN lines : answers[<<"role", i>>] = role /\
        (answers[<<named, i>>] \in ABSTENTIONS \/ \E f \in Range(RowFields(role)) : Doubtful(answers[<<f, i>>]))

Assembled(lines, answers) ==
    LET scalar(f) == IF f \in Shared(answers) \union Undated(answers, lines) THEN Gap
                     ELSE Chosen(answers[<<f, 0>>], lines)
        type == answers[<<"document_type", 0>>]
        rows(role, fields) == [i \in LinesOf(role, answers, lines) |-> RowOf(i, fields, answers, lines)]
        issues == {f \in Range(FieldOrder) : Doubtful(answers[<<f, 0>>])}
                  \union Shared(answers) \union Undated(answers, lines)
                  \union {f \in {"roles"} : LinesOf(AMBIGUOUS, answers, lines) # {}}
                  \union {f \in {"rows"} : RowIssues(Word("line"), "description", answers, lines)}
                  \union {f \in {"taxes"} : RowIssues(Word("tax"), "label", answers, lines)}
    IN  [f \in Scalars \union {"rows", "taxes", "issues"} |->
            IF f = "document_type" THEN Field(type[1], DOMAIN lines)
            ELSE IF f = "rows" THEN rows(Word("line"), {"quantity", "amount"})
            ELSE IF f = "taxes" THEN rows(Word("tax"), {"rate", "amount"})
            ELSE IF f = "issues" THEN issues ELSE scalar(f)]

----------------------------------------------------------------------------
(* What the model answers: what the lines say, but for a bounded number of     *)
(* choices that may be an abstention, the first option or the last, any role.  *)

Says(id, options, lines) ==
    LET meant(c) ==
            CASE id[1] = "document_type" -> c = Word("invoice")
              [] id[1] = "role" -> c[1] \in lines[id[2]].says
              [] id[1] = "amount" -> c = Last(options)
              [] id[2] # 0 -> id[1] \in {"description", "label"}
              [] OTHER -> c[2] # 0 /\ id[1] \in lines[c[2]].says /\ c[1] # "text"
        places == {n \in DOMAIN options : meant(options[n])}
    IN  IF places # {} THEN options[Min(places)]
        ELSE IF id[1] = "role" THEN Word("other")
        ELSE IF id[1] = "document_type" THEN Word("unknown") ELSE NOT_FOUND
Plain(request, lines) == [id \in DOMAIN request |-> Says(id, request[id], lines)]
OddChoices(id, options) ==
    Sentinels(<<id[1], id[2]>>)
    \union (IF id[1] = "role" THEN Range(options) ELSE {options[k] : k \in DOMAIN options \intersect {1, Len(options)}})
Answers(request, plain) ==
    {plain} \union UNION {{[plain EXCEPT ![id] = c] : c \in OddChoices(id, request[id])} : id \in DOMAIN request}

----------------------------------------------------------------------------
(* The job. Its leases and its rows are JobQueue's.                           *)

NoJob == [state |-> "none", attempts |-> 0, consents |-> 0, odd |-> 0, code |-> NULL]
InitJev == heard = <<>> /\ paid = <<>> /\ job = NoJob

\* interpret begins on a reading; one that is not what is printed counts as an odd answer.
BeginInterpretation(lines, misread) ==
    /\ text' = lines /\ heard' = <<>> /\ paid' = <<>>
    /\ job' = [job EXCEPT !.state = "running", !.attempts = 1, !.consents = 0, !.code = NULL,
                          !.odd = IF misread THEN MaxOdd ELSE @]

Count(bag, r) == IF r \in DOMAIN bag THEN bag[r] ELSE 0
More(bag, r)  == [s \in DOMAIN bag \union {r} |-> IF s = r THEN Count(bag, r) + 1 ELSE bag[s]]
Running       == job.state = "running"
Exhausted     == Cardinality(DOMAIN heard) >= MaxCalls
End(state, code) == job' = [job EXCEPT !.state = state, !.code = code]

Asking(turn) == turn.next # <<>> /\ ~Exhausted

\* A valid answer is kept before it is used. The model may say anything.
Buy(turn, answer, plain) ==
    LET odd == answer # plain
    IN  /\ odd => job.odd < MaxOdd
        /\ heard' = [r \in DOMAIN heard \union {DOMAIN answer} |-> IF r \in DOMAIN heard THEN heard[r] ELSE answer]
        /\ paid' = More(paid, DOMAIN turn.next)
        /\ job' = [job EXCEPT !.odd = IF odd THEN @ + 1 ELSE @]
        /\ UNCHANGED text

\* The answer was not stored, or the call was cut off: both leave it unknown.
Lose(turn) ==
    /\ Asking(turn)
    /\ paid' = More(paid, DOMAIN turn.next)
    /\ \E code \in {"response_persistence_failed", "ReadTimeout"} : End("unknown", code)
    /\ UNCHANGED <<text, heard>>

\* Refused for now, or for good: an HTTP status, or a choice that was not offered.
Refuse(turn, code) ==
    /\ Asking(turn)
    /\ End(IF code = "provider_http_error" /\ job.attempts < MaxAttempts THEN "retry_wait" ELSE "failed", code)
    /\ UNCHANGED <<text, heard, paid>>

Overflow(turn) ==
    /\ turn.next # <<>> /\ Exhausted
    /\ End("failed", "question_overflow")
    /\ UNCHANGED <<text, heard, paid>>

\* All is answered: the native form is stored, then the result.
Interpreted(turn) ==
    CHOOSE invoice \in {NormalizeInvoice(raw) : raw \in {Assembled(text, turn.answers)}} : TRUE
NativeNotStored(turn) ==
    /\ turn.next = <<>>
    /\ End(IF job.attempts < MaxAttempts THEN "retry_wait" ELSE "failed", "storage_error")
    /\ UNCHANGED <<text, heard, paid>>
CompleteInterpretation(turn) ==
    /\ turn.next = <<>>
    /\ \E invoice \in {Interpreted(turn)} : End(Status(invoice, text), NULL)
    /\ UNCHANGED <<text, heard, paid>>

NextAttempt ==
    /\ job.state = "retry_wait"
    /\ job' = [job EXCEPT !.state = "running", !.attempts = @ + 1, !.code = NULL]
    /\ UNCHANGED <<text, heard, paid>>

\* Mutant: a retried job only looks at its own attempts.
RememberedOwn(state) == <<>>
Remembered(state) == IF state \in {"failed", "unknown"} THEN heard ELSE <<>>

\* The retry command; an unknown job only with --include-unknown. A retry of a
\* reviewed result asks everything afresh.
RetryJob ==
    /\ job.state \in {"failed", "unknown", "needs_review"}
    /\ heard' = Remembered(job.state)
    /\ paid' = IF job.state = "needs_review" THEN <<>> ELSE paid
    /\ job' = [job EXCEPT !.state = "running", !.attempts = 1, !.code = NULL,
                          !.consents = IF job.state = "unknown" THEN @ + 1
                                       ELSE IF job.state = "needs_review" THEN 0 ELSE @]
    /\ UNCHANGED text

Attempt(turn) ==
    \/ Lose(turn) \/ Overflow(turn) \/ NativeNotStored(turn) \/ CompleteInterpretation(turn)
    \/ Asking(turn) /\ \E plain \in {Plain(turn.next, text)} :
                        \E answer \in Answers(turn.next, plain) : Buy(turn, answer, plain)
    \/ \E code \in {"provider_http_error", "invalid_response"} : Refuse(turn, code)

NextJev ==
    \/ NextAttempt
    \/ Running /\ \E turn \in {Conversation(text, heard)} : Attempt(turn)

----------------------------------------------------------------------------
(* A choice the model could not make is never laundered into a value: if a     *)
(* question of a finished interpretation was called ambiguous in any round,     *)
(* its field is empty and the interpretation needs review ("A group abstention  *)
(* must not be laundered into a confident winner", jev.py).                    *)
NothingLaundered ==
    job.state = "completed" =>
        \A asked \in DOMAIN heard : \A id \in asked :
            /\ heard[asked][id] # AMBIGUOUS
            /\ id[3] = 0 => heard[asked][id] # NONE_OF_THE_ABOVE

(* An answer is bought once: a request whose valid answer was paid, or may have  *)
(* been, is sent again only after somebody accepted an unknown outcome, once     *)
(* each time, whatever failed in between (request_callback, reuse_completed).    *)
AnswersBoughtOnce ==
    \A r \in DOMAIN paid : paid[r] <= 1 + job.consents
=================================================================================
