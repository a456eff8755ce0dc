----------------------------- MODULE DeskOutbox -----------------------------
(***************************************************************************)
(* The outgoing mail of Alberto's desk (desk/agents.py over desk/ledger.py *)
(* and desk/mail.py): mails are queued as events, held for a while, and    *)
(* leave through SMTP when somebody flushes the outbox.  The worker thread *)
(* of desk/server.py flushes and then recovers missing payment notices     *)
(* once a second; HTTP threads flush, approve, cancel and ask for pause    *)
(* notices whenever Alberto does.  Each ledger transaction is one step.    *)
(***************************************************************************)
EXTENDS Naturals, Sequences, FiniteSets, FiniteSetsExt

CONSTANTS Threads,     \* the worker and the HTTP threads
          Worker,      \* _outbox_worker
          Payments,    \* payments that may be registered
          Files,       \* invoices of one vendor
          Causes,      \* canonical rules that can block an invoice
          None,
          QuitRefused, \* the SMTP server may answer QUIT with something other than 221
          MaxMails,    \* bound: mails that are not payment notices
          MaxAborts    \* bound: threads that die between two transactions

ASSUME OutboxAssumption ==
    /\ Worker \in Threads
    /\ QuitRefused \in BOOLEAN
    /\ MaxMails \in Nat /\ MaxAborts \in Nat
    /\ None \notin Causes \cup Payments

VARIABLES
    mails,    \* EMAIL_QUEUED events in seq order, with the events that name them
    claims,   \* the idempotency table
    paid,     \* PAYMENT_REGISTERED events
    cause,    \* first blocking rule of the invoices whose status is blocked
    act,      \* what each thread is doing
    accepted, \* history: how often a server accepted each mail
    aborts

vars == <<mails, claims, paid, cause, act, accepted, aborts>>

-----------------------------------------------------------------------------
(* Mails and keys *)

EmailKey(m) == <<"email", m>>
NoticeKey(p) == <<"notice", p>>

NewMail(template, payment, files, why, missing) ==
    [template |-> template, payment |-> payment, files |-> files, cause |-> why,
     missing_recipient |-> missing, released |-> FALSE, events |-> {}]

Queue(mail) == mails' = Append(mails, mail) /\ accepted' = Append(accepted, 0)

Has(m, e) == e \in mails[m].events
WithEvent(m, e) == [mails EXCEPT ![m].events = @ \cup {e}]

(* outbox: neither cancelled nor sent, shown with how its delivery stands *)
Outbox == {m \in DOMAIN mails : ~Has(m, "cancelled") /\ ~Has(m, "sent")}

Delivery(m) ==
    IF Has(m, "uncertain") \/ (Has(m, "started") /\ ~Has(m, "failed")) THEN "uncertain"
    ELSE IF Has(m, "failed") THEN "failed"
    ELSE IF mails[m].missing_recipient THEN "held" ELSE "queued"

(* Wrong variants of a definition, each the kind of slip a property is      *)
(* there to catch, precede the definition they replace in a mutation run.   *)
ToFlushNotHeld == {m \in Outbox : Delivery(m) = "queued"}

(* The mails a flush goes through *)
ToFlush == {m \in Outbox : Delivery(m) \notin {"uncertain", "failed"}}

Idle == [pc |-> "idle", todo |-> {}, at |-> None, result |-> None]

-----------------------------------------------------------------------------
Init ==
    /\ mails = <<>>
    /\ claims = {}
    /\ paid = {}
    /\ cause = [f \in Files |-> None]
    /\ act = [t \in Threads |-> Idle]
    /\ accepted = <<>>
    /\ aborts = 0

Become(t, state) == act' = [act EXCEPT ![t] = state]
Doing(t, pc) == act[t].pc = pc
Rest(t, x) == [act[t] EXCEPT !.todo = @ \ {x}]

Uncommon == Cardinality({m \in DOMAIN mails : mails[m].template # "payment_notice"})

(* queue_email from the invoice view *)
QueueEmail(missing) ==
    /\ Uncommon < MaxMails
    /\ Queue(NewMail("direct", None, {}, None, missing))
    /\ UNCHANGED <<claims, paid, cause, act, aborts>>

(* The hold ends: release_at has passed. *)
Release(m) ==
    /\ ~mails[m].released
    /\ mails' = [mails EXCEPT ![m].released = TRUE]
    /\ UNCHANGED <<claims, paid, cause, act, accepted, aborts>>

Cancellable(m) ==
    /\ ~Has(m, "cancelled") /\ ~Has(m, "sent")
    /\ Has(m, "started") => Has(m, "failed")

CancelEmail(m) ==
    /\ Cancellable(m)
    /\ mails' = WithEvent(m, "cancelled")
    /\ UNCHANGED <<claims, paid, cause, act, accepted, aborts>>

-----------------------------------------------------------------------------
(* flush_outbox *)

Flush(t) ==
    /\ Doing(t, "idle")
    /\ Become(t, [Idle EXCEPT !.pc = "flush", !.todo = ToFlush])
    /\ UNCHANGED <<mails, claims, paid, cause, accepted, aborts>>

Turn(t, m) == Doing(t, "flush") /\ act[t].todo # {} /\ m = Min(act[t].todo)

MissingRecipient(t, m) ==
    /\ Turn(t, m)
    /\ mails[m].missing_recipient /\ mails[m].released
    /\ EmailKey(m) \notin claims
    /\ claims' = claims \cup {EmailKey(m)}
    /\ mails' = WithEvent(m, "failed")
    /\ Become(t, Rest(t, m))
    /\ UNCHANGED <<paid, cause, accepted, aborts>>

DispatchableUnclaimed(m) ==
    /\ ~mails[m].missing_recipient /\ mails[m].released
    /\ mails[m].events \cap {"cancelled", "sent", "uncertain", "failed"} = {}

Dispatchable(m) ==
    /\ EmailKey(m) \notin claims
    /\ ~mails[m].missing_recipient /\ mails[m].released
    /\ mails[m].events \cap {"cancelled", "sent", "uncertain", "failed"} = {}

Started(m) == WithEvent(m, "started")

(* _claim_dispatch *)
ClaimDispatch(t, m) ==
    /\ Turn(t, m)
    /\ Dispatchable(m)
    /\ claims' = claims \cup {EmailKey(m)}
    /\ mails' = Started(m)
    /\ Become(t, [Rest(t, m) EXCEPT !.pc = "send", !.at = m])
    /\ UNCHANGED <<paid, cause, accepted, aborts>>

Skip(t, m) ==
    /\ Turn(t, m)
    /\ IF mails[m].missing_recipient THEN mails[m].released => EmailKey(m) \in claims
       ELSE ~Dispatchable(m)
    /\ Become(t, Rest(t, m))
    /\ UNCHANGED <<mails, claims, paid, cause, accepted, aborts>>

(* mail.send: whether a server accepted the mail, and what the desk learns. *)
(* A refusal is definite, a broken connection is uncertain either way, and  *)
(* a bad answer to QUIT reads as a refusal after the mail was accepted.     *)
Outcomes ==
    {[accepted |-> 1, result |-> "sent"], [accepted |-> 1, result |-> "uncertain"],
     [accepted |-> 0, result |-> "uncertain"], [accepted |-> 0, result |-> "failed"]}
    \cup IF QuitRefused THEN {[accepted |-> 1, result |-> "failed"]} ELSE {}

Send(t) ==
    /\ Doing(t, "send")
    /\ \E o \in Outcomes :
          /\ accepted' = [accepted EXCEPT ![act[t].at] = @ + o.accepted]
          /\ Become(t, [act[t] EXCEPT !.pc = "record", !.result = o.result])
    /\ UNCHANGED <<mails, claims, paid, cause, aborts>>

EventOfOptimist(result) == IF result = "uncertain" THEN "failed" ELSE result

(* EMAIL_SENT, EMAIL_UNCERTAIN or EMAIL_FAILED *)
EventOf(result) == result

Record(t) ==
    /\ Doing(t, "record")
    /\ mails' = WithEvent(act[t].at, EventOf(act[t].result))
    /\ Become(t, [act[t] EXCEPT !.pc = "flush", !.at = None, !.result = None])
    /\ UNCHANGED <<claims, paid, cause, accepted, aborts>>

RecoverNobody == {}

(* recover_notices goes through every registered payment *)
ToRecover == paid

(* The worker goes on to recover_notices; an HTTP thread answers. *)
FlushEnds(t) ==
    /\ Doing(t, "flush") /\ act[t].todo = {}
    /\ Become(t, IF t = Worker THEN [Idle EXCEPT !.pc = "notices", !.todo = ToRecover] ELSE Idle)
    /\ UNCHANGED <<mails, claims, paid, cause, accepted, aborts>>

-----------------------------------------------------------------------------
(* Payment notices *)

(* approve: register_payment commits, its notice is still to be written *)
Approve(t, p) ==
    /\ Doing(t, "idle") /\ t # Worker
    /\ p \notin paid
    /\ paid' = paid \cup {p}
    /\ Become(t, [Idle EXCEPT !.pc = "notices", !.todo = {p}])
    /\ UNCHANGED <<mails, claims, cause, accepted, aborts>>

NoticeDueIfNoneLive(p) == \A m \in DOMAIN mails : mails[m].payment = p => Has(m, "cancelled")

NoticeDue(p) == NoticeKey(p) \notin claims

(* _queue_payment_notice: the draft is written, then claimed and queued *)
QueueNotice(t, p) ==
    /\ Doing(t, "notices") /\ p \in act[t].todo
    /\ IF NoticeDue(p)
       THEN /\ claims' = claims \cup {NoticeKey(p)}
            /\ Queue(NewMail("payment_notice", p, {}, None, FALSE))
       ELSE UNCHANGED <<claims, mails, accepted>>
    /\ Become(t, Rest(t, p))
    /\ UNCHANGED <<paid, cause, aborts>>

NoticesEnd(t) ==
    /\ Doing(t, "notices") /\ act[t].todo = {}
    /\ Become(t, Idle)
    /\ UNCHANGED <<mails, claims, paid, cause, accepted, aborts>>

-----------------------------------------------------------------------------
(* Pause notices *)

(* A verdict, a rule, a rejection or a payment changes what blocks an invoice. *)
Reconsider(f) ==
    /\ \E c \in Causes \cup {None} : c # cause[f] /\ cause' = [cause EXCEPT ![f] = c]
    /\ UNCHANGED <<mails, claims, paid, act, accepted, aborts>>

Pauses == {m \in DOMAIN mails : mails[m].template = "pause_review"}
Notified == UNION {mails[m].files : m \in {k \in Pauses : ~Has(k, "cancelled")}}

GroupOf(c) == [cause |-> c, files |-> {f \in Files : cause[f] = c} \ Notified]
Groups == {g \in {GroupOf(c) : c \in Causes} : g.files # {}}

(* The last cancelled notice of the same rule and vendor, 0 for "initial" *)
Generation(c) == Max({0} \cup {m \in Pauses : Has(m, "cancelled") /\ mails[m].cause = c})
PauseKey(g) == <<"pause", g.files, Generation(g.cause)>>

(* notify_blocked decides its groups, *)
NotifyBlocked(t) ==
    /\ Doing(t, "idle") /\ t # Worker
    /\ Groups # {}
    /\ Become(t, [Idle EXCEPT !.pc = "pause", !.todo = Groups])
    /\ UNCHANGED <<mails, claims, paid, cause, accepted, aborts>>

NobodyAskedByKey(g) == PauseKey(g) \notin claims

NobodyAsked(g) == g.files \cap Notified = {} /\ PauseKey(g) \notin claims

(* writes a draft for each, and queues it if nobody has been asked meanwhile. *)
QueuePause(t, g) ==
    /\ Doing(t, "pause") /\ g \in act[t].todo
    /\ IF NobodyAsked(g)
       THEN /\ Uncommon < MaxMails
            /\ claims' = claims \cup {PauseKey(g)}
            /\ Queue(NewMail("pause_review", None, g.files, g.cause, FALSE))
       ELSE UNCHANGED <<claims, mails, accepted>>
    /\ Become(t, Rest(t, g))
    /\ UNCHANGED <<paid, cause, aborts>>

PausesEnd(t) ==
    /\ Doing(t, "pause") /\ act[t].todo = {}
    /\ Become(t, Idle)
    /\ UNCHANGED <<mails, claims, paid, cause, accepted, aborts>>

-----------------------------------------------------------------------------
(* The process dies or a transaction raises: what is committed stays. *)
Abort(t) ==
    /\ ~Doing(t, "idle")
    /\ aborts < MaxAborts
    /\ aborts' = aborts + 1
    /\ Become(t, Idle)
    /\ UNCHANGED <<mails, claims, paid, cause, accepted>>

Work(t) ==
    \/ Flush(t) \/ FlushEnds(t) \/ NoticesEnd(t) \/ Send(t) \/ Record(t)
    \/ \E m \in DOMAIN mails : MissingRecipient(t, m) \/ ClaimDispatch(t, m) \/ Skip(t, m)
    \/ \E p \in Payments : QueueNotice(t, p)

Alberto(t) ==
    \/ \E p \in Payments : Approve(t, p)
    \/ NotifyBlocked(t) \/ PausesEnd(t)
    \/ \E g \in act[t].todo : QueuePause(t, g)

Next ==
    \/ \E t \in Threads : Work(t) \/ Alberto(t) \/ Abort(t)
    \/ \E missing \in BOOLEAN : QueueEmail(missing)
    \/ \E m \in DOMAIN mails : Release(m) \/ CancelEmail(m)
    \/ \E f \in Files : Reconsider(f)

Spec == Init /\ [][Next]_vars

(* The worker loops for as long as the process lives, sockets time out     *)
(* after TIMEOUT seconds, and every hold passes.  Nothing is asked of the   *)
(* HTTP threads or of Alberto.                                              *)
FairSpec ==
    /\ Spec
    /\ WF_vars(Work(Worker))
    /\ \A m \in 1..(MaxMails + Cardinality(Payments)) : WF_vars(m \in DOMAIN mails /\ Release(m))

-----------------------------------------------------------------------------
(* Properties *)

(* No mail is accepted twice by a server, whoever flushes at the same time  *)
(* and wherever a thread dies: the dispatch is claimed before the network.  *)
AcceptedOnce == \A m \in DOMAIN mails : accepted[m] <= 1

(* What the ledger says of a mail is true: one recorded as sent was         *)
(* accepted, one recorded as failed or cancelled was not and never will be, *)
(* whichever thread has claimed it in between.                              *)
OutcomeIsHonest ==
    \A m \in DOMAIN mails :
        /\ Has(m, "sent") => accepted[m] = 1
        /\ Has(m, "failed") \/ Has(m, "cancelled") => accepted[m] = 0

(* The same of failures alone, which does not hold once the server may      *)
(* answer anything to QUIT (QuitRefused): mail.send should mark as          *)
(* uncertain every failure after which the message may have been accepted.  *)
FailedWasNotAccepted == \A m \in DOMAIN mails : Has(m, "failed") => accepted[m] = 0

(* One notice for a payment, however approvals and recoveries race, crash   *)
(* and cancel: and a claimed notice is in the outbox, never half-written.   *)
OneNoticePerPayment ==
    \A p \in Payments :
        Cardinality({m \in DOMAIN mails : mails[m].payment = p})
            = IF NoticeKey(p) \in claims THEN 1 ELSE 0

(* An invoice is in one live pause notice at most, though the groups were   *)
(* decided long before their transactions.                                  *)
AskedOnce ==
    \A m, n \in Pauses :
        ~Has(m, "cancelled") /\ ~Has(n, "cancelled") /\ mails[m].files \cap mails[n].files # {} => m = n

(* "Covering only the files nobody has been asked about yet": the group     *)
(* that such files form now can always be asked.                            *)
UnaskedCanBeAsked == \A g \in Groups : PauseKey(g) \notin claims

(* Every payment gets its notice, even when the thread that approved it     *)
(* died before writing it.                                                  *)
EveryPaymentNotified ==
    \A p \in Payments : p \in paid ~> \E m \in DOMAIN mails : mails[m].payment = p

(* Every mail leaves the queue: it is cancelled, reported as without        *)
(* recipient, or its dispatch starts.                                       *)
EveryMailLeaves ==
    \A m \in 1..(MaxMails + Cardinality(Payments)) :
        m \in DOMAIN mails ~> m \in DOMAIN mails /\ mails[m].events # {}
=============================================================================
