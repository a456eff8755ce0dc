-------------------------- MODULE DeskOutboxProofs --------------------------
(***************************************************************************)
(* Proofs about the outgoing mail of the desk, for any number of threads,  *)
(* payments, invoices and rules, without the bounds of the runs.           *)
(***************************************************************************)
EXTENDS DeskOutbox, SequenceTheorems, FiniteSetTheorems, TLAPS

-----------------------------------------------------------------------------
(* The inductive invariant *)

MailEvents == {"started", "sent", "uncertain", "failed", "cancelled"}

Mail == [template : {"direct", "payment_notice", "pause_review"},
         payment : Payments \cup {None}, files : SUBSET Files, cause : Causes \cup {None},
         missing_recipient : BOOLEAN, released : BOOLEAN, events : SUBSET MailEvents]

Group == [cause : Causes, files : SUBSET Files]

Reading == [pc : {"idle", "flush", "send", "record"}, todo : SUBSET Nat,
            at : Nat \cup {None}, result : {"sent", "uncertain", "failed", None}]
Noticing == [pc : {"notices"}, todo : SUBSET Payments, at : {None}, result : {None}]
Pausing == [pc : {"pause"}, todo : SUBSET Group, at : {None}, result : {None}]

(* The rows of the ledger, and what a thread may have on its list. *)
TypeOK ==
    /\ mails \in Seq(Mail)
    /\ accepted \in Seq(Nat) /\ Len(accepted) = Len(mails)
    /\ paid \subseteq Payments
    /\ cause \in [Files -> Causes \cup {None}]
    /\ act \in [Threads -> Reading \cup Noticing \cup Pausing]
    /\ aborts \in Nat

Dispatching(t) == act[t].pc \in {"send", "record"}

(* A mail between its claim and its outcome belongs to one thread, and no   *)
(* other transaction touches it: Alberto can no longer cancel it.           *)
InFlight ==
    /\ \A t \in Threads : Dispatching(t) =>
          /\ act[t].at \in DOMAIN mails
          /\ mails[act[t].at].events = {"started"}
    /\ \A t, u \in Threads :
          Dispatching(t) /\ Dispatching(u) /\ act[t].at = act[u].at => t = u

(* What the thread that holds a mail knows of the server's answer *)
AnswerKnown ==
    \A t \in Threads :
        /\ act[t].pc = "send" => accepted[act[t].at] = 0
        /\ act[t].pc = "record" =>
              /\ act[t].result \in {"sent", "uncertain", "failed"}
              /\ act[t].result = "sent" => accepted[act[t].at] = 1
              /\ act[t].result = "failed" /\ ~QuitRefused => accepted[act[t].at] = 0

(* What the events of a mail say of it, whatever becomes of the threads *)
MailKept(m) ==
    /\ accepted[m] \in {0, 1}
    /\ Has(m, "started") => EmailKey(m) \in claims
    /\ ~Has(m, "started") => accepted[m] = 0
    /\ Has(m, "started") /\ Has(m, "cancelled") => Has(m, "failed")
    /\ Has(m, "sent") => accepted[m] = 1
    /\ Has(m, "failed") /\ ~QuitRefused => accepted[m] = 0

MailsKept == \A m \in DOMAIN mails : MailKept(m)

(* A notice is claimed and queued in one transaction, for one payment. *)
NoticesKept ==
    \A p \in Payments :
        /\ NoticeKey(p) \in claims <=> \E m \in DOMAIN mails : mails[m].payment = p
        /\ \A m, n \in DOMAIN mails : mails[m].payment = p /\ mails[n].payment = p => m = n

OutboxInv == TypeOK /\ InFlight /\ AnswerKnown /\ MailsKept /\ NoticesKept /\ AskedOnce

-----------------------------------------------------------------------------
(* What a transaction does to the mails *)

LEMMA MailFields ==
    ASSUME TypeOK, NEW m \in DOMAIN mails
    PROVE  /\ mails[m] \in Mail /\ accepted[m] \in Nat
           /\ m \in Nat
           /\ DOMAIN accepted = DOMAIN mails
BY DEF TypeOK

LEMMA Replaced ==
    ASSUME NEW S, NEW s \in Seq(S), NEW i \in DOMAIN s, NEW x \in S
    PROVE  LET new == [s EXCEPT ![i] = x]
           IN  /\ new \in Seq(S) /\ Len(new) = Len(s) /\ DOMAIN new = DOMAIN s
               /\ \A k \in DOMAIN s : new[k] = IF k = i THEN x ELSE s[k]
OBVIOUS

(* An event is added to one mail, and nothing else changes in any. *)
LEMMA EventAdded ==
    ASSUME TypeOK, NEW m \in DOMAIN mails, NEW e \in MailEvents, mails' = WithEvent(m, e)
    PROVE  /\ mails' \in Seq(Mail)
           /\ Len(mails') = Len(mails)
           /\ DOMAIN mails' = DOMAIN mails
           /\ \A k \in DOMAIN mails :
                 /\ mails'[k].events = IF k = m THEN mails[k].events \cup {e} ELSE mails[k].events
                 /\ mails'[k].payment = mails[k].payment
                 /\ mails'[k].template = mails[k].template
                 /\ mails'[k].files = mails[k].files
<1>1. mails \in Seq(Mail) /\ mails[m] \in Mail
  BY DEF TypeOK
<1> DEFINE mail == [mails[m] EXCEPT !.events = @ \cup {e}]
<1>2. mail \in Mail /\ mail.events = mails[m].events \cup {e} /\ mail.payment = mails[m].payment
      /\ mail.template = mails[m].template /\ mail.files = mails[m].files
  BY <1>1 DEF Mail
<1>3. mails' = [mails EXCEPT ![m] = mail]
  BY DEF WithEvent
<1> HIDE DEF mail
<1>4. /\ mails' \in Seq(Mail) /\ Len(mails') = Len(mails) /\ DOMAIN mails' = DOMAIN mails
      /\ \A k \in DOMAIN mails : mails'[k] = IF k = m THEN mail ELSE mails[k]
  BY <1>1, <1>2, <1>3, Replaced
<1> QED BY <1>2, <1>4

LEMMA Released ==
    ASSUME TypeOK, NEW m \in DOMAIN mails, Release(m)
    PROVE  /\ mails' \in Seq(Mail)
           /\ Len(mails') = Len(mails)
           /\ DOMAIN mails' = DOMAIN mails
           /\ \A k \in DOMAIN mails :
                 /\ mails'[k].events = mails[k].events
                 /\ mails'[k].payment = mails[k].payment
                 /\ mails'[k].template = mails[k].template
                 /\ mails'[k].files = mails[k].files
<1>1. mails \in Seq(Mail) /\ mails[m] \in Mail
  BY DEF TypeOK
<1> DEFINE mail == [mails[m] EXCEPT !.released = TRUE]
<1>2. mail \in Mail /\ mail.events = mails[m].events /\ mail.payment = mails[m].payment
      /\ mail.template = mails[m].template /\ mail.files = mails[m].files
  BY <1>1 DEF Mail
<1>3. mails' = [mails EXCEPT ![m] = mail]
  BY DEF Release
<1> HIDE DEF mail
<1>4. /\ mails' \in Seq(Mail) /\ Len(mails') = Len(mails) /\ DOMAIN mails' = DOMAIN mails
      /\ \A k \in DOMAIN mails : mails'[k] = IF k = m THEN mail ELSE mails[k]
  BY <1>1, <1>2, <1>3, Replaced
<1> QED BY <1>2, <1>4

(* A mail is queued at the end, and the earlier ones stay as they were. *)
LEMMA Queued ==
    ASSUME TypeOK, NEW mail \in Mail, Queue(mail)
    PROVE  /\ mails' \in Seq(Mail) /\ accepted' \in Seq(Nat)
           /\ Len(mails') = Len(mails) + 1 /\ Len(accepted') = Len(mails) + 1
           /\ DOMAIN mails' = DOMAIN mails \cup {Len(mails) + 1}
           /\ Len(mails) + 1 \notin DOMAIN mails
           /\ \A k \in DOMAIN mails : mails'[k] = mails[k] /\ accepted'[k] = accepted[k]
           /\ mails'[Len(mails) + 1] = mail /\ accepted'[Len(mails) + 1] = 0
BY DEF TypeOK, Queue

(* The keys of the idempotency table tell their subjects apart. *)
LEMMA Keys ==
    /\ \A m, n : EmailKey(m) = EmailKey(n) => m = n
    /\ \A p, q : NoticeKey(p) = NoticeKey(q) => p = q
    /\ \A m, p : EmailKey(m) # NoticeKey(p)
    /\ \A m, g : EmailKey(m) # PauseKey(g)
    /\ \A p, g : NoticeKey(p) # PauseKey(g)
BY DEF EmailKey, NoticeKey, PauseKey

-----------------------------------------------------------------------------
(* Steps of a thread that leave the mails alone *)

Undispatched == {s \in Reading \cup Noticing \cup Pausing : s.pc \notin {"send", "record"}}

Aside(t) ==
    /\ \E s \in Undispatched : act' = [act EXCEPT ![t] = s]
    /\ UNCHANGED <<mails, claims, accepted, cause>>
    /\ paid' \subseteq Payments
    /\ aborts' \in Nat

(* The thread that takes up, crosses off or drops a list *)
LEMMA AsideSteps ==
    ASSUME TypeOK, NEW t \in Threads,
           \/ Flush(t) \/ FlushEnds(t) \/ NoticesEnd(t) \/ NotifyBlocked(t) \/ PausesEnd(t) \/ Abort(t)
           \/ \E p \in Payments : Approve(t, p)
           \/ \E m \in DOMAIN mails : Skip(t, m)
    PROVE  Aside(t)
<1>1. act[t] \in Reading \cup Noticing \cup Pausing
  BY DEF TypeOK
<1>2. Idle \in Undispatched
  BY DEF Idle, Undispatched, Reading
<1>3. CASE Flush(t)
  <2>1. ToFlush \in SUBSET Nat
    BY DEF ToFlush, Outbox, TypeOK
  <2>2. [Idle EXCEPT !.pc = "flush", !.todo = ToFlush] \in Undispatched
    BY <2>1 DEF Idle, Undispatched, Reading
  <2> QED BY <1>3, <2>2 DEF Flush, Become, Aside, TypeOK
<1>4. CASE FlushEnds(t)
  <2>1. paid \in SUBSET Payments
    BY DEF TypeOK
  <2>2. [Idle EXCEPT !.pc = "notices", !.todo = paid] \in Undispatched
    BY <2>1 DEF Idle, Undispatched, Noticing
  <2> QED BY <1>2, <1>4, <2>2 DEF FlushEnds, ToRecover, Become, Aside, TypeOK
<1>5. CASE NoticesEnd(t) \/ PausesEnd(t)
  BY <1>2, <1>5 DEF NoticesEnd, PausesEnd, Become, Aside, TypeOK
<1>6. CASE NotifyBlocked(t)
  <2>1. Groups \in SUBSET Group
    <3>1. \A c \in Causes : GroupOf(c) \in Group
      BY DEF GroupOf, Group
    <3> QED BY <3>1 DEF Groups
  <2>2. [Idle EXCEPT !.pc = "pause", !.todo = Groups] \in Undispatched
    BY <2>1 DEF Idle, Undispatched, Pausing
  <2> QED BY <1>6, <2>2 DEF NotifyBlocked, Become, Aside, TypeOK
<1>7. CASE Abort(t)
  <2>1. aborts' \in Nat /\ paid' \subseteq Payments
    BY <1>7 DEF Abort, TypeOK
  <2> QED BY <1>2, <1>7, <2>1 DEF Abort, Become, Aside
<1>8. ASSUME NEW p \in Payments, Approve(t, p) PROVE Aside(t)
  <2>1. [Idle EXCEPT !.pc = "notices", !.todo = {p}] \in Undispatched
    BY DEF Idle, Undispatched, Noticing
  <2> QED BY <1>8, <2>1 DEF Approve, Become, Aside, TypeOK
<1>9. ASSUME NEW m \in DOMAIN mails, Skip(t, m) PROVE Aside(t)
  <2>1. Rest(t, m) \in Undispatched
    BY <1>1, <1>9 DEF Skip, Turn, Doing, Rest, Undispatched, Reading, Noticing, Pausing
  <2> QED BY <1>9, <2>1 DEF Skip, Become, Aside, TypeOK
<1> QED BY <1>3, <1>4, <1>5, <1>6, <1>7, <1>8, <1>9

LEMMA AsideKeeps ==
    ASSUME OutboxInv, NEW t \in Threads, Aside(t)
    PROVE  OutboxInv'
<1>1. PICK s \in Undispatched : act' = [act EXCEPT ![t] = s]
  BY DEF Aside
<1>2. /\ act \in [Threads -> Reading \cup Noticing \cup Pausing] /\ s.pc \notin {"send", "record"}
      /\ s \in Reading \cup Noticing \cup Pausing
  BY DEF OutboxInv, TypeOK, Undispatched
<1>3. act'[t] = s /\ \A u \in Threads : u # t => act'[u] = act[u]
  BY <1>1, <1>2
<1>4. TypeOK'
  BY <1>1, <1>2 DEF OutboxInv, TypeOK, Aside
<1>5. InFlight'
  BY <1>2, <1>3 DEF OutboxInv, InFlight, Dispatching, Aside
<1>6. AnswerKnown'
  BY <1>2, <1>3 DEF OutboxInv, AnswerKnown, Aside
<1>7. MailsKept' /\ NoticesKept' /\ AskedOnce'
  BY DEF OutboxInv, MailsKept, MailKept, Has, NoticesKept, AskedOnce, Pauses, Aside
<1> QED BY <1>4, <1>5, <1>6, <1>7 DEF OutboxInv

-----------------------------------------------------------------------------
(* Steps that queue a mail *)

(* A new mail is in nobody's hands and has no event. *)
QueuesMail(mail) ==
    /\ mail \in Mail /\ mail.events = {}
    /\ Queue(mail)
    /\ claims \subseteq claims'
    /\ \A m : EmailKey(m) \in claims' => EmailKey(m) \in claims
    /\ act' \in [Threads -> Reading \cup Noticing \cup Pausing]
    /\ \A t \in Threads : Dispatching(t) \/ Dispatching(t)' => act'[t] = act[t]
    /\ UNCHANGED <<paid, cause, aborts>>

LEMMA QueueKeeps ==
    ASSUME OutboxInv, NEW mail, QueuesMail(mail)
    PROVE  TypeOK' /\ InFlight' /\ AnswerKnown' /\ MailsKept'
<1>1. /\ mails' \in Seq(Mail) /\ accepted' \in Seq(Nat)
      /\ Len(mails') = Len(mails) + 1 /\ Len(accepted') = Len(mails) + 1
      /\ DOMAIN mails' = DOMAIN mails \cup {Len(mails) + 1}
      /\ Len(mails) + 1 \notin DOMAIN mails
      /\ \A k \in DOMAIN mails : mails'[k] = mails[k] /\ accepted'[k] = accepted[k]
      /\ mails'[Len(mails) + 1] = mail /\ accepted'[Len(mails) + 1] = 0
  BY Queued DEF OutboxInv, QueuesMail
<1>2. TypeOK'
  BY <1>1 DEF OutboxInv, TypeOK, QueuesMail
<1>3. \A t \in Threads : Dispatching(t)' => act'[t] = act[t] /\ Dispatching(t)
  BY DEF QueuesMail, Dispatching
<1>4. InFlight'
  BY <1>1, <1>3 DEF OutboxInv, InFlight, Dispatching
<1>5. AnswerKnown'
  <2>1. ASSUME NEW t \in Threads, act'[t].pc \in {"send", "record"}
        PROVE  act'[t] = act[t] /\ accepted'[act[t].at] = accepted[act[t].at]
    BY <1>1, <1>3, <2>1 DEF OutboxInv, InFlight, Dispatching
  <2> QED BY <2>1 DEF OutboxInv, AnswerKnown
<1>6. MailsKept'
  <2>1. ASSUME NEW m \in DOMAIN mails PROVE MailKept(m)'
    BY <1>1 DEF OutboxInv, MailsKept, MailKept, Has, QueuesMail
  <2>2. ASSUME NEW m, m = Len(mails) + 1 PROVE MailKept(m)'
    <3>1. accepted'[m] = 0 /\ mails'[m].events = {}
      BY <1>1, <2>2 DEF QueuesMail
    <3> QED BY <3>1 DEF MailKept, Has
  <2> QED BY <1>1, <2>1, <2>2 DEF MailsKept
<1> QED BY <1>2, <1>4, <1>5, <1>6

LEMMA QueueEmailKeeps ==
    ASSUME OutboxInv, NEW missing \in BOOLEAN, QueueEmail(missing)
    PROVE  OutboxInv'
<1> DEFINE mail == NewMail("direct", None, {}, None, missing)
<1>1. mail \in Mail /\ mail.events = {} /\ mail.payment = None /\ mail.template = "direct"
  BY DEF NewMail, Mail
<1>2. Queue(mail)
  BY DEF QueueEmail
<1> HIDE DEF mail
<1>3. QueuesMail(mail)
  BY <1>1, <1>2 DEF QueueEmail, QueuesMail, OutboxInv, TypeOK, Dispatching
<1>4. /\ DOMAIN mails' = DOMAIN mails \cup {Len(mails) + 1}
      /\ \A k \in DOMAIN mails : mails'[k] = mails[k]
      /\ mails'[Len(mails) + 1] = mail
  BY <1>1, <1>2, Queued DEF OutboxInv
<1>5. NoticesKept'
  BY <1>1, <1>4, OutboxAssumption DEF OutboxInv, NoticesKept, QueueEmail
<1>6. AskedOnce'
  BY <1>1, <1>4 DEF OutboxInv, AskedOnce, Pauses, Has
<1> QED BY <1>3, <1>5, <1>6, QueueKeeps DEF OutboxInv

LEMMA QueueNoticeKeeps ==
    ASSUME OutboxInv, NEW t \in Threads, NEW p \in Payments, QueueNotice(t, p)
    PROVE  OutboxInv'
<1>1. act[t] \in Noticing /\ Rest(t, p) \in Undispatched /\ act' = [act EXCEPT ![t] = Rest(t, p)]
  BY DEF OutboxInv, TypeOK, QueueNotice, Doing, Become, Rest, Undispatched, Reading, Noticing, Pausing
<1>2. CASE ~NoticeDue(p)
  <2>1. Aside(t)
    BY <1>1, <1>2 DEF QueueNotice, Aside, OutboxInv, TypeOK
  <2> QED BY <2>1, AsideKeeps
<1>3. CASE NoticeDue(p)
  <2> DEFINE mail == NewMail("payment_notice", p, {}, None, FALSE)
  <2>1. /\ mail \in Mail /\ mail.events = {} /\ mail.payment = p
        /\ mail.template = "payment_notice"
    BY DEF NewMail, Mail
  <2>2. Queue(mail) /\ claims' = claims \cup {NoticeKey(p)}
    BY <1>3 DEF QueueNotice
  <2> HIDE DEF mail
  <2>3. act' \in [Threads -> Reading \cup Noticing \cup Pausing]
    BY <1>1 DEF OutboxInv, TypeOK, Undispatched
  <2>4. act[t].pc = "notices" /\ act'[t].pc = "notices"
    BY <1>1 DEF Noticing, Rest, OutboxInv, TypeOK
  <2>5. \A u \in Threads : Dispatching(u) \/ Dispatching(u)' => act'[u] = act[u]
    BY <1>1, <2>4 DEF Dispatching, OutboxInv, TypeOK
  <2>6. QueuesMail(mail)
    BY <2>1, <2>2, <2>3, <2>5, Keys DEF QueueNotice, QueuesMail
  <2>7. /\ DOMAIN mails' = DOMAIN mails \cup {Len(mails) + 1}
        /\ Len(mails) + 1 \notin DOMAIN mails
        /\ \A k \in DOMAIN mails : mails'[k] = mails[k]
        /\ mails'[Len(mails) + 1] = mail
    BY <2>1, <2>2, Queued DEF OutboxInv
  <2>8. \A m \in DOMAIN mails : mails[m].payment # p
    BY <1>3 DEF OutboxInv, NoticesKept, NoticeDue
  <2>9. NoticesKept'
    <3> SUFFICES ASSUME NEW q \in Payments
                 PROVE  /\ NoticeKey(q) \in claims' <=> \E m \in DOMAIN mails' : mails'[m].payment = q
                        /\ \A m, n \in DOMAIN mails' :
                              mails'[m].payment = q /\ mails'[n].payment = q => m = n
      BY DEF NoticesKept, NoticeKey
    <3>1. CASE q = p
      BY <2>1, <2>2, <2>7, <2>8, <3>1
    <3>2. CASE q # p
      BY <2>1, <2>2, <2>7, <3>2, Keys DEF OutboxInv, NoticesKept
    <3> QED BY <3>1, <3>2
  <2>10. AskedOnce'
    BY <2>1, <2>7 DEF OutboxInv, AskedOnce, Pauses, Has
  <2> QED BY <2>6, <2>9, <2>10, QueueKeeps DEF OutboxInv
<1> QED BY <1>2, <1>3

LEMMA QueuePauseKeeps ==
    ASSUME OutboxInv, NEW t \in Threads, NEW g \in act[t].todo, QueuePause(t, g)
    PROVE  OutboxInv'
<1>1. act[t] \in Pausing /\ Rest(t, g) \in Undispatched /\ act' = [act EXCEPT ![t] = Rest(t, g)]
  BY DEF OutboxInv, TypeOK, QueuePause, Doing, Become, Rest, Undispatched, Reading, Noticing, Pausing
<1>2. CASE ~NobodyAsked(g)
  <2>1. Aside(t)
    BY <1>1, <1>2 DEF QueuePause, Aside, OutboxInv, TypeOK
  <2> QED BY <2>1, AsideKeeps
<1>3. CASE NobodyAsked(g)
  <2> DEFINE mail == NewMail("pause_review", None, g.files, g.cause, FALSE)
  <2>1. /\ mail \in Mail /\ mail.events = {} /\ mail.payment = None
        /\ mail.template = "pause_review" /\ mail.files = g.files
    BY <1>1 DEF NewMail, Mail, Pausing, Group
  <2>2. Queue(mail) /\ claims' = claims \cup {PauseKey(g)}
    BY <1>3 DEF QueuePause
  <2> HIDE DEF mail
  <2>3. act' \in [Threads -> Reading \cup Noticing \cup Pausing]
    BY <1>1 DEF OutboxInv, TypeOK, Undispatched
  <2>4. act[t].pc = "pause" /\ act'[t].pc = "pause"
    BY <1>1 DEF Pausing, Rest, OutboxInv, TypeOK
  <2>5. \A u \in Threads : Dispatching(u) \/ Dispatching(u)' => act'[u] = act[u]
    BY <1>1, <2>4 DEF Dispatching, OutboxInv, TypeOK
  <2>6. QueuesMail(mail)
    BY <2>1, <2>2, <2>3, <2>5, Keys DEF QueuePause, QueuesMail
  <2>7. /\ DOMAIN mails' = DOMAIN mails \cup {Len(mails) + 1}
        /\ Len(mails) + 1 \notin DOMAIN mails
        /\ \A k \in DOMAIN mails : mails'[k] = mails[k]
        /\ mails'[Len(mails) + 1] = mail
    BY <2>1, <2>2, Queued DEF OutboxInv
  <2>8. NoticesKept'
    <3>1. \A q \in Payments : NoticeKey(q) \in claims' <=> NoticeKey(q) \in claims
      BY <2>2, Keys
    <3>2. SUFFICES ASSUME NEW q \in Payments
                   PROVE  /\ NoticeKey(q) \in claims' <=> \E m \in DOMAIN mails' : mails'[m].payment = q
                          /\ \A m, n \in DOMAIN mails' :
                                mails'[m].payment = q /\ mails'[n].payment = q => m = n
      BY DEF NoticesKept, NoticeKey
    <3>3. q # None
      BY OutboxAssumption
    <3> QED BY <2>1, <2>7, <3>1, <3>3 DEF OutboxInv, NoticesKept
  <2>9. \A m \in Pauses : ~Has(m, "cancelled") => mails[m].files \cap g.files = {}
    BY <1>3 DEF NobodyAsked, Notified
  <2>10. AskedOnce'
    BY <2>1, <2>7, <2>9 DEF OutboxInv, AskedOnce, Pauses, Has
  <2> QED BY <2>6, <2>8, <2>10, QueueKeeps DEF OutboxInv
<1> QED BY <1>2, <1>3

-----------------------------------------------------------------------------
(* Steps that change a mail *)

(* Neither the payment nor the invoices of a mail change with its events,   *)
(* and a cancelled mail stays so.                                           *)
SameMails ==
    /\ DOMAIN mails' = DOMAIN mails
    /\ \A k \in DOMAIN mails :
          /\ mails'[k].payment = mails[k].payment
          /\ mails'[k].template = mails[k].template
          /\ mails'[k].files = mails[k].files
          /\ mails[k].events \subseteq mails'[k].events

LEMMA SameMailsKeep ==
    ASSUME OutboxInv, SameMails, \A p : NoticeKey(p) \in claims' <=> NoticeKey(p) \in claims
    PROVE  NoticesKept' /\ AskedOnce'
<1>1. NoticesKept'
  <2> SUFFICES ASSUME NEW p \in Payments
               PROVE  /\ NoticeKey(p) \in claims' <=> \E m \in DOMAIN mails' : mails'[m].payment = p
                      /\ \A m, n \in DOMAIN mails' :
                            mails'[m].payment = p /\ mails'[n].payment = p => m = n
    BY DEF NoticesKept, NoticeKey
  <2>1. /\ NoticeKey(p) \in claims <=> \E m \in DOMAIN mails : mails[m].payment = p
        /\ \A m, n \in DOMAIN mails : mails[m].payment = p /\ mails[n].payment = p => m = n
    BY DEF OutboxInv, NoticesKept
  <2>2. NoticeKey(p) \in claims' <=> NoticeKey(p) \in claims
    OBVIOUS
  <2> QED BY <2>1, <2>2 DEF SameMails
<1>2. AskedOnce'
  BY DEF OutboxInv, AskedOnce, Pauses, Has, SameMails
<1> QED BY <1>1, <1>2

LEMMA ReleaseKeeps ==
    ASSUME OutboxInv, NEW m \in DOMAIN mails, Release(m)
    PROVE  OutboxInv'
<1>1. /\ mails' \in Seq(Mail) /\ Len(mails') = Len(mails)
      /\ SameMails
      /\ \A k \in DOMAIN mails : mails'[k].events = mails[k].events
  BY Released DEF OutboxInv, SameMails
<1>2. UNCHANGED <<claims, paid, cause, act, accepted, aborts>>
  BY DEF Release
<1>3. TypeOK'
  BY <1>1, <1>2 DEF OutboxInv, TypeOK
<1>4. InFlight' /\ AnswerKnown'
  BY <1>1, <1>2 DEF OutboxInv, InFlight, AnswerKnown, Dispatching, SameMails
<1>5. MailsKept'
  BY <1>1, <1>2 DEF OutboxInv, MailsKept, MailKept, Has, SameMails
<1> QED BY <1>1, <1>2, <1>3, <1>4, <1>5, SameMailsKeep DEF OutboxInv

LEMMA CancelKeeps ==
    ASSUME OutboxInv, NEW m \in DOMAIN mails, CancelEmail(m)
    PROVE  OutboxInv'
<1>1. "cancelled" \in MailEvents /\ mails' = WithEvent(m, "cancelled")
  BY DEF MailEvents, CancelEmail
<1>2. /\ mails' \in Seq(Mail) /\ Len(mails') = Len(mails)
      /\ SameMails
      /\ \A k \in DOMAIN mails :
            mails'[k].events = IF k = m THEN mails[k].events \cup {"cancelled"} ELSE mails[k].events
  BY <1>1, EventAdded DEF OutboxInv, SameMails
<1>3. UNCHANGED <<claims, paid, cause, act, accepted, aborts>>
  BY DEF CancelEmail
<1>4. TypeOK'
  BY <1>2, <1>3 DEF OutboxInv, TypeOK
<1>5. \A t \in Threads : Dispatching(t) => act[t].at # m
  BY DEF OutboxInv, InFlight, CancelEmail, Cancellable, Has
<1>6. InFlight'
  BY <1>2, <1>3, <1>5 DEF OutboxInv, InFlight, Dispatching, SameMails
<1>7. AnswerKnown'
  BY <1>3 DEF OutboxInv, AnswerKnown
<1>8. MailsKept'
  <2>1. ASSUME NEW k \in DOMAIN mails PROVE MailKept(k)'
    <3>1. MailKept(k)
      BY DEF OutboxInv, MailsKept
    <3>2. \A e : Has(k, e)' <=> Has(k, e) \/ (k = m /\ e = "cancelled")
      <4>1. mails'[k].events = IF k = m THEN mails[k].events \cup {"cancelled"} ELSE mails[k].events
        BY <1>2
      <4> QED BY <4>1 DEF Has
    <3>3. accepted'[k] = accepted[k] /\ (EmailKey(k) \in claims)' = (EmailKey(k) \in claims)
      BY <1>3 DEF EmailKey
    <3>4. k = m /\ Has(k, "started") => Has(k, "failed")
      BY DEF CancelEmail, Cancellable
    <3> QED BY <3>1, <3>2, <3>3, <3>4 DEF MailKept
  <2> QED BY <1>2, <2>1 DEF MailsKept, SameMails
<1> QED BY <1>2, <1>3, <1>4, <1>6, <1>7, <1>8, SameMailsKeep DEF OutboxInv

(* The key of a mail that misses its recipient is claimed before any        *)
(* dispatch, so the failure it records is final.                            *)
LEMMA MissingRecipientKeeps ==
    ASSUME OutboxInv, NEW t \in Threads, NEW m \in DOMAIN mails, MissingRecipient(t, m)
    PROVE  OutboxInv'
<1>1. "failed" \in MailEvents /\ mails' = WithEvent(m, "failed")
  BY DEF MailEvents, MissingRecipient
<1>2. /\ mails' \in Seq(Mail) /\ Len(mails') = Len(mails)
      /\ SameMails
      /\ \A k \in DOMAIN mails :
            mails'[k].events = IF k = m THEN mails[k].events \cup {"failed"} ELSE mails[k].events
  BY <1>1, EventAdded DEF OutboxInv, SameMails
<1>3. /\ UNCHANGED <<paid, cause, accepted, aborts>>
      /\ claims' = claims \cup {EmailKey(m)} /\ EmailKey(m) \notin claims
  BY DEF MissingRecipient
<1>4. Rest(t, m) \in Undispatched /\ act' = [act EXCEPT ![t] = Rest(t, m)] /\ ~Dispatching(t)
  BY DEF OutboxInv, TypeOK, MissingRecipient, Turn, Doing, Become, Rest, Dispatching,
         Undispatched, Reading, Noticing, Pausing
<1>5. \A u \in Threads : Dispatching(u)' => act'[u] = act[u] /\ Dispatching(u)
  BY <1>4 DEF Undispatched, Dispatching, OutboxInv, TypeOK
<1>6. TypeOK'
  BY <1>2, <1>3, <1>4 DEF OutboxInv, TypeOK, Undispatched
<1>7. ~Has(m, "started")
  BY <1>3 DEF OutboxInv, MailsKept, MailKept
<1>8. \A u \in Threads : Dispatching(u) => act[u].at # m
  BY <1>7 DEF OutboxInv, InFlight, Has
<1>9. InFlight'
  <2>1. ASSUME NEW u \in Threads, Dispatching(u)'
        PROVE  act'[u].at \in DOMAIN mails' /\ mails'[act'[u].at].events = {"started"}
    BY ZenonT(60), <1>2, <1>5, <1>8, <2>1 DEF OutboxInv, InFlight, SameMails
  <2>2. \A u, w \in Threads :
           Dispatching(u)' /\ Dispatching(w)' /\ act'[u].at = act'[w].at => u = w
    BY <1>5 DEF OutboxInv, InFlight
  <2> QED BY <2>1, <2>2 DEF InFlight
<1>10. AnswerKnown'
  BY <1>3, <1>5 DEF OutboxInv, AnswerKnown, Dispatching
<1>11. MailsKept'
  <2>1. ASSUME NEW k \in DOMAIN mails PROVE MailKept(k)'
    <3>1. MailKept(k)
      BY DEF OutboxInv, MailsKept
    <3>2. \A e : Has(k, e)' <=> Has(k, e) \/ (k = m /\ e = "failed")
      <4>1. mails'[k].events = IF k = m THEN mails[k].events \cup {"failed"} ELSE mails[k].events
        BY <1>2
      <4> QED BY <4>1 DEF Has
    <3>3. accepted'[k] = accepted[k] /\ (EmailKey(k) \in claims => (EmailKey(k) \in claims)')
      BY <1>3 DEF EmailKey
    <3> QED BY <1>7, <3>1, <3>2, <3>3 DEF MailKept
  <2> QED BY <1>2, <2>1 DEF MailsKept, SameMails
<1> QED BY <1>2, <1>3, <1>6, <1>9, <1>10, <1>11, Keys, SameMailsKeep DEF OutboxInv

(* The claim makes the mail this thread's. *)
LEMMA ClaimDispatchKeeps ==
    ASSUME OutboxInv, NEW t \in Threads, NEW m \in DOMAIN mails, ClaimDispatch(t, m)
    PROVE  OutboxInv'
<1>1. "started" \in MailEvents /\ mails' = WithEvent(m, "started")
  BY DEF MailEvents, ClaimDispatch, Started
<1>2. /\ mails' \in Seq(Mail) /\ Len(mails') = Len(mails)
      /\ SameMails
      /\ \A k \in DOMAIN mails :
            mails'[k].events = IF k = m THEN mails[k].events \cup {"started"} ELSE mails[k].events
  BY <1>1, EventAdded DEF OutboxInv, SameMails
<1>3. /\ UNCHANGED <<paid, cause, accepted, aborts>>
      /\ claims' = claims \cup {EmailKey(m)} /\ EmailKey(m) \notin claims
      /\ mails[m].events \cap {"cancelled", "sent", "uncertain", "failed"} = {}
  BY DEF ClaimDispatch, Dispatchable
<1> DEFINE s == [Rest(t, m) EXCEPT !.pc = "send", !.at = m]
<1>4. /\ s \in Reading /\ s.pc = "send" /\ s.at = m
      /\ act' = [act EXCEPT ![t] = s] /\ ~Dispatching(t)
  <2>1. m \in Nat
    BY MailFields DEF OutboxInv
  <2>2. act[t] \in Reading /\ act[t].pc = "flush"
    BY DEF OutboxInv, TypeOK, ClaimDispatch, Turn, Doing, Reading, Noticing, Pausing
  <2> QED BY <2>1, <2>2 DEF ClaimDispatch, Become, Rest, Dispatching, Reading
<1> HIDE DEF s
<1>5. act'[t] = s /\ \A u \in Threads : u # t => act'[u] = act[u]
  BY <1>4 DEF OutboxInv, TypeOK
<1>6. TypeOK'
  BY <1>2, <1>3, <1>4 DEF OutboxInv, TypeOK
<1>7. mails'[m].events = {"started"} /\ ~Has(m, "started") /\ accepted[m] = 0
  <2>1. mails[m].events \subseteq MailEvents
    BY MailFields DEF OutboxInv, Mail
  <2>2. MailKept(m)
    BY DEF OutboxInv, MailsKept
  <2>3. ~Has(m, "started") /\ accepted[m] = 0
    BY <1>3, <2>2 DEF MailKept
  <2> QED BY <1>2, <1>3, <2>1, <2>3 DEF MailEvents, Has
<1>8. \A u \in Threads : Dispatching(u) => act[u].at # m
  BY <1>7 DEF OutboxInv, InFlight, Has
<1>9. InFlight'
  <2>1. \A u \in Threads : Dispatching(u)' => u = t \/ (u # t /\ Dispatching(u) /\ act'[u] = act[u])
    BY <1>5 DEF Dispatching
  <2>2. ASSUME NEW u \in Threads, Dispatching(u)'
        PROVE  act'[u].at \in DOMAIN mails' /\ mails'[act'[u].at].events = {"started"}
    <3>1. CASE u = t
      BY <1>2, <1>4, <1>5, <1>7, <3>1 DEF SameMails
    <3>2. CASE u # t
      BY ZenonT(60), <1>2, <1>8, <2>1, <2>2, <3>2 DEF OutboxInv, InFlight, SameMails
    <3> QED BY <3>1, <3>2
  <2>3. ASSUME NEW u \in Threads, NEW w \in Threads, Dispatching(u)', Dispatching(w)',
               act'[u].at = act'[w].at
        PROVE  u = w
    BY <1>4, <1>5, <1>8, <2>1, <2>3 DEF OutboxInv, InFlight
  <2> QED BY <2>2, <2>3 DEF InFlight
<1>10. AnswerKnown'
  BY <1>3, <1>4, <1>5, <1>7 DEF OutboxInv, AnswerKnown
<1>11. MailsKept'
  <2>1. ASSUME NEW k \in DOMAIN mails PROVE MailKept(k)'
    <3>1. MailKept(k)
      BY DEF OutboxInv, MailsKept
    <3>2. \A e : Has(k, e)' <=> Has(k, e) \/ (k = m /\ e = "started")
      <4>1. mails'[k].events = IF k = m THEN mails[k].events \cup {"started"} ELSE mails[k].events
        BY <1>2
      <4> QED BY <4>1 DEF Has
    <3>3. accepted'[k] = accepted[k] /\ (EmailKey(k) \in claims \/ k = m => (EmailKey(k) \in claims)')
      BY <1>3 DEF EmailKey
    <3>4. k = m => ~Has(k, "cancelled")
      BY <1>3 DEF Has
    <3> QED BY <1>7, <3>1, <3>2, <3>3, <3>4 DEF MailKept
  <2> QED BY <1>2, <2>1 DEF MailsKept, SameMails
<1> QED BY <1>2, <1>3, <1>6, <1>9, <1>10, <1>11, Keys, SameMailsKeep DEF OutboxInv

(* The server answers, and only this thread knows. *)
LEMMA SendKeeps ==
    ASSUME OutboxInv, NEW t \in Threads, Send(t)
    PROVE  OutboxInv'
<1> DEFINE m == act[t].at
<1>1. /\ act[t] \in Reading /\ act[t].pc = "send" /\ Dispatching(t)
      /\ m \in DOMAIN mails /\ mails[m].events = {"started"} /\ accepted[m] = 0
  BY DEF OutboxInv, TypeOK, InFlight, AnswerKnown, Dispatching, Send, Doing,
         Reading, Noticing, Pausing
<1>2. PICK o \in Outcomes : /\ accepted' = [accepted EXCEPT ![m] = @ + o.accepted]
                            /\ act' = [act EXCEPT ![t] = [act[t] EXCEPT !.pc = "record", !.result = o.result]]
  BY DEF Send, Become
<1>3. /\ o.accepted \in {0, 1} /\ o.result \in {"sent", "uncertain", "failed"}
      /\ o.result = "sent" => o.accepted = 1
      /\ o.result = "failed" /\ ~QuitRefused => o.accepted = 0
  BY DEF Outcomes
<1>4. UNCHANGED <<mails, claims, paid, cause, aborts>>
  BY DEF Send
<1> DEFINE s == [act[t] EXCEPT !.pc = "record", !.result = o.result]
<1>5. s \in Reading /\ s.pc = "record" /\ s.at = m /\ s.result = o.result
  BY <1>1, <1>3 DEF Reading
<1> HIDE DEF s
<1>6. act' = [act EXCEPT ![t] = s]
  BY <1>2 DEF s
<1>7. act'[t] = s /\ \A u \in Threads : u # t => act'[u] = act[u]
  BY <1>6 DEF OutboxInv, TypeOK
<1>8. /\ accepted' \in Seq(Nat) /\ Len(accepted') = Len(accepted)
      /\ accepted'[m] = o.accepted
      /\ \A k \in DOMAIN mails : k # m => accepted'[k] = accepted[k]
  <2>1. DOMAIN accepted = DOMAIN mails /\ accepted \in Seq(Nat)
    BY <1>1, MailFields DEF OutboxInv, TypeOK
  <2>2. accepted' = [accepted EXCEPT ![m] = o.accepted]
    <3>1. accepted[m] + o.accepted = o.accepted
      BY <1>1, <1>3
    <3> QED BY <1>2, <3>1
  <2>3. m \in DOMAIN accepted /\ o.accepted \in Nat
    BY <1>1, <1>3, <2>1
  <2> HIDE DEF m
  <2> QED BY <2>1, <2>2, <2>3, Replaced
<1>9. TypeOK'
  BY <1>4, <1>5, <1>6, <1>8 DEF OutboxInv, TypeOK
<1>10. InFlight'
  BY <1>1, <1>4, <1>5, <1>7 DEF OutboxInv, InFlight, Dispatching
<1>11. AnswerKnown'
  <2>1. ASSUME NEW u \in Threads, u # t, Dispatching(u)
        PROVE  accepted'[act[u].at] = accepted[act[u].at]
    BY <1>1, <1>8, <2>1 DEF OutboxInv, InFlight
  <2> QED BY <1>3, <1>5, <1>7, <1>8, <2>1 DEF OutboxInv, AnswerKnown, Dispatching
<1>12. MailsKept'
  <2>1. ASSUME NEW k \in DOMAIN mails PROVE MailKept(k)'
    <3>1. MailKept(k)
      BY DEF OutboxInv, MailsKept
    <3> QED BY SMTT(30), <1>1, <1>3, <1>4, <1>8, <3>1 DEF MailKept, Has, EmailKey
  <2> QED BY <1>4, <2>1 DEF MailsKept
<1>13. SameMails
  BY <1>4 DEF SameMails
<1> QED BY <1>4, <1>9, <1>10, <1>11, <1>12, <1>13, SameMailsKeep DEF OutboxInv

(* The outcome joins the events of the mail, which is nobody's again. *)
LEMMA RecordKeeps ==
    ASSUME OutboxInv, NEW t \in Threads, Record(t)
    PROVE  OutboxInv'
<1> DEFINE m == act[t].at
           e == act[t].result
           s == [act[t] EXCEPT !.pc = "flush", !.at = None, !.result = None]
<1>1. /\ act[t] \in Reading /\ act[t].pc = "record" /\ Dispatching(t)
      /\ m \in DOMAIN mails /\ mails[m].events = {"started"}
      /\ e \in {"sent", "uncertain", "failed"}
      /\ e = "sent" => accepted[m] = 1
      /\ e = "failed" /\ ~QuitRefused => accepted[m] = 0
  BY DEF OutboxInv, TypeOK, InFlight, AnswerKnown, Dispatching, Record, Doing,
         Reading, Noticing, Pausing
<1>2. /\ e \in MailEvents /\ mails' = WithEvent(m, e) /\ act' = [act EXCEPT ![t] = s]
      /\ UNCHANGED <<claims, paid, cause, accepted, aborts>>
  BY <1>1 DEF Record, EventOf, Become, MailEvents
<1>3. s \in Reading /\ s.pc = "flush"
  BY <1>1 DEF Reading
<1>4. \A u \in Threads : u # t /\ Dispatching(u) => act[u].at # m
  BY <1>1 DEF OutboxInv, InFlight
<1> HIDE DEF m, e, s
<1>5. /\ mails' \in Seq(Mail) /\ Len(mails') = Len(mails)
      /\ SameMails
      /\ \A k \in DOMAIN mails :
            mails'[k].events = IF k = m THEN mails[k].events \cup {e} ELSE mails[k].events
  BY ZenonT(60), <1>1, <1>2, EventAdded DEF OutboxInv, SameMails
<1>6. act'[t] = s /\ \A u \in Threads : u # t => act'[u] = act[u]
  BY <1>2 DEF OutboxInv, TypeOK
<1>7. TypeOK'
  BY <1>2, <1>3, <1>5 DEF OutboxInv, TypeOK
<1>8. InFlight'
  <2>1. \A u \in Threads : Dispatching(u)' => u # t /\ Dispatching(u) /\ act'[u] = act[u]
    BY <1>3, <1>6 DEF Dispatching
  <2>2. ASSUME NEW u \in Threads, Dispatching(u)'
        PROVE  act'[u].at \in DOMAIN mails' /\ mails'[act'[u].at].events = {"started"}
    <3>1. Dispatching(u) /\ act'[u] = act[u] /\ act[u].at # m
      BY <1>4, <2>1, <2>2
    <3>2. act[u].at \in DOMAIN mails /\ mails[act[u].at].events = {"started"}
      BY <3>1 DEF OutboxInv, InFlight
    <3> QED BY <1>5, <3>1, <3>2 DEF SameMails
  <2>3. \A u, w \in Threads :
           Dispatching(u)' /\ Dispatching(w)' /\ act'[u].at = act'[w].at => u = w
    BY <2>1 DEF OutboxInv, InFlight
  <2> QED BY <2>2, <2>3 DEF InFlight
<1>9. AnswerKnown'
  BY <1>2, <1>3, <1>6 DEF OutboxInv, AnswerKnown
<1>10. MailsKept'
  <2>1. ASSUME NEW k \in DOMAIN mails PROVE MailKept(k)'
    <3>1. MailKept(k)
      BY DEF OutboxInv, MailsKept
    <3>2. \A x : Has(k, x)' <=> Has(k, x) \/ (k = m /\ x = e)
      BY <1>5 DEF Has
    <3>3. accepted'[k] = accepted[k] /\ (EmailKey(k) \in claims)' = (EmailKey(k) \in claims)
      BY <1>2 DEF EmailKey
    <3>4. \A x : k = m => (Has(k, x) <=> x = "started")
      BY <1>1 DEF Has
    <3> QED BY <1>1, <3>1, <3>2, <3>3, <3>4 DEF MailKept
  <2> QED BY <1>5, <2>1 DEF MailsKept, SameMails
<1> QED BY <1>2, <1>5, <1>7, <1>8, <1>9, <1>10, SameMailsKeep DEF OutboxInv

-----------------------------------------------------------------------------
(* The invariant *)

LEMMA InitOutboxInv == Init => OutboxInv
<1> SUFFICES ASSUME Init PROVE OutboxInv
  OBVIOUS
<1>1. mails = <<>> /\ accepted = <<>> /\ DOMAIN mails = {} /\ Len(mails) = 0 /\ Len(accepted) = 0
  BY DEF Init
<1>2. \A t \in Threads : act[t] = Idle /\ act[t].pc = "idle"
  BY DEF Init, Idle
<1>3. TypeOK
  BY <1>1 DEF Init, TypeOK, Idle, Reading
<1>4. InFlight /\ AnswerKnown
  BY <1>2 DEF InFlight, AnswerKnown, Dispatching
<1>5. MailsKept /\ NoticesKept /\ AskedOnce
  BY <1>1 DEF Init, MailsKept, NoticesKept, AskedOnce, Pauses
<1> QED BY <1>3, <1>4, <1>5 DEF OutboxInv

LEMMA StepKeepsOutboxInv ==
    ASSUME OutboxInv, [Next]_vars
    PROVE  OutboxInv'
<1>1. ASSUME NEW t \in Threads, Work(t) PROVE OutboxInv'
  <2>1. CASE Flush(t) \/ FlushEnds(t) \/ NoticesEnd(t)
    BY <2>1, AsideSteps, AsideKeeps DEF OutboxInv
  <2>2. CASE Send(t)
    BY <2>2, SendKeeps
  <2>3. CASE Record(t)
    BY <2>3, RecordKeeps
  <2>4. ASSUME NEW m \in DOMAIN mails, MissingRecipient(t, m) PROVE OutboxInv'
    BY <2>4, MissingRecipientKeeps
  <2>5. ASSUME NEW m \in DOMAIN mails, ClaimDispatch(t, m) PROVE OutboxInv'
    BY <2>5, ClaimDispatchKeeps
  <2>6. ASSUME NEW m \in DOMAIN mails, Skip(t, m) PROVE OutboxInv'
    BY <2>6, AsideSteps, AsideKeeps DEF OutboxInv
  <2>7. ASSUME NEW p \in Payments, QueueNotice(t, p) PROVE OutboxInv'
    BY <2>7, QueueNoticeKeeps
  <2> QED BY <1>1, <2>1, <2>2, <2>3, <2>4, <2>5, <2>6, <2>7 DEF Work
<1>2. ASSUME NEW t \in Threads, Alberto(t) PROVE OutboxInv'
  <2>1. CASE NotifyBlocked(t) \/ PausesEnd(t) \/ \E p \in Payments : Approve(t, p)
    BY <2>1, AsideSteps, AsideKeeps DEF OutboxInv
  <2>2. ASSUME NEW g \in act[t].todo, QueuePause(t, g) PROVE OutboxInv'
    BY <2>2, QueuePauseKeeps
  <2> QED BY <1>2, <2>1, <2>2 DEF Alberto
<1>3. ASSUME NEW t \in Threads, Abort(t) PROVE OutboxInv'
  BY <1>3, AsideSteps, AsideKeeps DEF OutboxInv
<1>4. ASSUME NEW missing \in BOOLEAN, QueueEmail(missing) PROVE OutboxInv'
  BY <1>4, QueueEmailKeeps
<1>5. ASSUME NEW m \in DOMAIN mails, Release(m) \/ CancelEmail(m) PROVE OutboxInv'
  BY <1>5, ReleaseKeeps, CancelKeeps
<1>6. CASE (\E f \in Files : Reconsider(f)) \/ UNCHANGED vars
  <2>1. UNCHANGED <<mails, claims, paid, act, accepted, aborts>>
    BY <1>6 DEF Reconsider, vars
  <2>2. cause' \in [Files -> Causes \cup {None}]
    BY <1>6 DEF Reconsider, vars, OutboxInv, TypeOK
  <2>3. TypeOK' /\ InFlight' /\ AnswerKnown'
    BY <2>1, <2>2 DEF OutboxInv, TypeOK, InFlight, AnswerKnown, Dispatching
  <2>4. MailsKept' /\ NoticesKept' /\ AskedOnce'
    BY <2>1 DEF OutboxInv, MailsKept, MailKept, Has, EmailKey, NoticesKept, NoticeKey, AskedOnce, Pauses
  <2> QED BY <2>3, <2>4 DEF OutboxInv
<1> QED BY <1>1, <1>2, <1>3, <1>4, <1>5, <1>6 DEF Next

(* The inductive invariant holds of every reachable state. *)
THEOREM OutboxInvariant == Spec => []OutboxInv
<1>1. OutboxInv /\ [Next]_vars => OutboxInv'
  BY StepKeepsOutboxInv
<1> QED BY <1>1, InitOutboxInv, PTL DEF Spec

(* No mail is accepted twice, for any number of threads that flush and die. *)
THEOREM NoMailTwice == Spec => []AcceptedOnce
<1>1. OutboxInv => AcceptedOnce
  BY DEF OutboxInv, MailsKept, MailKept, AcceptedOnce
<1> QED BY <1>1, OutboxInvariant, PTL

(* While a server's QUIT does not read as a refusal, the ledger is right    *)
(* about every mail it calls sent, failed or cancelled.                     *)
THEOREM LedgerIsHonest ==
    ASSUME ~QuitRefused
    PROVE  Spec => []OutcomeIsHonest
<1>1. OutboxInv => OutcomeIsHonest
  <2> SUFFICES ASSUME OutboxInv, NEW m \in DOMAIN mails
               PROVE  /\ Has(m, "sent") => accepted[m] = 1
                      /\ Has(m, "failed") \/ Has(m, "cancelled") => accepted[m] = 0
    BY DEF OutcomeIsHonest
  <2>1. MailKept(m)
    BY DEF OutboxInv, MailsKept
  <2> QED BY <2>1 DEF MailKept
<1> QED BY <1>1, OutboxInvariant, PTL

(* A payment has one notice from the moment its key is claimed, and none    *)
(* before.                                                                  *)
THEOREM OneNotice == Spec => []OneNoticePerPayment
<1>1. OutboxInv => OneNoticePerPayment
  <2> SUFFICES ASSUME OutboxInv, NEW p \in Payments
               PROVE  Cardinality({m \in DOMAIN mails : mails[m].payment = p})
                          = IF NoticeKey(p) \in claims THEN 1 ELSE 0
    BY DEF OneNoticePerPayment
  <2>1. CASE NoticeKey(p) \in claims
    <3>1. PICK m \in DOMAIN mails : mails[m].payment = p
      BY <2>1 DEF OutboxInv, NoticesKept
    <3>2. {n \in DOMAIN mails : mails[n].payment = p} = {m}
      BY <3>1 DEF OutboxInv, NoticesKept
    <3> QED BY <2>1, <3>2, FS_Singleton
  <2>2. CASE NoticeKey(p) \notin claims
    <3>1. {n \in DOMAIN mails : mails[n].payment = p} = {}
      BY <2>2 DEF OutboxInv, NoticesKept
    <3> QED BY <2>2, <3>1, FS_EmptySet
  <2> QED BY <2>1, <2>2
<1> QED BY <1>1, OutboxInvariant, PTL

(* Nobody is asked twice about an invoice, however many threads decided     *)
(* their groups before the first of them wrote.                             *)
THEOREM NobodyAskedTwice == Spec => []AskedOnce
<1>1. OutboxInv => AskedOnce
  BY DEF OutboxInv
<1> QED BY <1>1, OutboxInvariant, PTL
=============================================================================
