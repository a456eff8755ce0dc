------------------------------ MODULE PhoneCall ------------------------------
(* The telephone desk (phone_calls/): the page that hears and speaks, the     *)
(* server that answers one turn at a time and keeps no session, and the files *)
(* the decisions were exported to. A turn is what the caller meant and the    *)
(* transcripts the recogniser made of it, best first; a transcript is what    *)
(* the parsers look for in it: how many roots of each company's name, its     *)
(* digits, an order written whole, numerals in words, an invoice number and   *)
(* the words of a yes or a no. Orders are their eight digits.                 *)
EXTENDS Integers, Sequences, FiniteSets, SequencesExt

CONSTANTS None,
          Companies,      \* the suppliers of maestro.json
          NifDigits,      \* [Companies -> Seq(0..9)]
          OrderOwner,     \* [orders of the master -> the company each belongs to]
          EntryOwner,     \* [orders with an ERP entry -> the company it names]
          Evaluated,      \* the evaluated invoices, in the order of the export
          Turns,          \* what callers may say, by name: the company, order or answer meant, and oye
          MaxCalls,       \* bound: calls picked up on one page
          MaxInFlight,    \* bound: turns of the page without an answer
          MaxLost         \* bound: turns whose answer is lost

\* Python's None is no text; the rules of an invoice and their codes are lists.
ASSUME PhoneAssumption ==
    /\ None \notin {"IDENTIFICA", "CONFIRMA", "PEDIDO", "RESPUESTA", "FIN", "yes", "no"}
    /\ Len(Evaluated) \in Nat /\ DOMAIN Evaluated = 1 .. Len(Evaluated)
    /\ \A n \in DOMAIN Evaluated :
         LET reglas == Evaluated[n].reglas
         IN  DOMAIN reglas \subseteq Nat /\ \A i \in DOMAIN reglas : DOMAIN reglas[i].codes \subseteq Nat

VARIABLES estado,     \* the page's state of the conversation
          enLlamada,  \* the page is on a call
          ringing,    \* calls picked up whose greeting has not been asked for
          inFlight,   \* the turns without an answer: the state sent, what was said, the call
          speaking,   \* a reply is being spoken whose end goes on with the call
          calls,      \* calls picked up
          lost,       \* answers lost
          agreed      \* history: in which call the caller said yes to which company

vars == <<estado, enLlamada, ringing, inFlight, speaking, calls, lost, agreed>>

Year == <<2, 0, 2, 6>>
MAX_FALLOS == 3

----------------------------------------------------------------------------
(* The export: one file per order, the last invoice that names it.            *)

(* The supplier of the invoice, or else of its order. *)
SupplierOf(invoice) ==
    IF invoice.nif \in Companies THEN invoice.nif
    ELSE IF invoice.order \in DOMAIN OrderOwner /\ OrderOwner[invoice.order] \in Companies
         THEN OrderOwner[invoice.order] ELSE None
Expediente(invoice) ==
    [decision |-> invoice.decision, reglas |-> invoice.reglas, total |-> invoice.total,
     proveedor |-> SupplierOf(invoice),
     pedido_maestro |-> IF invoice.order \in DOMAIN OrderOwner THEN OrderOwner[invoice.order] ELSE None,
     asiento |-> IF invoice.order \in DOMAIN EntryOwner THEN EntryOwner[invoice.order] ELSE None]

Caja ==
    LET named    == {i \in DOMAIN Evaluated : Evaluated[i].order # None}
        LastOf(o) == CHOOSE i \in named : Evaluated[i].order = o /\ \A j \in named : Evaluated[j].order = o => j <= i
    IN  [o \in {Evaluated[i].order : i \in named} |-> Expediente(Evaluated[LastOf(o)])]

(* The master is trusted before the ERP, and both before the invoice. *)
NifDelPedido(exp) ==
    IF exp.pedido_maestro # None THEN exp.pedido_maestro
    ELSE IF exp.asiento # None THEN exp.asiento ELSE exp.proveedor

----------------------------------------------------------------------------
(* The parsers. Each tries every transcript before it gives up.               *)

FirstOf(oye, Read(_)) ==
    LET fits == {i \in DOMAIN oye : Read(oye[i]) # None}
    IN  IF fits = {} THEN None ELSE Read(oye[CHOOSE i \in fits : \A j \in fits : i <= j])

(* The company with the most roots of its name, if there is just one. *)
MostRoots(t) ==
    LET best == {c \in Companies : t.roots[c] > 0 /\ \A d \in Companies \ {c} : t.roots[c] > t.roots[d]}
    IN  IF best = {} THEN None ELSE CHOOSE c \in best : TRUE
NifIn(t) ==
    LET named == {c \in Companies : \E i \in DOMAIN t.digits : IsPrefix(NifDigits[c], SubSeq(t.digits, i, Len(t.digits)))}
    IN  IF named = {} THEN None ELSE CHOOSE c \in named : TRUE
Identified(oye) == IF FirstOf(oye, MostRoots) # None THEN FirstOf(oye, MostRoots) ELSE FirstOf(oye, NifIn)

(* "yes" words are looked for before "no" words. *)
Afirma(oye) == FirstOf(oye, LAMBDA t : IF t.yes THEN "yes" ELSE IF t.no THEN "no" ELSE None)

(* Eight digits in a row that begin like a year. *)
EightDigits(t) ==
    LET starts == {i \in 1 .. Len(t.digits) - 7 : SubSeq(t.digits, i, i + 1) \in {<<1, 9>>, <<2, 0>>}}
    IN  IF starts = {} THEN None
        ELSE LET i == CHOOSE i \in starts : \A j \in starts : i <= j IN SubSeq(t.digits, i, i + 7)
(* Up to four digits, the year left out: the recogniser drops leading zeros. *)
ShortTail(t) ==
    LET d == IF IsPrefix(Year, t.digits) THEN SubSeq(t.digits, 5, Len(t.digits)) ELSE t.digits
    IN  IF t.opaque \/ Len(d) \notin 1 .. 4 THEN None
        ELSE Year \o [i \in 1 .. 4 - Len(d) |-> 0] \o d

\* Mutant: the first transcript that fits any rule wins.
ParsedByTranscript(oye) ==
    FirstOf(oye, LAMBDA t : IF t.po # None THEN t.po ELSE IF EightDigits(t) # None THEN EightDigits(t) ELSE ShortTail(t))
(* From the strictest rule to the most tolerant. *)
ParsearPedido(oye) ==
    LET formed == FirstOf(oye, LAMBDA t : t.po)
        eight  == FirstOf(oye, EightDigits)
    IN  IF formed # None THEN formed ELSE IF eight # None THEN eight ELSE FirstOf(oye, ShortTail)

(* An invoice number was said and no order: nothing is searched by invoice. *)
OnlyInvoice(oye) == (\E i \in DOMAIN oye : oye[i].invoice) /\ \A i \in DOMAIN oye : oye[i].po = None

----------------------------------------------------------------------------
(* respuesta: what is told about a file, and what is kept back.               *)

Said(divulga, retiene) == [divulga |-> divulga, retiene |-> retiene]

Silencio == {"IBAN_MISMATCH", "ORDER_IDENTITY_UNUSABLE", "DUPLICATE_APPROVED_RECORD", "SOFT_DUPLICATE_MATCH"}
Kept(silent) ==
    IF "IBAN_MISMATCH" \in silent THEN {"ibans"} ELSE IF "ORDER_IDENTITY_UNUSABLE" \in silent THEN {"owner"} ELSE {}

(* The codes of every rule that neither passed nor was out of place. *)
Abiertas(exp) == {i \in DOMAIN exp.reglas : exp.reglas[i].status \notin {"PASS", "NOT_APPLICABLE"}}
Codigos(exp)  == UNION {ToSet(exp.reglas[i].codes) : i \in Abiertas(exp)}

(* What may be told about a code; None for the codes nothing is said of. *)
Told ==
    [arithmetic |-> {"VAT_AMOUNT_MISMATCH", "VAT_RATE_INVALID", "LINE_SUM_MISMATCH", "TOTAL_MISMATCH"},
     missing    |-> {"REQUIRED_FIELD_MISSING"},
     date       |-> {"FUTURE_INVOICE_DATE"},
     terms      |-> {"PAYMENT_TERMS_EXCEEDED"},
     unknown    |-> {"SUPPLIER_UNRESOLVED", "TAX_ID_MISMATCH"},
     inactive   |-> {"SUPPLIER_INACTIVE"}]
Unsettled == {"ERP_PAYMENT_STATE_UNUSABLE", "HISTORY_COVERAGE_INCOMPLETE", "DUPLICATE_SUBMISSION", "ALREADY_PAID"}
Explicable(code, exp) ==
    IF code = "ERP_ALREADY_PAID" THEN {"paid"} \cup (IF exp.asiento = None THEN {} ELSE {"entry", "amount"})
    ELSE IF code = "ORDER_AMOUNT_MISMATCH"
         THEN IF exp.total /\ exp.pedido_maestro # None THEN {"amount", "order amount"} ELSE None
    ELSE IF code \in Unsettled THEN {}
    ELSE IF \E what \in DOMAIN Told : code \in Told[what] THEN {what \in DOMAIN Told : code \in Told[what]}
    ELSE None

(* The first code that can be told, rule by rule. *)
FirstTold(exp) ==
    LET telling(i) == {j \in DOMAIN exp.reglas[i].codes : Explicable(exp.reglas[i].codes[j], exp) # None}
        i          == Min({k \in Abiertas(exp) : telling(k) # {}})
    IN  exp.reglas[i].codes[Min(telling(i))]

Conforme == Said({"conforming"}, {})
Generica == Said({}, {"decision"})

\* Mutant: what can be told is told first.
RespuestaTellsFirst(exp) ==
    IF \E c \in Codigos(exp) : Explicable(c, exp) # None THEN Said(Explicable(FirstTold(exp), exp), {})
    ELSE IF exp.decision = "PAGAR" THEN Conforme ELSE Generica
(* Silence comes first, then a clean decision, then the first code that can *)
(* be told.                                                                 *)
Respuesta(exp) ==
    LET codes  == Codigos(exp)
        silent == Silencio \cap codes
    IN  IF silent # {} THEN Said({"incident"}, Kept(silent))
        ELSE IF exp.decision = "PAGAR" /\ codes = {} THEN Conforme
        ELSE IF \E c \in codes : Explicable(c, exp) # None THEN Said(Explicable(FirstTold(exp), exp), {})
        ELSE Generica

----------------------------------------------------------------------------
(* avanzar: one turn. The state comes and goes in the body of the request.    *)

Fresh == [paso |-> None, nif |-> None, fallos |-> 0]
Outcome(e, said, pedido) == [estado |-> e, said |-> said, pedido |-> pedido]
Asks == Said({}, {})

\* Mutant: a turn that was not understood is forgotten.
NoEntiendoUncounted(e) == Outcome(e, Asks, None)
(* The third turn that is not understood goes to a person. *)
NoEntiendo(e) ==
    LET fallos == e.fallos + 1
    IN  IF fallos >= MAX_FALLOS THEN Outcome([e EXCEPT !.paso = "FIN", !.fallos = fallos], Said({"person"}, {}), None)
        ELSE Outcome([e EXCEPT !.fallos = fallos], Asks, None)

Identifica(e, oye) ==
    IF Identified(oye) = None THEN NoEntiendo(e)
    ELSE Outcome([paso |-> "CONFIRMA", nif |-> Identified(oye), fallos |-> 0], Said({"company"}, {}), None)

\* Mutant: whatever is not a no is a yes.
ConfirmaUnlessDenied(e, oye) ==
    IF Afirma(oye) = "no" THEN Outcome([paso |-> "IDENTIFICA", nif |-> None, fallos |-> 0], Asks, None)
    ELSE Outcome([e EXCEPT !.paso = "PEDIDO", !.fallos = 0], Asks, None)
Confirma(e, oye) ==
    IF Afirma(oye) = "no" THEN Outcome([paso |-> "IDENTIFICA", nif |-> None, fallos |-> 0], Asks, None)
    ELSE IF Afirma(oye) = None THEN NoEntiendo(e)
    ELSE Outcome([e EXCEPT !.paso = "PEDIDO", !.fallos = 0], Asks, None)

(* Whose order it is comes before any answer about it. *)
ResolverPedido(e, oye) ==
    LET pedido == ParsearPedido(oye)
        exp    == Caja[pedido]
        owner  == NifDelPedido(exp)
    IN  IF OnlyInvoice(oye) \/ pedido \notin DOMAIN Caja THEN NoEntiendo(e)
        ELSE IF e.nif # None /\ owner # None /\ e.nif # owner
             THEN Outcome([e EXCEPT !.paso = "FIN"], Said({}, {"owner"}), pedido)
        ELSE Outcome([e EXCEPT !.paso = "RESPUESTA", !.fallos = 0], Respuesta(exp), pedido)

Avanzar(e, oye) ==
    CASE e.paso = None -> Outcome([e EXCEPT !.paso = "IDENTIFICA", !.fallos = 0], Asks, None)
      [] e.paso = "IDENTIFICA" -> Identifica(e, oye)
      [] e.paso = "CONFIRMA" -> Confirma(e, oye)
      [] e.paso = "PEDIDO" -> ResolverPedido(e, oye)
      [] OTHER -> Outcome([e EXCEPT !.paso = "FIN"], Asks, None)

(* The server keeps nothing: what it answers is a function of the state that  *)
(* comes with the turn and of the turn. The greeting is the turn without one. *)
Estados == [paso : {None, "IDENTIFICA", "CONFIRMA", "PEDIDO", "RESPUESTA", "FIN"}, nif : Companies \cup {None},
            fallos : 0 .. MAX_FALLOS]
Answers == [q \in Estados \X (DOMAIN Turns \cup {None}) |->
                Avanzar(q[1], IF q[2] = None THEN <<>> ELSE Turns[q[2]].oye)]
ReplyTo(q) == Answers[<<q.estado, q.turn>>]

----------------------------------------------------------------------------
(* The page. A turn is typed or heard at any time of a call, while another    *)
(* has no answer or a reply is being spoken too, and goes out with the state  *)
(* the page has. Whatever answer comes, when it comes, replaces that state.   *)

Request(turn) == [estado |-> estado, turn |-> turn, call |-> calls]

Init ==
    /\ estado = Fresh /\ enLlamada = FALSE /\ ringing = 0
    /\ inFlight = <<>> /\ speaking = FALSE /\ calls = 0 /\ lost = 0 /\ agreed = {}

Descolgar ==
    /\ ~enLlamada /\ calls < MaxCalls
    /\ enLlamada' = TRUE /\ estado' = Fresh /\ speaking' = FALSE
    /\ ringing' = ringing + 1 /\ calls' = calls + 1
    /\ UNCHANGED <<inFlight, lost, agreed>>

(* After the dialling tone, whether or not the call still stands. *)
Greet ==
    /\ ringing > 0 /\ Len(inFlight) < MaxInFlight
    /\ ringing' = ringing - 1
    /\ inFlight' = Append(inFlight, Request(None))
    /\ speaking' = (speaking /\ estado.paso # "PEDIDO")
    /\ UNCHANGED <<estado, enLlamada, calls, lost, agreed>>

(* Over an order the page fills the silence, which cuts what was being said. *)
Say(turn) ==
    /\ enLlamada /\ Len(inFlight) < MaxInFlight
    /\ inFlight' = Append(inFlight, Request(turn))
    /\ speaking' = (speaking /\ estado.paso # "PEDIDO")
    /\ agreed' = IF estado.paso = "CONFIRMA" /\ Turns[turn].answer = "yes" THEN agreed \cup {<<calls, estado.nif>>} ELSE agreed
    /\ UNCHANGED <<estado, enLlamada, ringing, calls, lost>>

Reply(i) ==
    /\ i \in DOMAIN inFlight
    /\ estado' = ReplyTo(inFlight[i]).estado
    /\ inFlight' = RemoveAt(inFlight, i)
    /\ speaking' = TRUE
    /\ UNCHANGED <<enLlamada, ringing, calls, lost, agreed>>

(* The request or its answer is lost: the page says so and keeps its state. *)
Lost(i) ==
    /\ i \in DOMAIN inFlight /\ lost < MaxLost
    /\ inFlight' = RemoveAt(inFlight, i) /\ lost' = lost + 1
    /\ UNCHANGED <<estado, enLlamada, ringing, speaking, calls, agreed>>

Spoken ==
    /\ speaking
    /\ speaking' = FALSE
    /\ enLlamada' = (enLlamada /\ estado.paso # "FIN")
    /\ UNCHANGED <<estado, ringing, inFlight, calls, lost, agreed>>

Colgar ==
    /\ enLlamada
    /\ enLlamada' = FALSE /\ speaking' = FALSE
    /\ UNCHANGED <<estado, ringing, inFlight, calls, lost, agreed>>

Next ==
    \/ Descolgar \/ Greet \/ Spoken \/ Colgar
    \/ \E turn \in DOMAIN Turns : Say(turn)
    \/ \E i \in 1 .. MaxInFlight : Reply(i) \/ Lost(i)

Spec == Init /\ [][Next]_vars

(* Speech ends, the oldest turn is answered or lost, and a caller who is      *)
(* listened to goes on talking.                                               *)
Settled == inFlight # <<>> /\ inFlight' = Tail(inFlight)
FairSpec ==
    /\ Spec
    /\ WF_vars(Greet) /\ WF_vars(Spoken) /\ WF_inFlight(Settled)
    /\ WF_vars(~speaking /\ \E turn \in DOMAIN Turns : Say(turn))

----------------------------------------------------------------------------
(* Properties. What the server would answer to a turn depends on the turn     *)
(* only, so they speak of the turns in flight.                                *)

(* The owner of the order a reply tells anything of, if he is known. *)
ToldOwner(r) == IF r.pedido = None \/ r.said.divulga = {} THEN None ELSE NifDelPedido(Caja[r.pedido])

(* Whoever hears anything of an order whose owner is known said yes, on this  *)
(* page, to being its owner: the cross-check of _resolver_pedido behind a     *)
(* confirmation that late and crossed answers do not skip.                    *)
OwnerHears ==
    \A k \in DOMAIN inFlight :
        LET owner == ToldOwner(ReplyTo(inFlight[k])) IN owner # None => \E n \in 1 .. calls : <<n, owner>> \in agreed

(* A caller is taken for no company, and given no order, but the one he       *)
(* meant, however the recogniser garbled one of his transcripts: a bad        *)
(* transcript never beats a good one, and a tie is asked again.               *)
UnderstoodAsMeant ==
    \A k \in DOMAIN inFlight :
        LET q == inFlight[k]
            r == ReplyTo(q)
        IN  /\ r.pedido # None => Turns[q.turn].order = r.pedido
            /\ q.estado.paso = "IDENTIFICA" /\ r.estado.paso = "CONFIRMA" => Turns[q.turn].company = r.estado.nif

(* A file with anything to be kept silent gives away an incident and nothing  *)
(* else, whatever its other rules would allow to be told; and an invoice is   *)
(* called conforming only when it is to be paid and no rule is open.          *)
SilenceWins ==
    \A k \in DOMAIN inFlight :
        LET r    == ReplyTo(inFlight[k])
            exp  == Caja[r.pedido]
            told == r.said.divulga
            open == {i \in DOMAIN exp.reglas : exp.reglas[i].status \notin {"PASS", "NOT_APPLICABLE"}}
        IN  r.pedido # None =>
                /\ (\E i \in open : ToSet(exp.reglas[i].codes) \cap Silencio # {}) => told \subseteq {"incident"}
                /\ "conforming" \in told => exp.decision = "PAGAR" /\ open = {}

(* Every call ends, or comes to its farewell again and again, if the caller   *)
(* stops taking back the company: at the third turn that is not understood    *)
(* the call goes to a person.                                                 *)
Denies(q) == q.turn # None /\ Turns[q.turn].answer = "no"
CallsEnd ==
    (<>[](\A k \in DOMAIN inFlight : ~Denies(inFlight[k]))) => []<>(~enLlamada \/ estado.paso = "FIN")

(* No session outlives its call: what is told of an order in a call is told   *)
(* to a company agreed on in that call. "el servidor no guarda sesiones, asi  *)
(* que no hay cerrojos, ni sesiones zombis" (guion.py). The page breaks it.   *)
NoZombieSession ==
    \A k \in DOMAIN inFlight :
        LET owner == ToldOwner(ReplyTo(inFlight[k])) IN owner # None => <<inFlight[k].call, owner>> \in agreed

=============================================================================
