---------------------------- MODULE PhoneCallProofs ----------------------------
(* Proofs about the telephone desk: whoever hears anything of an order said   *)
(* yes to being its owner, however answers cross, come late or are lost. What *)
(* a turn is answered depends on the state it carries, so the invariants speak *)
(* of the page's state and of the state of every turn that is in flight. And  *)
(* nothing that is to be kept silent is told of an order.                     *)
EXTENDS PhoneCall, WellFoundedInduction, TLAPS

\* What the recogniser makes of a turn says yes only if the caller did.
YesIsMeant == \A t \in DOMAIN Turns : Afirma(Turns[t].oye) = "yes" => Turns[t].answer = "yes"

\* Whatever rule did not pass gives a code of what it found (RuleFrame.finish).
OpenRulesHaveCodes ==
    \A n \in DOMAIN Evaluated : \A i \in DOMAIN Evaluated[n].reglas :
        Evaluated[n].reglas[i].status \notin {"PASS", "NOT_APPLICABLE"} => DOMAIN Evaluated[n].reglas[i].codes # {}

Oye(turn) == IF turn = None THEN <<>> ELSE Turns[turn].oye

\* The caller said yes, in some call of this page, to being this company.
Agreed(company) == \E n \in 1 .. calls : <<n, company>> \in agreed

\* A state of the conversation in which a caller is asked for his order is one
\* in which he said who he is.
Sound(e) ==
    /\ e \in Estados
    /\ e.paso # "FIN" => e.fallos < MAX_FALLOS
    /\ e.paso \in {"CONFIRMA", "PEDIDO"} => e.nif # None
    /\ e.paso = "PEDIDO" => Agreed(e.nif)

\* A yes in flight has been noted.
SoundTurn(q) ==
    /\ Sound(q.estado)
    /\ q.turn \in DOMAIN Turns \cup {None}
    /\ (q.estado.paso = "CONFIRMA" /\ Afirma(Oye(q.turn)) = "yes") => Agreed(q.estado.nif)

Requests == [estado : Estados, turn : DOMAIN Turns \cup {None}, call : Nat]

PhoneInv ==
    /\ calls \in Nat /\ (enLlamada => calls > 0)
    /\ inFlight \in Seq(Requests)
    /\ Sound(estado)
    /\ \A k \in DOMAIN inFlight : SoundTurn(inFlight[k])

LEMMA EstadoIs ==
  \A e \in Estados : /\ e = [paso |-> e.paso, nif |-> e.nif, fallos |-> e.fallos]
                     /\ e.paso \in {None, "IDENTIFICA", "CONFIRMA", "PEDIDO", "RESPUESTA", "FIN"}
                     /\ e.nif \in Companies \cup {None} /\ e.fallos \in 0 .. MAX_FALLOS
  BY DEF Estados

\* What a turn changes of the state it carries.
Moved(e, paso, fallos) == [e EXCEPT !.paso = paso, !.fallos = fallos]
Ended(e)               == [e EXCEPT !.paso = "FIN"]
Counted(e, fallos)     == [e EXCEPT !.fallos = fallos]

LEMMA ChangedIs ==
  ASSUME NEW e \in Estados, NEW paso, NEW fallos
  PROVE  /\ Moved(e, paso, fallos) = [paso |-> paso, nif |-> e.nif, fallos |-> fallos]
         /\ Ended(e) = [paso |-> "FIN", nif |-> e.nif, fallos |-> e.fallos]
         /\ Counted(e, fallos) = [paso |-> e.paso, nif |-> e.nif, fallos |-> fallos]
<1>1. PICK p, n, f : /\ e = [paso |-> p, nif |-> n, fallos |-> f]
                     /\ p = e.paso /\ n = e.nif /\ f = e.fallos
  BY EstadoIs
<1>2. /\ [[paso |-> p, nif |-> n, fallos |-> f] EXCEPT !.paso = paso, !.fallos = fallos]
           = [paso |-> paso, nif |-> n, fallos |-> fallos]
      /\ [[paso |-> p, nif |-> n, fallos |-> f] EXCEPT !.paso = "FIN"]
           = [paso |-> "FIN", nif |-> n, fallos |-> f]
      /\ [[paso |-> p, nif |-> n, fallos |-> f] EXCEPT !.fallos = fallos]
           = [paso |-> p, nif |-> n, fallos |-> fallos]
  <2>1. [[paso |-> p, nif |-> n, fallos |-> f] EXCEPT !.paso = paso, !.fallos = fallos]
           = [paso |-> paso, nif |-> n, fallos |-> fallos]
    <3>1. [[paso |-> p, nif |-> n, fallos |-> f] EXCEPT !.paso = paso]
            = [paso |-> paso, nif |-> n, fallos |-> f]
      OBVIOUS
    <3>2. [[paso |-> paso, nif |-> n, fallos |-> f] EXCEPT !.fallos = fallos]
            = [paso |-> paso, nif |-> n, fallos |-> fallos]
      OBVIOUS
    <3>3. [[paso |-> p, nif |-> n, fallos |-> f] EXCEPT !.paso = paso, !.fallos = fallos]
            = [[[paso |-> p, nif |-> n, fallos |-> f] EXCEPT !.paso = paso] EXCEPT !.fallos = fallos]
      OBVIOUS
    <3> QED BY <3>1, <3>2, <3>3, Zenon
  <2>2. [[paso |-> p, nif |-> n, fallos |-> f] EXCEPT !.paso = "FIN"]
           = [paso |-> "FIN", nif |-> n, fallos |-> f]
    OBVIOUS
  <2>3. [[paso |-> p, nif |-> n, fallos |-> f] EXCEPT !.fallos = fallos]
           = [paso |-> p, nif |-> n, fallos |-> fallos]
    OBVIOUS
  <2> QED BY <2>1, <2>2, <2>3
<1>3. /\ Moved(e, paso, fallos) = [paso |-> paso, nif |-> n, fallos |-> fallos]
      /\ Ended(e) = [paso |-> "FIN", nif |-> n, fallos |-> f]
      /\ Counted(e, fallos) = [paso |-> p, nif |-> n, fallos |-> fallos]
  BY <1>1, <1>2, Zenon DEF Moved, Ended, Counted
<1> QED BY <1>1, <1>3

\* The server's answer to a turn of the page.
LEMMA ReplyIs ==
  \A q : q.estado \in Estados /\ q.turn \in DOMAIN Turns \cup {None}
           => ReplyTo(q) = Avanzar(q.estado, Oye(q.turn))
  BY DEF ReplyTo, Answers, Oye

LEMMA Silence == Afirma(<<>>) = None
  BY DEF Afirma, FirstOf

\* A caller is taken for one of the companies, or for none.
LEMMA IdentifiedIs == \A oye : Identified(oye) \in Companies \cup {None}
<1> SUFFICES ASSUME NEW oye PROVE Identified(oye) \in Companies \cup {None}
  OBVIOUS
<1>1. \A t : MostRoots(t) \in Companies \cup {None} /\ NifIn(t) \in Companies \cup {None}
  BY DEF MostRoots, NifIn
<1>2. FirstOf(oye, MostRoots) \in Companies \cup {None}
  BY <1>1 DEF FirstOf
<1>3. FirstOf(oye, NifIn) \in Companies \cup {None}
  BY <1>1 DEF FirstOf
<1> QED BY <1>2, <1>3 DEF Identified

LEMMA AfirmaIs == \A oye : Afirma(oye) \in {"yes", "no", None}
  BY DEF Afirma, FirstOf

LEMMA OutcomeIs ==
  \A e, said, pedido : /\ Outcome(e, said, pedido).estado = e /\ Outcome(e, said, pedido).said = said
                       /\ Outcome(e, said, pedido).pedido = pedido
  BY DEF Outcome
----------------------------------------------------------------------------
(* One turn. A yes in a state that asks for it is the only way to an order.   *)

\* How a turn may leave the conversation.
Follows(e, f, oye) ==
    /\ f \in Estados
    /\ f.paso # "FIN" => f.fallos < MAX_FALLOS
    /\ f.paso = "CONFIRMA" => f.nif # None
    /\ f.paso = "PEDIDO" =>
         /\ f.nif = e.nif
         /\ e.paso = "PEDIDO" \/ (e.paso = "CONFIRMA" /\ Afirma(oye) = "yes")

Open(e) ==
    /\ e \in Estados
    /\ e.paso # "FIN" => e.fallos < MAX_FALLOS
    /\ e.paso \in {"CONFIRMA", "PEDIDO"} => e.nif # None

\* A caller who was not understood is asked again, or handed to a person.
LEMMA AskedAgain ==
  ASSUME NEW e, NEW oye, Open(e), e.paso \in {"IDENTIFICA", "CONFIRMA", "PEDIDO"}
  PROVE  Follows(e, NoEntiendo(e).estado, oye)
<1> DEFINE fallos == e.fallos + 1
<1>1. /\ e = [paso |-> e.paso, nif |-> e.nif, fallos |-> e.fallos]
      /\ e.nif \in Companies \cup {None} /\ e.fallos \in 0 .. 3 /\ e.fallos < 3
  BY EstadoIs DEF Open, MAX_FALLOS
<1>2. CASE fallos >= 3
  <2>0. NoEntiendo(e) = Outcome(Moved(e, "FIN", fallos), Said({"person"}, {}), None)
    BY <1>2, Zenon DEF NoEntiendo, Moved, MAX_FALLOS
  <2>1. NoEntiendo(e).estado = [paso |-> "FIN", nif |-> e.nif, fallos |-> fallos]
    BY <2>0, ChangedIs, OutcomeIs DEF Open
  <2>2. fallos \in 0 .. 3
    BY <1>1
  <2> QED BY <1>1, <2>1, <2>2 DEF Follows, Estados, MAX_FALLOS
<1>3. CASE ~(fallos >= 3)
  <2>0. NoEntiendo(e) = Outcome(Counted(e, fallos), Asks, None)
    BY <1>3, Zenon DEF NoEntiendo, Counted, MAX_FALLOS
  <2>1. NoEntiendo(e).estado = [paso |-> e.paso, nif |-> e.nif, fallos |-> fallos]
    BY <2>0, ChangedIs, OutcomeIs DEF Open
  <2>2. fallos \in 0 .. 3 /\ fallos < 3
    BY <1>1, <1>3
  <2> QED BY <1>1, <2>1, <2>2 DEF Follows, Open, Estados, MAX_FALLOS
<1> QED BY <1>2, <1>3

LEMMA IdentificaFollows ==
  ASSUME NEW e, NEW oye, Open(e), e.paso = "IDENTIFICA"
  PROVE  Follows(e, Identifica(e, oye).estado, oye)
<1>1. CASE Identified(oye) = None
  BY <1>1, AskedAgain DEF Identifica
<1>2. CASE Identified(oye) # None
  <2>1. Identifica(e, oye).estado = [paso |-> "CONFIRMA", nif |-> Identified(oye), fallos |-> 0]
    BY <1>2, OutcomeIs DEF Identifica
  <2> QED BY <1>2, <2>1, IdentifiedIs DEF Follows, Estados, MAX_FALLOS
<1> QED BY <1>1, <1>2

LEMMA ConfirmaFollows ==
  ASSUME NEW e, NEW oye, Open(e), e.paso = "CONFIRMA"
  PROVE  Follows(e, Confirma(e, oye).estado, oye)
<1>1. CASE Afirma(oye) = "no"
  <2>1. Confirma(e, oye).estado = [paso |-> "IDENTIFICA", nif |-> None, fallos |-> 0]
    BY <1>1, OutcomeIs DEF Confirma
  <2> QED BY <2>1 DEF Follows, Estados, MAX_FALLOS
<1>2. CASE Afirma(oye) # "no" /\ Afirma(oye) = None
  BY <1>2, AskedAgain DEF Confirma
<1>3. CASE Afirma(oye) # "no" /\ Afirma(oye) # None
  <2>0. Confirma(e, oye) = Outcome(Moved(e, "PEDIDO", 0), Asks, None)
    BY <1>3, Zenon DEF Confirma, Moved
  <2>1. e.nif \in Companies \cup {None}
    BY EstadoIs DEF Open
  <2>2. Confirma(e, oye).estado = [paso |-> "PEDIDO", nif |-> e.nif, fallos |-> 0]
    BY <2>0, ChangedIs, OutcomeIs DEF Open
  <2>3. Afirma(oye) = "yes"
    BY <1>3, AfirmaIs
  <2> QED BY <2>1, <2>2, <2>3 DEF Follows, Estados, MAX_FALLOS
<1> QED BY <1>1, <1>2, <1>3

LEMMA PedidoFollows ==
  ASSUME NEW e, NEW oye, Open(e), e.paso = "PEDIDO"
  PROVE  Follows(e, ResolverPedido(e, oye).estado, oye)
<1>0. \/ ResolverPedido(e, oye) = NoEntiendo(e)
      \/ \E said, pedido : ResolverPedido(e, oye) = Outcome(Ended(e), said, pedido)
      \/ \E said, pedido : ResolverPedido(e, oye) = Outcome(Moved(e, "RESPUESTA", 0), said, pedido)
  BY Zenon DEF ResolverPedido, Ended, Moved
<1>1. e.nif \in Companies \cup {None} /\ e.fallos \in 0 .. MAX_FALLOS
  BY EstadoIs DEF Open
<1>2. \/ ResolverPedido(e, oye).estado = NoEntiendo(e).estado
      \/ ResolverPedido(e, oye).estado = [paso |-> "FIN", nif |-> e.nif, fallos |-> e.fallos]
      \/ ResolverPedido(e, oye).estado = [paso |-> "RESPUESTA", nif |-> e.nif, fallos |-> 0]
  BY <1>0, ChangedIs, OutcomeIs DEF Open
<1> QED BY <1>1, <1>2, AskedAgain DEF Follows, Estados, MAX_FALLOS

LEMMA AvanzarIs ==
  \A e, oye :
    /\ e.paso = None => Avanzar(e, oye) = Outcome(Moved(e, "IDENTIFICA", 0), Asks, None)
    /\ e.paso = "IDENTIFICA" => Avanzar(e, oye) = Identifica(e, oye)
    /\ e.paso = "CONFIRMA" => Avanzar(e, oye) = Confirma(e, oye)
    /\ e.paso = "PEDIDO" => Avanzar(e, oye) = ResolverPedido(e, oye)
    /\ e.paso \in {"RESPUESTA", "FIN"} => Avanzar(e, oye) = Outcome(Ended(e), Asks, None)
<1> SUFFICES ASSUME NEW e, NEW oye
    PROVE /\ e.paso = None => Avanzar(e, oye) = Outcome(Moved(e, "IDENTIFICA", 0), Asks, None)
          /\ e.paso = "IDENTIFICA" => Avanzar(e, oye) = Identifica(e, oye)
          /\ e.paso = "CONFIRMA" => Avanzar(e, oye) = Confirma(e, oye)
          /\ e.paso = "PEDIDO" => Avanzar(e, oye) = ResolverPedido(e, oye)
          /\ e.paso \in {"RESPUESTA", "FIN"} => Avanzar(e, oye) = Outcome(Ended(e), Asks, None)
  OBVIOUS
<1>0. None # "IDENTIFICA" /\ None # "CONFIRMA" /\ None # "PEDIDO" /\ None # "RESPUESTA" /\ None # "FIN"
  BY PhoneAssumption
<1>1. ASSUME e.paso = None
      PROVE  Avanzar(e, oye) = Outcome(Moved(e, "IDENTIFICA", 0), Asks, None)
  BY <1>1, <1>0, Zenon DEF Avanzar, Moved
<1>2. ASSUME e.paso = "IDENTIFICA" PROVE Avanzar(e, oye) = Identifica(e, oye)
  BY <1>2, <1>0, Zenon DEF Avanzar
<1>3. ASSUME e.paso = "CONFIRMA" PROVE Avanzar(e, oye) = Confirma(e, oye)
  BY <1>3, <1>0, Zenon DEF Avanzar
<1>4. ASSUME e.paso = "PEDIDO" PROVE Avanzar(e, oye) = ResolverPedido(e, oye)
  BY <1>4, <1>0, Zenon DEF Avanzar
<1>5. ASSUME e.paso \in {"RESPUESTA", "FIN"}
      PROVE  Avanzar(e, oye) = Outcome(Ended(e), Asks, None)
  <2>1. e.paso # None /\ e.paso # "IDENTIFICA" /\ e.paso # "CONFIRMA" /\ e.paso # "PEDIDO"
    BY <1>0, <1>5
  <2> QED BY <2>1, Zenon DEF Avanzar, Ended
<1> QED BY <1>1, <1>2, <1>3, <1>4, <1>5

LEMMA TurnFollows == \A e, oye : Open(e) => Follows(e, Avanzar(e, oye).estado, oye)
<1> SUFFICES ASSUME NEW e, NEW oye, Open(e) PROVE Follows(e, Avanzar(e, oye).estado, oye)
  OBVIOUS
<1>1. /\ e = [paso |-> e.paso, nif |-> e.nif, fallos |-> e.fallos]
      /\ e.paso \in {None, "IDENTIFICA", "CONFIRMA", "PEDIDO", "RESPUESTA", "FIN"}
      /\ e.nif \in Companies \cup {None} /\ e.fallos \in 0 .. MAX_FALLOS
  BY EstadoIs DEF Open
<1>2. CASE e.paso = None
  <2>1. Avanzar(e, oye).estado = [paso |-> "IDENTIFICA", nif |-> e.nif, fallos |-> 0]
    BY <1>2, AvanzarIs, ChangedIs, OutcomeIs DEF Open
  <2> QED BY <1>1, <2>1 DEF Follows, Estados, MAX_FALLOS
<1>3. CASE e.paso \in {"RESPUESTA", "FIN"}
  <2>1. Avanzar(e, oye).estado = [paso |-> "FIN", nif |-> e.nif, fallos |-> e.fallos]
    BY <1>3, AvanzarIs, ChangedIs, OutcomeIs DEF Open
  <2> QED BY <1>1, <2>1 DEF Follows, Estados, MAX_FALLOS
<1> QED BY <1>1, <1>2, <1>3, AvanzarIs, IdentificaFollows, ConfirmaFollows, PedidoFollows

\* An answer leaves the page in a state as sound as the one it answers.
LEMMA AnswerIsSound == \A q : SoundTurn(q) => Sound(ReplyTo(q).estado)
<1> SUFFICES ASSUME NEW q, SoundTurn(q) PROVE Sound(ReplyTo(q).estado)
  OBVIOUS
<1> DEFINE f == ReplyTo(q).estado
<1>1. Open(q.estado) /\ f = Avanzar(q.estado, Oye(q.turn)).estado
  BY ReplyIs DEF SoundTurn, Sound, Open
<1>2. Follows(q.estado, f, Oye(q.turn))
  BY <1>1, TurnFollows
<1> HIDE DEF f
<1>3. f.paso = "PEDIDO" => f.nif # None /\ Agreed(f.nif)
  BY <1>1, <1>2 DEF Follows, SoundTurn, Sound
<1> QED BY <1>2, <1>3 DEF Follows, Sound, f
----------------------------------------------------------------------------
(* The invariant. What was agreed stays agreed, so a state that was sound     *)
(* when a turn took it along is sound when the answer brings it back.         *)

LEMMA AgreedStays ==
  ASSUME calls \in Nat, calls' \in Nat, calls <= calls', agreed \subseteq agreed'
  PROVE  /\ \A e : Sound(e) => Sound(e)'
         /\ \A q : SoundTurn(q) => SoundTurn(q)'
<1>1. \A c : Agreed(c) => Agreed(c)'
  BY DEF Agreed
<1>2. \A e : Sound(e) => Sound(e)'
  BY <1>1 DEF Sound
<1> QED BY <1>1, <1>2 DEF SoundTurn

LEMMA FreshIsSound == Sound(Fresh)
  BY PhoneAssumption DEF Sound, Fresh, Estados, MAX_FALLOS

LEMMA RequestIs ==
  ASSUME NEW turn \in DOMAIN Turns \cup {None}, PhoneInv
  PROVE  /\ Request(turn) \in Requests
         /\ Request(turn).estado = estado /\ Request(turn).turn = turn
  BY DEF Request, Requests, PhoneInv, Sound

\* A turn joins those in flight, or one of them leaves.
LEMMA JoinedIs ==
  ASSUME NEW q \in Requests, inFlight \in Seq(Requests), inFlight' = Append(inFlight, q)
  PROVE  /\ inFlight' \in Seq(Requests)
         /\ \A k \in DOMAIN inFlight' : inFlight'[k] = q \/ \E l \in DOMAIN inFlight : inFlight'[k] = inFlight[l]
  OBVIOUS

LEMMA LeftIs ==
  ASSUME NEW i \in DOMAIN inFlight, inFlight \in Seq(Requests), inFlight' = RemoveAt(inFlight, i)
  PROVE  /\ inFlight' \in Seq(Requests)
         /\ \A k \in DOMAIN inFlight' : \E l \in DOMAIN inFlight : inFlight'[k] = inFlight[l]
<1> DEFINE a == SubSeq(inFlight, 1, i - 1)
           b == SubSeq(inFlight, i + 1, Len(inFlight))
<1>1. inFlight' = a \o b
  BY DEF RemoveAt
<1>0. i \in 1 .. Len(inFlight) /\ Len(inFlight) \in Nat
  OBVIOUS
<1>2. /\ a \in Seq(Requests) /\ Len(a) = i - 1
      /\ \A k \in 1 .. i - 1 : a[k] = inFlight[k]
  OBVIOUS
<1>3. /\ b \in Seq(Requests) /\ Len(b) = Len(inFlight) - i
      /\ \A k \in 1 .. Len(inFlight) - i : b[k] = inFlight[k + i]
  OBVIOUS
<1> HIDE DEF a, b
<1>4. inFlight' \in Seq(Requests) /\ Len(inFlight') = Len(inFlight) - 1
  BY <1>0, <1>1, <1>2, <1>3
<1>5. \A k \in 1 .. Len(inFlight) - 1 : inFlight'[k] = IF k < i THEN inFlight[k] ELSE inFlight[k + 1]
  BY SMTT(30), <1>0, <1>1, <1>2, <1>3
<1>6. \A k \in 1 .. Len(inFlight) - 1 : (IF k < i THEN k ELSE k + 1) \in DOMAIN inFlight
  OBVIOUS
<1>7. DOMAIN inFlight' = 1 .. Len(inFlight) - 1
  BY <1>4
<1> QED BY <1>4, <1>5, <1>6, <1>7

LEMMA PhoneInit == Init => PhoneInv
<1> SUFFICES ASSUME Init PROVE PhoneInv
  OBVIOUS
<1>1. estado = Fresh /\ calls = 0 /\ enLlamada = FALSE /\ inFlight = <<>>
  BY DEF Init
<1> QED BY <1>1, FreshIsSound DEF PhoneInv

LEMMA PhoneStep == ASSUME YesIsMeant PROVE PhoneInv /\ [Next]_vars => PhoneInv'
<1> SUFFICES ASSUME YesIsMeant, PhoneInv, [Next]_vars PROVE PhoneInv'
  OBVIOUS
<1>1. CASE Descolgar
  <2>1. calls \in Nat /\ calls' = calls + 1 /\ agreed' = agreed
    BY <1>1 DEF Descolgar, PhoneInv
  <2>2. Sound(Fresh)'
    BY <2>1, FreshIsSound, AgreedStays
  <2>3. inFlight' = inFlight /\ \A r : SoundTurn(r) => SoundTurn(r)'
    BY <1>1, <2>1, AgreedStays DEF Descolgar
  <2> QED BY <1>1, <2>1, <2>2, <2>3 DEF Descolgar, PhoneInv
<1>2. ASSUME NEW turn \in DOMAIN Turns \cup {None}, Greet \/ Say(turn), Greet => turn = None
      PROVE  PhoneInv'
  <2>0. PICK q : q = Request(turn)
    OBVIOUS
  <2>1. /\ inFlight' = Append(inFlight, q) /\ UNCHANGED <<estado, enLlamada, calls>>
        /\ agreed \subseteq agreed'
    BY <1>2, <2>0 DEF Greet, Say
  <2>2. /\ \A e : Sound(e) => Sound(e)'
        /\ \A r : SoundTurn(r) => SoundTurn(r)'
    BY <2>1, AgreedStays DEF PhoneInv
  <2>3. q \in Requests /\ q.estado = estado /\ q.turn = turn
    BY <2>0, RequestIs
  <2>4. ASSUME estado.paso = "CONFIRMA", Afirma(Oye(turn)) = "yes"
        PROVE  \E n \in 1 .. calls' : <<n, estado.nif>> \in agreed'
    <3>1. turn # None /\ turn \in DOMAIN Turns
      BY <2>4, Silence, PhoneAssumption DEF Oye
    <3>2. Say(turn) /\ Turns[turn].answer = "yes"
      BY <1>2, <2>4, <3>1 DEF YesIsMeant, Oye
    <3>3. <<calls, estado.nif>> \in agreed' /\ calls > 0 /\ calls \in Nat
      BY <2>4, <3>2 DEF Say, PhoneInv
    <3> QED BY SMTT(30), <2>1, <3>3 DEF Agreed
  <2>5. SoundTurn(q)'
    <3>1. Sound(q.estado)'
      BY <2>2, <2>3 DEF PhoneInv
    <3>2. q.estado.paso = "CONFIRMA" /\ Afirma(Oye(q.turn)) = "yes" => Agreed(q.estado.nif)'
      BY <2>3, <2>4 DEF Agreed
    <3> QED BY <2>3, <3>1, <3>2 DEF SoundTurn
  <2>6. /\ inFlight' \in Seq(Requests)
        /\ \A k \in DOMAIN inFlight' : inFlight'[k] = q \/ \E l \in DOMAIN inFlight : inFlight'[k] = inFlight[l]
    BY <2>1, <2>3, JoinedIs DEF PhoneInv
  <2> QED BY <2>1, <2>2, <2>5, <2>6 DEF PhoneInv
<1>3. ASSUME NEW i \in DOMAIN inFlight, Reply(i) PROVE PhoneInv'
  <2>1. /\ estado' = ReplyTo(inFlight[i]).estado /\ inFlight' = RemoveAt(inFlight, i)
        /\ UNCHANGED <<enLlamada, calls, agreed>>
    BY <1>3 DEF Reply
  <2>2. Sound(ReplyTo(inFlight[i]).estado)
    BY AnswerIsSound DEF PhoneInv
  <2>3. /\ \A e : Sound(e) => Sound(e)'
        /\ \A r : SoundTurn(r) => SoundTurn(r)'
    BY <2>1, AgreedStays DEF PhoneInv
  <2>4. /\ inFlight' \in Seq(Requests)
        /\ \A k \in DOMAIN inFlight' : \E l \in DOMAIN inFlight : inFlight'[k] = inFlight[l]
    BY <2>1, LeftIs DEF PhoneInv
  <2> QED BY <2>1, <2>2, <2>3, <2>4 DEF PhoneInv
<1>4. ASSUME NEW i \in DOMAIN inFlight, Lost(i) PROVE PhoneInv'
  <2>1. inFlight' = RemoveAt(inFlight, i) /\ UNCHANGED <<estado, enLlamada, calls, agreed>>
    BY <1>4 DEF Lost
  <2>2. /\ \A e : Sound(e) => Sound(e)'
        /\ \A r : SoundTurn(r) => SoundTurn(r)'
    BY <2>1, AgreedStays DEF PhoneInv
  <2>3. /\ inFlight' \in Seq(Requests)
        /\ \A k \in DOMAIN inFlight' : \E l \in DOMAIN inFlight : inFlight'[k] = inFlight[l]
    BY <2>1, LeftIs DEF PhoneInv
  <2> QED BY <2>1, <2>2, <2>3 DEF PhoneInv
<1>5. CASE Spoken \/ Colgar \/ UNCHANGED vars
  <2>1. UNCHANGED <<estado, inFlight, calls, agreed>> /\ (enLlamada' => enLlamada)
    <3>1. CASE Spoken
      BY <3>1, Zenon DEF Spoken
    <3>2. CASE Colgar
      BY <3>2, Zenon DEF Colgar
    <3>3. CASE UNCHANGED vars
      BY <3>3 DEF vars
    <3> QED BY <1>5, <3>1, <3>2, <3>3
  <2>2. /\ \A e : Sound(e) => Sound(e)'
        /\ \A r : SoundTurn(r) => SoundTurn(r)'
    BY <2>1, AgreedStays DEF PhoneInv
  <2> QED BY <2>1, <2>2 DEF PhoneInv
<1>6. \A i : Reply(i) \/ Lost(i) => i \in DOMAIN inFlight
  BY DEF Reply, Lost
<1>7. CASE Greet
  BY <1>2, <1>7
<1>8. ASSUME NEW turn \in DOMAIN Turns, Say(turn), ~Greet PROVE PhoneInv'
  BY <1>2, <1>8
<1> QED BY <1>1, <1>3, <1>4, <1>5, <1>6, <1>7, <1>8 DEF Next

LEMMA OwnerFollows == PhoneInv => OwnerHears
<1> SUFFICES ASSUME PhoneInv, NEW k \in DOMAIN inFlight, ToldOwner(ReplyTo(inFlight[k])) # None
             PROVE  \E n \in 1 .. calls : <<n, ToldOwner(ReplyTo(inFlight[k]))>> \in agreed
  BY DEF OwnerHears
<1> DEFINE e     == inFlight[k].estado
           oye   == Oye(inFlight[k].turn)
           reply == Avanzar(e, oye)
           owner == ToldOwner(reply)
<1>1. Sound(e) /\ ReplyTo(inFlight[k]) = reply
  BY ReplyIs DEF PhoneInv, SoundTurn, Sound
<1>2. owner # None /\ reply.pedido # None /\ reply.said.divulga # {} /\ owner = NifDelPedido(Caja[reply.pedido])
  BY <1>1 DEF ToldOwner
<1>3. \A f : NoEntiendo(f).pedido = None
  BY OutcomeIs DEF NoEntiendo
<1>4. e.paso = "PEDIDO" /\ reply = ResolverPedido(e, oye)
  <2>1. Identifica(e, oye).pedido = None /\ Confirma(e, oye).pedido = None
    BY <1>3, OutcomeIs DEF Identifica, Confirma
  <2>2. e.paso \in {None, "IDENTIFICA", "CONFIRMA", "PEDIDO", "RESPUESTA", "FIN"}
    BY <1>1, EstadoIs DEF Sound
  <2> QED BY <1>2, <2>1, <2>2, AvanzarIs, OutcomeIs
<1>5. e.nif = owner
  <2> DEFINE pedido == ParsearPedido(oye)
  <2>1. e.nif # None
    BY <1>1, <1>4 DEF Sound
  <2>2. \/ reply = NoEntiendo(e)
        \/ \E f : reply = Outcome(f, Said({}, {"owner"}), pedido)
        \/ /\ ~(e.nif # None /\ NifDelPedido(Caja[pedido]) # None /\ e.nif # NifDelPedido(Caja[pedido]))
           /\ \E f, said : reply = Outcome(f, said, pedido)
    BY <1>4, Zenon DEF ResolverPedido
  <2>3. Said({}, {"owner"}).divulga = {}
    BY DEF Said
  <2> HIDE DEF pedido, reply, owner, e
  <2>4. /\ reply.pedido = pedido
        /\ ~(e.nif # None /\ NifDelPedido(Caja[pedido]) # None /\ e.nif # NifDelPedido(Caja[pedido]))
    BY <1>2, <1>3, <2>2, <2>3, OutcomeIs
  <2> QED BY <1>2, <2>1, <2>4
<1> HIDE DEF e, reply, owner
<1>6. Agreed(owner)
  BY <1>1, <1>4, <1>5 DEF Sound
<1> QED BY <1>1, <1>6 DEF Agreed, owner

----------------------------------------------------------------------------
(* What is told of an order, and what is kept back.                           *)

LEMMA FirstIs ==
  ASSUME NEW S \in SUBSET Nat, S # {}
  PROVE  Min(S) \in S
<1> DEFINE R == OpToRel(<, Nat)
<1>1. IsWellFoundedOn(R, Nat)
  BY NatLessThanWellFounded
<1>2. \A x, y \in Nat : <<y, x>> \in R <=> y < x
  BY DEF OpToRel
<1> HIDE DEF R
<1>3. PICK x \in S : \A y \in S : ~ (<<y, x>> \in R)
  BY <1>1, WFMin
<1>4. \A y \in S : y \in Nat /\ x \in Nat /\ ~ (y < x)
  BY <1>2, <1>3
<1>5. \A y \in S : x <= y
  BY <1>4
<1> QED BY <1>5 DEF Min

\* The file of an order is made from the last invoice that names it.
LEMMA FileOfInvoice == \A o \in DOMAIN Caja : \E n \in DOMAIN Evaluated : Caja[o] = Expediente(Evaluated[n])
<1> SUFFICES ASSUME NEW o \in DOMAIN Caja
             PROVE  \E n \in DOMAIN Evaluated : Caja[o] = Expediente(Evaluated[n])
  OBVIOUS
<1> DEFINE named == {i \in DOMAIN Evaluated : Evaluated[i].order # None}
           last  == CHOOSE i \in named : Evaluated[i].order = o /\ \A j \in named : Evaluated[j].order = o => j <= i
           len   == Len(Evaluated)
           back  == {len - i : i \in {j \in named : Evaluated[j].order = o}}
<1>1. o \in {Evaluated[i].order : i \in named} /\ Caja[o] = Expediente(Evaluated[last])
  BY DEF Caja
<1>2. len \in Nat /\ DOMAIN Evaluated = 1 .. len
  BY PhoneAssumption
<1>3. PICK k \in named : Evaluated[k].order = o
  BY <1>1
<1>4. back \in SUBSET Nat /\ back # {}
  BY <1>2, <1>3
<1> DEFINE R == OpToRel(<, Nat)
<1>5. IsWellFoundedOn(R, Nat)
  BY NatLessThanWellFounded
<1>6. \A x, y \in Nat : <<y, x>> \in R <=> y < x
  BY DEF OpToRel
<1> HIDE DEF R, back
<1>7. PICK m \in back : \A y \in back : ~ (<<y, m>> \in R)
  BY <1>4, <1>5, WFMin
<1>8. \A y \in back : ~ (y < m)
  BY <1>4, <1>6, <1>7
<1>9. PICK i \in named : Evaluated[i].order = o /\ m = len - i
  BY <1>7 DEF back
<1>10. \A j \in named : Evaluated[j].order = o => j <= i
  <2> SUFFICES ASSUME NEW j \in named, Evaluated[j].order = o PROVE j <= i
    OBVIOUS
  <2>1. len - j \in back
    BY DEF back
  <2>2. ~ (len - j < len - i)
    BY <1>8, <1>9, <2>1
  <2> QED BY <1>2, <2>2
<1>11. last \in named
  BY <1>9, <1>10
<1> HIDE DEF last
<1> QED BY <1>1, <1>11

\* No code is told as that an invoice is in order.
LEMMA ExplicableIs == \A c, exp : Explicable(c, exp) # None => "conforming" \notin Explicable(c, exp)
<1> SUFFICES ASSUME NEW c, NEW exp, Explicable(c, exp) # None PROVE "conforming" \notin Explicable(c, exp)
  OBVIOUS
<1>1. \/ Explicable(c, exp) = {"paid"}
      \/ Explicable(c, exp) = {"paid"} \cup {"entry", "amount"}
      \/ Explicable(c, exp) = {"amount", "order amount"}
      \/ Explicable(c, exp) = {}
      \/ Explicable(c, exp) = {what \in DOMAIN Told : c \in Told[what]}
  BY DEF Explicable
<1>2. "conforming" \notin DOMAIN Told
  BY DEF Told
<1>3. "conforming" \notin {what \in DOMAIN Told : c \in Told[what]}
  BY <1>2
<1>4. CASE Explicable(c, exp) = {what \in DOMAIN Told : c \in Told[what]}
  BY <1>3, <1>4, Zenon
<1>5. CASE Explicable(c, exp) \in {{}, {"paid"}, {"paid"} \cup {"entry", "amount"}, {"amount", "order amount"}}
  <2>1. "conforming" \notin {} /\ "conforming" \notin {"paid"} /\ "conforming" \notin {"amount", "order amount"}
    OBVIOUS
  <2>2. "conforming" \notin {"paid"} \cup {"entry", "amount"}
    OBVIOUS
  <2>3. \/ Explicable(c, exp) = {} \/ Explicable(c, exp) = {"paid"} \/ Explicable(c, exp) = {"amount", "order amount"}
        \/ Explicable(c, exp) = {"paid"} \cup {"entry", "amount"}
    BY <1>5, Zenon
  <2> QED BY <2>1, <2>2, <2>3, Zenon
<1> QED BY <1>1, <1>4, <1>5, Zenon

LEMMA SaidIs == \A divulga, retiene : Said(divulga, retiene).divulga = divulga
  BY DEF Said

\* What is told is the explanation of a code.
LEMMA FirstToldIs ==
  ASSUME NEW n \in DOMAIN Evaluated, NEW exp, exp = Expediente(Evaluated[n]),
         \E c \in Codigos(exp) : Explicable(c, exp) # None
  PROVE  Explicable(FirstTold(exp), exp) # None
<1> DEFINE telling(i) == {j \in DOMAIN exp.reglas[i].codes : Explicable(exp.reglas[i].codes[j], exp) # None}
           rules      == {k \in Abiertas(exp) : telling(k) # {}}
           i          == Min(rules)
<1>1. exp.reglas = Evaluated[n].reglas
  BY DEF Expediente
<1>2. DOMAIN exp.reglas \subseteq Nat /\ \A k \in DOMAIN exp.reglas : DOMAIN exp.reglas[k].codes \subseteq Nat
  BY <1>1, PhoneAssumption
<1>3. \A k \in Abiertas(exp) : k \in DOMAIN exp.reglas
  BY DEF Abiertas
<1>4. rules # {}
  <2>1. PICK k \in Abiertas(exp) : \E c \in ToSet(exp.reglas[k].codes) : Explicable(c, exp) # None
    BY DEF Codigos
  <2>2. PICK j \in DOMAIN exp.reglas[k].codes : Explicable(exp.reglas[k].codes[j], exp) # None
    BY <2>1 DEF ToSet
  <2> QED BY <2>2
<1>5. rules \subseteq Nat
  BY <1>2, <1>3
<1>6. FirstTold(exp) = exp.reglas[i].codes[Min(telling(i))]
  BY DEF FirstTold
<1>7. i \in rules
  <2> HIDE DEF rules
  <2> QED BY <1>4, <1>5, FirstIs
<1> HIDE DEF i
<1>8. telling(i) # {} /\ telling(i) \subseteq Nat
  BY <1>2, <1>3, <1>7
<1>9. Min(telling(i)) \in telling(i)
  <2>1. PICK S : S = telling(i)
    OBVIOUS
  <2>2. Min(S) \in S
    BY <1>8, <2>1, FirstIs
  <2> QED BY <2>1, <2>2
<1> QED BY <1>6, <1>9

\* What respuesta may tell of a file.
LEMMA RespuestaIs ==
  ASSUME OpenRulesHaveCodes, NEW o \in DOMAIN Caja, NEW exp, exp = Caja[o],
         NEW told, told = Respuesta(exp).divulga
  PROVE  /\ (\E i \in Abiertas(exp) : ToSet(exp.reglas[i].codes) \cap Silencio # {}) => told \subseteq {"incident"}
         /\ "conforming" \in told => exp.decision = "PAGAR" /\ Abiertas(exp) = {}
<1>1. PICK n \in DOMAIN Evaluated : exp = Expediente(Evaluated[n])
  BY FileOfInvoice
<1>2. CASE Silencio \cap Codigos(exp) # {}
  <2>1. told = {"incident"}
    BY <1>2, SaidIs DEF Respuesta
  <2> QED BY <2>1
<1>3. CASE Silencio \cap Codigos(exp) = {}
  <2>1. ~ \E i \in Abiertas(exp) : ToSet(exp.reglas[i].codes) \cap Silencio # {}
    BY <1>3 DEF Codigos
  <2>2. CASE exp.decision = "PAGAR" /\ Codigos(exp) = {}
    <3>1. \A i \in Abiertas(exp) : ToSet(exp.reglas[i].codes) = {}
      BY <2>2 DEF Codigos
    <3>2. \A i \in Abiertas(exp) : DOMAIN exp.reglas[i].codes # {}
      BY <1>1 DEF OpenRulesHaveCodes, Abiertas, Expediente
    <3>3. ASSUME NEW i \in Abiertas(exp) PROVE FALSE
      <4>1. PICK j : j \in DOMAIN exp.reglas[i].codes
        BY <3>2
      <4>2. exp.reglas[i].codes[j] \in ToSet(exp.reglas[i].codes)
        BY <4>1 DEF ToSet
      <4> QED BY <3>1, <4>2
    <3>4. Abiertas(exp) = {}
      BY <3>3
    <3> QED BY <2>1, <2>2, <3>4
  <2>3. CASE ~(exp.decision = "PAGAR" /\ Codigos(exp) = {}) /\ \E c \in Codigos(exp) : Explicable(c, exp) # None
    <3>1. told = Explicable(FirstTold(exp), exp)
      BY <1>3, <2>3, SaidIs, Zenon DEF Respuesta
    <3>2. "conforming" \notin told
      BY <1>1, <2>3, <3>1, FirstToldIs, ExplicableIs
    <3> QED BY <2>1, <3>2
  <2>4. CASE ~(exp.decision = "PAGAR" /\ Codigos(exp) = {}) /\ ~ \E c \in Codigos(exp) : Explicable(c, exp) # None
    <3>1. told = {}
      BY <1>3, <2>4, SaidIs DEF Respuesta, Generica
    <3> QED BY <2>1, <3>1
  <2> QED BY <2>2, <2>3, <2>4
<1> QED BY <1>2, <1>3

\* What holds of the conversations whatever is heard as a yes: the page and
\* every turn in flight are in a state of the dialogue.
TurnsInv ==
    /\ calls \in Nat /\ inFlight \in Seq(Requests)
    /\ Open(estado)
    /\ \A k \in DOMAIN inFlight : Open(inFlight[k].estado)

LEMMA FreshIsOpen == Open(Fresh)
  BY PhoneAssumption DEF Open, Fresh, Estados, MAX_FALLOS

LEMMA TurnsInit == Init => TurnsInv
<1> SUFFICES ASSUME Init PROVE TurnsInv
  OBVIOUS
<1>1. estado = Fresh /\ calls = 0 /\ inFlight = <<>>
  BY DEF Init
<1> QED BY <1>1, FreshIsOpen DEF TurnsInv

LEMMA TurnsStep == TurnsInv /\ [Next]_vars => TurnsInv'
<1> SUFFICES ASSUME TurnsInv, [Next]_vars PROVE TurnsInv'
  OBVIOUS
<1>1. CASE Descolgar
  <2>1. estado' = Fresh /\ calls' = calls + 1 /\ inFlight' = inFlight
    BY <1>1 DEF Descolgar
  <2> QED BY <2>1, FreshIsOpen DEF TurnsInv
<1>2. ASSUME NEW turn \in DOMAIN Turns \cup {None}, Greet \/ Say(turn), Greet => turn = None
      PROVE  TurnsInv'
  <2>0. PICK q : q = Request(turn)
    OBVIOUS
  <2>1. inFlight' = Append(inFlight, q) /\ UNCHANGED <<estado, calls>>
    BY <1>2, <2>0 DEF Greet, Say
  <2>2. q \in Requests /\ q.estado = estado
    BY <2>0 DEF Request, Requests, TurnsInv, Open
  <2>3. /\ inFlight' \in Seq(Requests)
        /\ \A k \in DOMAIN inFlight' : inFlight'[k] = q \/ \E l \in DOMAIN inFlight : inFlight'[k] = inFlight[l]
    BY <2>1, <2>2, JoinedIs DEF TurnsInv
  <2> QED BY <2>1, <2>2, <2>3 DEF TurnsInv
<1>3. ASSUME NEW i \in DOMAIN inFlight, Reply(i) \/ Lost(i) PROVE TurnsInv'
  <2>1. /\ inFlight' = RemoveAt(inFlight, i) /\ UNCHANGED calls
        /\ estado' = estado \/ estado' = ReplyTo(inFlight[i]).estado
    BY <1>3 DEF Reply, Lost
  <2>2. Open(ReplyTo(inFlight[i]).estado)
    <3>1. PICK q \in Requests : q = inFlight[i] /\ Open(q.estado)
      BY DEF TurnsInv
    <3>2. ReplyTo(q) = Avanzar(q.estado, Oye(q.turn))
      BY ReplyIs DEF Requests
    <3>3. Follows(q.estado, ReplyTo(q).estado, Oye(q.turn))
      BY <3>1, <3>2, TurnFollows
    <3> QED BY <3>1, <3>3 DEF Follows, Open
  <2>3. /\ inFlight' \in Seq(Requests)
        /\ \A k \in DOMAIN inFlight' : \E l \in DOMAIN inFlight : inFlight'[k] = inFlight[l]
    BY <2>1, LeftIs DEF TurnsInv
  <2> QED BY <2>1, <2>2, <2>3 DEF TurnsInv
<1>4. CASE Spoken \/ Colgar \/ UNCHANGED vars
  <2>1. UNCHANGED <<estado, inFlight, calls>>
    <3>1. CASE Spoken
      BY <3>1, Zenon DEF Spoken
    <3>2. CASE Colgar
      BY <3>2, Zenon DEF Colgar
    <3>3. CASE UNCHANGED vars
      BY <3>3 DEF vars
    <3> QED BY <1>4, <3>1, <3>2, <3>3
  <2> QED BY <2>1 DEF TurnsInv
<1>5. \A i : Reply(i) \/ Lost(i) => i \in DOMAIN inFlight
  BY DEF Reply, Lost
<1>6. CASE Greet
  BY <1>2, <1>6
<1>7. ASSUME NEW turn \in DOMAIN Turns, Say(turn), ~Greet PROVE TurnsInv'
  BY <1>2, <1>7
<1> QED BY <1>1, <1>3, <1>4, <1>5, <1>6, <1>7 DEF Next

\* A reply about an order tells nothing, or what respuesta tells of its file.
LEMMA AboutAnOrder ==
  ASSUME NEW q \in Requests, Open(q.estado), NEW r, r = ReplyTo(q), r.pedido # None
  PROVE  r.said.divulga = {} \/ (r.pedido \in DOMAIN Caja /\ r.said = Respuesta(Caja[r.pedido]))
<1> DEFINE e      == q.estado
           oye    == Oye(q.turn)
           reply  == Avanzar(e, oye)
           pedido == ParsearPedido(oye)
<1>1. e \in Estados /\ r = reply
  BY ReplyIs DEF Open, Requests
<1>2. \A f : NoEntiendo(f).pedido = None
  BY OutcomeIs DEF NoEntiendo
<1>3. e.paso = "PEDIDO" /\ reply = ResolverPedido(e, oye)
  <2>1. Identifica(e, oye).pedido = None /\ Confirma(e, oye).pedido = None
    BY <1>2, OutcomeIs DEF Identifica, Confirma
  <2>2. e.paso \in {None, "IDENTIFICA", "CONFIRMA", "PEDIDO", "RESPUESTA", "FIN"}
    BY <1>1, EstadoIs
  <2> QED BY <1>1, <2>1, <2>2, AvanzarIs, OutcomeIs
<1>4. \/ reply = NoEntiendo(e)
      \/ \E f : reply = Outcome(f, Said({}, {"owner"}), pedido)
      \/ pedido \in DOMAIN Caja /\ \E f : reply = Outcome(f, Respuesta(Caja[pedido]), pedido)
  BY <1>3, Zenon DEF ResolverPedido
<1> HIDE DEF reply, pedido, e
<1> QED BY <1>1, <1>2, <1>4, OutcomeIs, SaidIs

LEMMA SilenceFollows == ASSUME OpenRulesHaveCodes PROVE TurnsInv => SilenceWins
<1> SUFFICES ASSUME OpenRulesHaveCodes, TurnsInv, NEW k \in DOMAIN inFlight,
                    ReplyTo(inFlight[k]).pedido # None
             PROVE  LET exp  == Caja[ReplyTo(inFlight[k]).pedido]
                        told == ReplyTo(inFlight[k]).said.divulga
                    IN  /\ (\E i \in Abiertas(exp) : ToSet(exp.reglas[i].codes) \cap Silencio # {})
                              => told \subseteq {"incident"}
                        /\ "conforming" \in told => exp.decision = "PAGAR" /\ Abiertas(exp) = {}
  BY DEF SilenceWins, Abiertas
<1>1. PICK r : r = ReplyTo(inFlight[k])
  OBVIOUS
<1>2. r.said.divulga = {} \/ (r.pedido \in DOMAIN Caja /\ r.said = Respuesta(Caja[r.pedido]))
  BY <1>1, AboutAnOrder DEF TurnsInv
<1>3. CASE r.said.divulga = {}
  BY <1>1, <1>3
<1>4. CASE r.pedido \in DOMAIN Caja /\ r.said = Respuesta(Caja[r.pedido])
  BY <1>1, <1>4, RespuestaIs
<1> QED BY <1>2, <1>3, <1>4

(* The page and every turn in flight are in a state that the conversation     *)
(* really reached, and nobody is asked for his order before he said who he is *)
(* (avanzar, and the page's answers in llamada.js), whatever is heard as yes  *)
(* only where yes was meant.                                                  *)
THEOREM PhoneInvariant == ASSUME YesIsMeant PROVE Spec => []PhoneInv
  BY PhoneInit, PhoneStep, PTL DEF Spec

(* Whoever hears anything of an order whose owner is known said yes, on this  *)
(* page, to being its owner: the cross-check of _resolver_pedido stands behind *)
(* a confirmation that late, crossed and lost answers do not skip, for any    *)
(* number of calls, of turns in flight and of orders.                         *)
THEOREM OwnersAlone == ASSUME YesIsMeant PROVE Spec => []OwnerHears
  BY PhoneInvariant, OwnerFollows, PTL

(* A file with anything to be kept silent gives away an incident and nothing  *)
(* else, and an invoice is called conforming only when it is to be paid and   *)
(* no rule is open (respuesta), in whatever turn it is asked about.           *)
THEOREM SilenceFirst == ASSUME OpenRulesHaveCodes PROVE Spec => []SilenceWins
  BY TurnsInit, TurnsStep, SilenceFollows, PTL DEF Spec
=============================================================================
