----------------------------- MODULE Ledger_proofs ----------------------------
(***************************************************************************)
(* Theorems about money: of Ledger, for every set of releases, payments,   *)
(* callbacks and clients, whatever a stay costs; and of Charges, for every *)
(* book of rate plans that the database can hold and any number of writers.*)
(*                                                                         *)
(* Both follow sums over data, of the payments of an invoice and of what   *)
(* each slab of a plan adds.  Recursive functions define them, and what    *)
(* they compute follows from the least counterexample.                     *)
(***************************************************************************)
EXTENDS Ledger, Charges, FiniteSetTheorems, WellFoundedInduction, TLAPS

InvoiceRow == [status: InvoiceStatus \cup {Absent}, total: Nat, paid: Nat, number: Nat]
NoteRow == [status: InvoiceStatus \cup {Absent}, number: Nat]
PaymentRow == [status: PaymentStatus \cup {Absent}, invoice: Releases \cup {Nobody}, amount: Nat,
               via: {"hand", "gateway"}]
EventRow == [status: {Absent, "STORED", "PROCESSED"}, payment: Payments \cup {Nobody}, outcome: Outcome]

Uses(c, e) == txn[c].op \in {"callback", "apply", "credit"} /\ txn[c].event = e

(* A payment row bills an invoice, a stored callback names a payment, and  *)
(* a callback that is being applied has found its payment.                 *)
Refs ==
  /\ \A p \in Payments : payment[p].status # Absent =>
       payment[p].invoice \in Releases /\ payment[p].amount \in Amounts
  /\ \A e \in Events : event[e].status # Absent => event[e].payment \in Payments
  /\ \A c \in Clients, e \in Events : Uses(c, e) => event[e].status # Absent
  /\ \A c \in Clients : txn[c].op = "apply" =>
       /\ event[txn[c].event].outcome # "DIFFERS"
       /\ payment[event[txn[c].event].payment].status # Absent

Sound == TypeOK /\ Refs

LEMMA Types ==
  ASSUME TypeOK
  PROVE  /\ invoice \in [Releases -> InvoiceRow] /\ note \in [Releases -> NoteRow]
         /\ payment \in [Payments -> PaymentRow] /\ event \in [Events -> EventRow]
         /\ txn \in [Clients -> Txn] /\ series \in [parking: Nat, credit: Nat]
         /\ series.parking \in Nat /\ series.credit \in Nat
         /\ \A i \in Releases : invoice[i] \in InvoiceRow /\ note[i] \in NoteRow
         /\ \A p \in Payments : payment[p] \in PaymentRow
         /\ \A e \in Events : event[e] \in EventRow
         /\ Amounts \subseteq Nat \ {0} /\ Totals \subseteq Nat
         /\ Nobody \notin Releases /\ Nobody \notin Payments /\ Nobody \notin Events
<1>1. series.parking \in Nat /\ series.credit \in Nat
  BY DEF TypeOK
<1>2. /\ invoice \in [Releases -> InvoiceRow] /\ note \in [Releases -> NoteRow]
      /\ payment \in [Payments -> PaymentRow] /\ event \in [Events -> EventRow]
      /\ txn \in [Clients -> Txn] /\ series \in [parking: Nat, credit: Nat]
  BY DEF TypeOK, InvoiceRow, NoteRow, PaymentRow, EventRow
<1> QED BY <1>1, <1>2, MoneyAssumption, NobodyAssumption

(* What an open request has read, by its kind.                             *)
LEMMA Kinds ==
  ASSUME NEW t \in Txn
  PROVE  /\ t.op \in {"idle", "generate", "initiate", "callback", "apply", "credit"}
         /\ t.op = "generate" => t.invoice \in Releases /\ t.total \in Totals /\ t.number \in Nat
         /\ t.op = "initiate" => t.payment \in Payments /\ t.invoice \in Releases /\ t.amount \in Amounts
         /\ t.op \in {"callback", "apply"} => t.event \in Events
         /\ t.op = "credit" => /\ t.payment \in Payments /\ t.invoice \in Releases
                               /\ t.amount \in Amounts /\ t.paid \in Nat
                               /\ t.event \in Events \cup {Nobody}
         /\ t.op = "idle" <=> t = Idle
  BY DEF Txn, Idle

LEMMA MadeTxn ==
  /\ Idle \in Txn /\ Idle.op = "idle"
  /\ \A i \in Releases, m \in Totals, n \in Nat :
       LET t == [op |-> "generate", invoice |-> i, total |-> m, number |-> n] IN t \in Txn
  /\ \A p \in Payments, i \in Releases, a \in Amounts :
       LET t == [op |-> "initiate", payment |-> p, invoice |-> i, amount |-> a] IN t \in Txn
  /\ \A e \in Events :
       LET t == [op |-> "callback", event |-> e]
           u == [op |-> "apply", event |-> e] IN t \in Txn /\ u \in Txn
  /\ \A p \in Payments, i \in Releases, a \in Amounts, n \in Nat, e \in Events \cup {Nobody} :
       LET t == [op |-> "credit", payment |-> p, invoice |-> i, amount |-> a, paid |-> n, event |-> e]
       IN  t \in Txn
  BY DEF Txn, Idle

(* The callback of a client: its event stays the same when it is applied.  *)
LEMMA ApplyTxn ==
  ASSUME TypeOK, NEW c \in Clients, txn[c].op = "callback"
  PROVE  /\ [txn[c] EXCEPT !.op = "apply"] = [op |-> "apply", event |-> txn[c].event]
         /\ txn[c].event \in Events
<1>1. PICK t \in Txn : t = txn[c]
  BY Types
<1>2. t \in [op: {"callback", "apply"}, event: Events]
  BY <1>1 DEF Txn, Idle
<1>3. [t EXCEPT !.op = "apply"] = [op |-> "apply", event |-> t.event]
  BY <1>2
<1> QED BY <1>1, <1>2, <1>3

------------------------------------------------------------------------------
(* What the writing steps do to the rows                                   *)

LEMMA GenerateRows ==
  ASSUME TypeOK, NEW c \in Clients, CommitGenerate(c)
  PROVE  \E i \in Releases, m \in Totals, n \in Nat :
           /\ i = txn[c].invoice /\ m = txn[c].total /\ n = txn[c].number /\ txn[c].op = "generate"
           /\ invoice[i].status = Absent /\ invoice' \in [Releases -> InvoiceRow]
           /\ invoice'[i].status = "GENERATED" /\ invoice'[i].total = m
           /\ invoice'[i].paid = 0 /\ invoice'[i].number = n
           /\ \A j \in Releases : j # i => invoice'[j] = invoice[j]
           /\ series' \in [parking: Nat, credit: Nat]
           /\ series'.parking = n + 1 /\ series'.credit = series.credit
           /\ txn' = [txn EXCEPT ![c] = Idle]
           /\ UNCHANGED <<note, payment, intents, event>>
<1>1. PICK t \in Txn : t = txn[c]
  BY Types
<1>2. PICK i \in Releases, m \in Totals, n \in Nat :
        i = t.invoice /\ m = t.total /\ n = t.number /\ t.op = "generate"
  BY <1>1, Kinds DEF CommitGenerate
<1> DEFINE row == [status |-> "GENERATED", total |-> m, paid |-> 0, number |-> n]
<1>3. row \in InvoiceRow
  BY Types DEF InvoiceRow, InvoiceStatus
<1>4. invoice' = [invoice EXCEPT ![i] = row] /\ invoice[i].status = Absent
      /\ series' = [series EXCEPT !.parking = n + 1] /\ txn' = [txn EXCEPT ![c] = Idle]
      /\ UNCHANGED <<note, payment, intents, event>>
  BY <1>1, <1>2 DEF CommitGenerate, Finish
<1>5. series' \in [parking: Nat, credit: Nat] /\ series'.parking = n + 1 /\ series'.credit = series.credit
  BY <1>4, Types
<1>6. invoice' \in [Releases -> InvoiceRow] /\ invoice'[i] = row
      /\ \A j \in Releases : j # i => invoice'[j] = invoice[j]
  <2> HIDE DEF row
  <2> QED BY <1>3, <1>4, Types
<1>7. row.status = "GENERATED" /\ row.total = m /\ row.paid = 0 /\ row.number = n
  OBVIOUS
<1> QED
  <2> HIDE DEF row
  <2> QED BY <1>1, <1>2, <1>4, <1>5, <1>6, <1>7

(* Issue and VoidInvoice: only the status of the invoice changes.          *)
LEMMA StatusRows ==
  ASSUME TypeOK, NEW i \in Releases, NEW s \in InvoiceStatus,
         invoice' = [invoice EXCEPT ![i].status = s]
  PROVE  /\ invoice' \in [Releases -> InvoiceRow]
         /\ invoice'[i].status = s
         /\ \A j \in Releases : /\ invoice'[j].total = invoice[j].total
                                /\ invoice'[j].paid = invoice[j].paid
                                /\ invoice'[j].number = invoice[j].number
                                /\ j # i => invoice'[j] = invoice[j]
  BY Types DEF InvoiceRow

LEMMA NoteRows ==
  ASSUME TypeOK, NEW i \in Releases, RaiseNote(i)
  PROVE  /\ note' \in [Releases -> NoteRow] /\ series' \in [parking: Nat, credit: Nat]
         /\ series'.parking = series.parking
         /\ \A j \in Releases : j # i => note'[j] = note[j]
         /\ IF invoice[i].total > 0
              THEN /\ note[i].status = Absent
                   /\ note'[i].status = "ISSUED" /\ note'[i].number = series.credit
                   /\ series'.credit = series.credit + 1
              ELSE note' = note /\ series' = series
<1>1. CASE invoice[i].total > 0
  <2> DEFINE row == [status |-> "ISSUED", number |-> series.credit]
  <2>1. row \in NoteRow /\ row.status = "ISSUED" /\ row.number = series.credit
    BY Types DEF NoteRow, InvoiceStatus
  <2>2. note[i].status = Absent /\ note' = [note EXCEPT ![i] = row]
        /\ series' = [series EXCEPT !.credit = series.credit + 1]
    BY <1>1, Types DEF RaiseNote
  <2>3. series' \in [parking: Nat, credit: Nat] /\ series'.parking = series.parking
        /\ series'.credit = series.credit + 1
    BY <2>2, Types
  <2> HIDE DEF row
  <2> QED BY <1>1, <2>1, <2>2, <2>3, Types
<1>2. CASE ~(invoice[i].total > 0)
  BY <1>2, Types DEF RaiseNote
<1> QED BY <1>1, <1>2

LEMMA VoidNoteRows ==
  ASSUME TypeOK, NEW c \in Clients, NEW i \in Releases, VoidNote(c, i)
  PROVE  /\ note' \in [Releases -> NoteRow] /\ note[i].status # Absent /\ note'[i].status # Absent
         /\ \A j \in Releases : note'[j].number = note[j].number /\ (j # i => note'[j] = note[j])
         /\ UNCHANGED <<invoice, series, payment, intents, event, txn>>
<1>1. note' = [note EXCEPT ![i].status = "VOID"] /\ "VOID" \in InvoiceStatus /\ note[i].status # Absent
  BY DEF VoidNote, InvoiceMay, InvoiceStatus, Absent
<1>2. note' \in [Releases -> NoteRow] /\ note'[i].status = "VOID"
      /\ \A j \in Releases : note'[j].number = note[j].number /\ (j # i => note'[j] = note[j])
  BY <1>1, Types DEF NoteRow
<1> QED BY <1>1, <1>2 DEF VoidNote, Absent

LEMMA CreditRows ==
  ASSUME TypeOK, NEW c \in Clients, CommitCredit(c)
  PROVE  \E p \in Payments, i \in Releases, a \in Amounts, n \in Nat, e \in Events \cup {Nobody} :
           /\ txn[c].op = "credit" /\ p = txn[c].payment /\ i = txn[c].invoice
           /\ a = txn[c].amount /\ n = txn[c].paid /\ e = txn[c].event
           /\ e = Nobody => payment[p].status = Absent
           /\ payment' \in [Payments -> PaymentRow]
           /\ payment'[p].status = "SUCCESS" /\ payment'[p].invoice = i /\ payment'[p].amount = a
           /\ payment'[p].via = IF e = Nobody THEN "hand" ELSE "gateway"
           /\ \A q \in Payments : q # p => payment'[q] = payment[q]
           /\ invoice' \in [Releases -> InvoiceRow]
           /\ invoice'[i].status = IF n >= invoice[i].total THEN "PAID" ELSE "PARTIALLY_PAID"
           /\ invoice'[i].paid = n
           /\ \A j \in Releases : /\ invoice'[j].total = invoice[j].total
                                  /\ invoice'[j].number = invoice[j].number
                                  /\ j # i => invoice'[j] = invoice[j]
           /\ event' = Processed(e)
           /\ txn' = [txn EXCEPT ![c] = Idle]
           /\ UNCHANGED <<note, series, intents>>
<1>1. PICK t \in Txn : t = txn[c]
  BY Types
<1>2. PICK p \in Payments, i \in Releases, a \in Amounts, n \in Nat, e \in Events \cup {Nobody} :
        /\ t.op = "credit" /\ p = t.payment /\ i = t.invoice /\ a = t.amount /\ n = t.paid /\ e = t.event
  BY <1>1, Kinds DEF CommitCredit
<1> DEFINE row == [status |-> "SUCCESS", invoice |-> i, amount |-> a, via |-> IF e = Nobody THEN "hand" ELSE "gateway"]
           s == IF n >= invoice[i].total THEN "PAID" ELSE "PARTIALLY_PAID"
<1>3. row \in PaymentRow /\ row.status = "SUCCESS" /\ row.invoice = i /\ row.amount = a
      /\ row.via = IF e = Nobody THEN "hand" ELSE "gateway"
  BY Types DEF PaymentRow, PaymentStatus
<1>4. payment' = [payment EXCEPT ![p] = row] /\ event' = Processed(e)
      /\ (e = Nobody => payment[p].status = Absent)
      /\ txn' = [txn EXCEPT ![c] = Idle] /\ UNCHANGED <<note, series, intents>>
  BY <1>1, <1>2 DEF CommitCredit, Succeeded, Finish
<1>5. payment' \in [Payments -> PaymentRow] /\ payment'[p] = row
      /\ \A q \in Payments : q # p => payment'[q] = payment[q]
  <2> HIDE DEF row
  <2> QED BY <1>3, <1>4, Types
<1>6. invoice' = [invoice EXCEPT ![i].paid = n, ![i].status = s]
  BY <1>1, <1>2 DEF CommitCredit, StatusWhenPaid
<1>7. s \in InvoiceStatus
  BY DEF InvoiceStatus
<1>8. /\ invoice' \in [Releases -> InvoiceRow] /\ invoice'[i].status = s /\ invoice'[i].paid = n
      /\ \A j \in Releases : /\ invoice'[j].total = invoice[j].total
                             /\ invoice'[j].number = invoice[j].number
                             /\ j # i => invoice'[j] = invoice[j]
  <2> DEFINE new == [invoice[i] EXCEPT !.paid = n, !.status = s]
  <2>1. PICK r \in InvoiceRow : r = invoice[i]
    BY Types
  <2> HIDE DEF s
  <2>2. [r EXCEPT !.paid = n, !.status = s] \in InvoiceRow
        /\ [r EXCEPT !.paid = n, !.status = s].status = s /\ [r EXCEPT !.paid = n, !.status = s].paid = n
        /\ [r EXCEPT !.paid = n, !.status = s].total = r.total
        /\ [r EXCEPT !.paid = n, !.status = s].number = r.number
    BY <1>7, <2>1 DEF InvoiceRow
  <2>3. invoice' = [invoice EXCEPT ![i] = new]
    BY <1>6, Types
  <2>4. new \in InvoiceRow /\ new.status = s /\ new.paid = n /\ new.total = invoice[i].total
        /\ new.number = invoice[i].number
    BY <2>1, <2>2
  <2> HIDE DEF new
  <2> QED BY <2>3, <2>4, Types
<1> QED
  <2> HIDE DEF row
  <2> QED BY <1>1, <1>2, <1>3, <1>4, <1>5, <1>8

(* A callback is processed; nothing else of it changes.                    *)
LEMMA ProcessedRows ==
  ASSUME TypeOK, NEW e \in Events \cup {Nobody}, event' = Processed(e)
  PROVE  /\ event' \in [Events -> EventRow]
         /\ \A f \in Events : /\ event'[f].payment = event[f].payment
                              /\ event'[f].outcome = event[f].outcome
                              /\ event'[f].status = IF f = e THEN "PROCESSED" ELSE event[f].status
                              /\ f # e => event'[f] = event[f]
<1>1. CASE e = Nobody
  BY <1>1, Types DEF Processed
<1>2. CASE e # Nobody
  <2>1. event' = [event EXCEPT ![e].status = "PROCESSED"] /\ e \in Events
    BY <1>2 DEF Processed
  <2> QED BY <2>1, Types DEF EventRow
<1> QED BY <1>1, <1>2

------------------------------------------------------------------------------
(* Types and references                                                    *)

(* A step that inserts rows, fills them, or opens or closes one request.   *)
RowsTyped ==
  /\ invoice \in [Releases -> InvoiceRow] /\ note \in [Releases -> NoteRow]
  /\ series \in [parking: Nat, credit: Nat] /\ payment \in [Payments -> PaymentRow]
  /\ intents \subseteq Payments /\ event \in [Events -> EventRow]

PaymentsKept ==
  \A p \in Payments : /\ payment[p].status # Absent => payment'[p].status # Absent
                      /\ payment'[p].status # Absent =>
                           payment'[p].invoice \in Releases /\ payment'[p].amount \in Amounts

EventsKept ==
  \A e \in Events : /\ event[e].status # Absent => /\ event'[e].status # Absent
                                                   /\ event'[e].payment = event[e].payment
                                                   /\ event'[e].outcome = event[e].outcome
                    /\ event'[e].status # Absent => event'[e].payment \in Payments

LEMMA SoundStep ==
  ASSUME Sound, NEW c \in Clients, NEW t \in Txn, RowsTyped', PaymentsKept, EventsKept,
         txn' = [txn EXCEPT ![c] = t], raced' \subseteq Releases,
         \A e \in Events : t.op \in {"callback", "apply", "credit"} /\ t.event = e =>
                             event'[e].status # Absent,
         t.op = "apply" => /\ event'[t.event].outcome # "DIFFERS"
                           /\ payment'[event'[t.event].payment].status # Absent
  PROVE  Sound'
<1> USE DEF RowsTyped, PaymentsKept, EventsKept
<1>1. TypeOK'
  BY Types DEF Sound, TypeOK, InvoiceRow, NoteRow, PaymentRow, EventRow
<1>2. \A d \in Clients : txn'[d] = IF d = c THEN t ELSE txn[d]
  BY Types DEF Sound
<1>3. \A d \in Clients, e \in Events : Uses(d, e)' => event'[e].status # Absent
  BY <1>2 DEF Uses, Sound, Refs
<1>4. \A d \in Clients : txn'[d].op = "apply" =>
        /\ event'[txn'[d].event].outcome # "DIFFERS"
        /\ payment'[event'[txn'[d].event].payment].status # Absent
  <2> SUFFICES ASSUME NEW d \in Clients, txn'[d].op = "apply"
               PROVE  /\ event'[txn'[d].event].outcome # "DIFFERS"
                      /\ payment'[event'[txn'[d].event].payment].status # Absent
    OBVIOUS
  <2>1. CASE d # c
    <3>1. txn[d].op = "apply" /\ txn'[d] = txn[d] /\ txn[d] \in Txn
      BY <1>2, <2>1, Types DEF Sound
    <3>2. PICK e \in Events : e = txn[d].event
      BY <3>1, Kinds
    <3>3. /\ event[e].status # Absent /\ event[e].outcome # "DIFFERS"
          /\ event[e].payment \in Payments /\ payment[event[e].payment].status # Absent
      BY <3>1, <3>2 DEF Sound, Refs, Uses
    <3> QED BY <3>1, <3>2, <3>3
  <2> QED BY <1>2, <2>1
<1> QED BY <1>1, <1>3, <1>4 DEF Sound, Refs

LEMMA RowsAreTyped == Sound => RowsTyped
  BY Types DEF Sound, TypeOK, RowsTyped

LEMMA NothingMoves ==
  /\ Sound /\ UNCHANGED payment => PaymentsKept
  /\ Sound /\ UNCHANGED event => EventsKept
  BY DEF Sound, Refs, PaymentsKept, EventsKept

(* A request that ends.                                                    *)
LEMMA SoundEnd ==
  ASSUME Sound, NEW c \in Clients, RowsTyped', PaymentsKept, EventsKept,
         txn' = [txn EXCEPT ![c] = Idle], raced' \subseteq Releases
  PROVE  Sound'
  BY SoundStep, MadeTxn

LEMMA StatusNames ==
  /\ PaymentStatus \cup {Absent} = {"INITIATED", "PENDING", "SUCCESS", "FAILED", "CANCELLED",
                                     "REFUNDED", "ABSENT"}
  /\ \A o \in Outcome : o # "DIFFERS" => o \in PaymentStatus /\ o # Absent
  BY DEF PaymentStatus, Absent, Outcome

(* The first rows of a bill.                                               *)
LEMMA InvoicingSound ==
  ASSUME Sound, raced' \subseteq Releases, Invoicing
  PROVE  Sound'
<1>0. TypeOK /\ RowsTyped
  BY RowsAreTyped DEF Sound
<1>1. ASSUME NEW c \in Clients, NEW i \in Releases, NEW m \in Totals, BeginGenerate(c, i, m)
      PROVE  Sound'
  <2> DEFINE t == [op |-> "generate", invoice |-> i, total |-> m, number |-> series.parking]
  <2>1. t \in Txn /\ t.op = "generate" /\ txn' = [txn EXCEPT ![c] = t]
        /\ UNCHANGED <<invoice, note, series, payment, intents, event>>
    BY <1>1, <1>0, Types, MadeTxn DEF BeginGenerate, Begin
  <2>2. RowsTyped' /\ PaymentsKept /\ EventsKept
    BY <2>1, <1>0, NothingMoves DEF RowsTyped
  <2> HIDE DEF t
  <2> QED BY <2>1, <2>2, SoundStep
<1>2. ASSUME NEW c \in Clients, CommitGenerate(c)
      PROVE  Sound'
  <2>1. /\ invoice' \in [Releases -> InvoiceRow] /\ series' \in [parking: Nat, credit: Nat]
        /\ txn' = [txn EXCEPT ![c] = Idle] /\ UNCHANGED <<note, payment, intents, event>>
    BY <1>0, <1>2, GenerateRows
  <2>2. RowsTyped' /\ PaymentsKept /\ EventsKept
    BY <2>1, <1>0, NothingMoves DEF RowsTyped
  <2> QED BY <2>1, <2>2, SoundEnd
<1>3. ASSUME NEW c \in Clients, NEW i \in Releases, Issue(c, i) \/ VoidInvoice(c, i) \/ VoidNote(c, i)
      PROVE  Sound'
  <2>1. /\ invoice' \in [Releases -> InvoiceRow] /\ note' \in [Releases -> NoteRow]
        /\ series' \in [parking: Nat, credit: Nat]
        /\ txn[c] = Idle /\ UNCHANGED <<payment, intents, event, txn>>
    <3>1. CASE Issue(c, i)
      <4>1. invoice' = [invoice EXCEPT ![i].status = "ISSUED"] /\ "ISSUED" \in InvoiceStatus
        BY <3>1 DEF Issue, InvoiceStatus
      <4>2. invoice' \in [Releases -> InvoiceRow]
        BY <1>0, <4>1, StatusRows
      <4> QED BY <1>0, <3>1, <4>2 DEF Issue, RowsTyped
    <3>2. CASE VoidInvoice(c, i)
      <4>1. invoice' = [invoice EXCEPT ![i].status = "VOID"] /\ "VOID" \in InvoiceStatus
        BY <3>2 DEF VoidInvoice, InvoiceStatus
      <4>2. invoice' \in [Releases -> InvoiceRow]
        BY <1>0, <4>1, StatusRows
      <4>3. RaiseNote(i)
        BY <3>2 DEF VoidInvoice
      <4> QED BY <1>0, <3>2, <4>2, <4>3, NoteRows DEF VoidInvoice
    <3>3. CASE VoidNote(c, i)
      BY <1>0, <3>3, VoidNoteRows DEF VoidNote, RowsTyped
    <3> QED BY <1>3, <3>1, <3>2, <3>3
  <2>2. RowsTyped' /\ PaymentsKept /\ EventsKept /\ txn' = [txn EXCEPT ![c] = Idle]
    BY <1>0, <2>1, NothingMoves DEF RowsTyped, TypeOK
  <2> QED BY <2>1, <2>2, SoundEnd
<1> QED BY <1>1, <1>2, <1>3 DEF Invoicing

LEMMA PayingSound ==
  ASSUME Sound, raced' \subseteq Releases, Paying
  PROVE  Sound'
<1>0. TypeOK /\ RowsTyped
  BY RowsAreTyped DEF Sound
<1>1. ASSUME NEW c \in Clients, NEW p \in Payments, NEW i \in Releases, NEW a \in Amounts,
             BeginManualPayment(c, p, i, a) \/ BeginInitiate(c, p, i, a)
      PROVE  Sound'
  <2>1. \E t \in Txn : /\ t.op = "initiate" \/ (t.op = "credit" /\ t.event = Nobody)
                       /\ txn' = [txn EXCEPT ![c] = t]
                       /\ RowsTyped' /\ UNCHANGED <<invoice, note, series, payment, event>>
    <3>1. CASE BeginManualPayment(c, p, i, a)
      <4>1. invoice[i].paid + a \in Nat
        BY Types DEF Sound, InvoiceRow
      <4>2. PICK n \in Nat : n = invoice[i].paid + a
        BY <4>1
      <4> DEFINE t == [op |-> "credit", payment |-> p, invoice |-> i, amount |-> a, paid |-> n,
                       event |-> Nobody]
      <4>3. t \in Txn /\ t.op = "credit" /\ t.event = Nobody
        BY MadeTxn
      <4>4. txn' = [txn EXCEPT ![c] = t] /\ UNCHANGED <<invoice, note, series, payment, intents, event>>
        BY <3>1, <4>2 DEF BeginManualPayment, Begin, Credit
      <4> HIDE DEF t
      <4>5. RowsTyped'
        BY <1>0, <4>4 DEF RowsTyped
      <4> QED BY <4>3, <4>4, <4>5
    <3>2. CASE BeginInitiate(c, p, i, a)
      <4> DEFINE t == [op |-> "initiate", payment |-> p, invoice |-> i, amount |-> a]
      <4>1. t \in Txn /\ t.op = "initiate"
        BY MadeTxn
      <4>2. txn' = [txn EXCEPT ![c] = t] /\ intents' = intents \cup {p}
            /\ UNCHANGED <<invoice, note, series, payment, event>>
        BY <3>2 DEF BeginInitiate, Begin
      <4> HIDE DEF t
      <4>3. RowsTyped'
        BY <1>0, <4>2 DEF RowsTyped
      <4> QED BY <4>1, <4>2, <4>3
    <3> QED BY <1>1, <3>1, <3>2
  <2>2. PaymentsKept /\ EventsKept
    BY <2>1, NothingMoves
  <2>3. PICK t \in Txn : /\ t.op = "initiate" \/ (t.op = "credit" /\ t.event = Nobody)
                         /\ txn' = [txn EXCEPT ![c] = t] /\ RowsTyped'
    BY <2>1
  <2>4. \A e \in Events : t.op \in {"callback", "apply", "credit"} /\ t.event = e => FALSE
    BY <1>0, <2>3, Types
  <2>5. t.op # "apply"
    BY <2>3
  <2> QED BY <2>2, <2>3, <2>4, <2>5, SoundStep
<1>2. ASSUME NEW c \in Clients, CommitCredit(c)
      PROVE  Sound'
  <2>1. PICK e \in Events \cup {Nobody}, p \in Payments, i \in Releases, a \in Amounts :
          /\ payment' \in [Payments -> PaymentRow]
          /\ payment'[p].status = "SUCCESS" /\ payment'[p].invoice = i /\ payment'[p].amount = a
          /\ \A q \in Payments : q # p => payment'[q] = payment[q]
          /\ invoice' \in [Releases -> InvoiceRow]
          /\ event' = Processed(e) /\ txn' = [txn EXCEPT ![c] = Idle]
          /\ txn[c].op = "credit" /\ txn[c].event = e
          /\ UNCHANGED <<note, series, intents>>
    BY <1>2, CreditRows DEF Sound
  <2>2. \A q \in Payments : /\ payment[q].status # Absent => payment'[q].status # Absent
                            /\ payment'[q].status # Absent =>
                                 payment'[q].invoice \in Releases /\ payment'[q].amount \in Amounts
    BY <2>1 DEF Sound, Refs, Absent
  <2>3. /\ event' \in [Events -> EventRow]
        /\ \A f \in Events : /\ event'[f].payment = event[f].payment
                             /\ event'[f].outcome = event[f].outcome
                             /\ event'[f].status = IF f = e THEN "PROCESSED" ELSE event[f].status
    BY <2>1, ProcessedRows DEF Sound
  <2>4. \A f \in Events : /\ event[f].status # Absent => event'[f].status # Absent
                          /\ event'[f].status # Absent => event'[f].payment \in Payments
    <3>1. e \in Events => event[e].status # Absent
      BY <2>1 DEF Sound, Refs, Uses
    <3>2. \A f \in Events : event[f].status # Absent => event[f].payment \in Payments
      BY DEF Sound, Refs
    <3> QED BY <2>3, <3>1, <3>2 DEF Absent
  <2>5. RowsTyped'
    BY <1>0, <2>1, <2>3 DEF RowsTyped
  <2>6. PaymentsKept
    BY <2>2 DEF PaymentsKept
  <2>7. EventsKept
    BY <2>3, <2>4 DEF EventsKept
  <2> QED BY <2>1, <2>5, <2>6, <2>7, SoundEnd
<1>3. ASSUME NEW c \in Clients, CommitInitiate(c)
      PROVE  Sound'
  <2>1. PICK p \in Payments, i \in Releases, a \in Amounts :
          p = txn[c].payment /\ i = txn[c].invoice /\ a = txn[c].amount
    BY <1>3, Kinds, Types DEF Sound, CommitInitiate
  <2> DEFINE row == [status |-> "PENDING", invoice |-> i, amount |-> a, via |-> "gateway"]
  <2>2. row \in PaymentRow /\ row.status # Absent /\ row.invoice = i /\ row.amount = a
    BY Types DEF Sound, PaymentRow, PaymentStatus, Absent
  <2>3. payment' = [payment EXCEPT ![p] = row] /\ txn' = [txn EXCEPT ![c] = Idle]
        /\ UNCHANGED <<invoice, note, series, intents, event>>
    BY <1>3, <2>1 DEF CommitInitiate, Finish
  <2> HIDE DEF row
  <2>4. payment' \in [Payments -> PaymentRow]
        /\ \A q \in Payments : payment'[q] = IF q = p THEN row ELSE payment[q]
    BY <2>2, <2>3, Types DEF Sound
  <2>5. RowsTyped'
    BY <1>0, <2>3, <2>4 DEF RowsTyped
  <2>6. PaymentsKept /\ EventsKept
    BY <2>2, <2>3, <2>4, NothingMoves DEF PaymentsKept, Sound, Refs
  <2> QED BY <2>3, <2>5, <2>6, SoundEnd
<1>4. ASSUME NEW c \in Clients, NEW e \in Events, NEW p \in Payments, NEW o \in Outcomes,
             StoreCallback(c, e, p, o)
      PROVE  Sound'
  <2> DEFINE row == [status |-> "STORED", payment |-> p, outcome |-> o]
             t == [op |-> "callback", event |-> e]
  <2>1. row \in EventRow /\ row.status # Absent /\ row.payment = p
    BY OutcomesAssumption DEF EventRow, Absent
  <2>2. t \in Txn /\ t.op = "callback" /\ t.event = e
    BY MadeTxn
  <2>3. event' = [event EXCEPT ![e] = row] /\ txn' = [txn EXCEPT ![c] = t] /\ event[e].status = Absent
        /\ UNCHANGED <<invoice, note, series, payment, intents>>
    BY <1>4 DEF StoreCallback, Begin
  <2> HIDE DEF row, t
  <2>4. event' \in [Events -> EventRow]
        /\ \A f \in Events : event'[f] = IF f = e THEN row ELSE event[f]
    BY <2>1, <2>3, Types DEF Sound
  <2>5. RowsTyped'
    BY <1>0, <2>3, <2>4 DEF RowsTyped
  <2>6. PaymentsKept /\ EventsKept
    BY <2>1, <2>3, <2>4, NothingMoves DEF EventsKept, Sound, Refs
  <2> QED BY <2>1, <2>2, <2>3, <2>4, <2>5, <2>6, SoundStep
<1>5. ASSUME NEW c \in Clients, Disregard(c)
      PROVE  Sound'
  <2>1. PICK e \in Events : e = txn[c].event
    BY <1>5, Kinds, Types DEF Sound, Disregard
  <2>2. /\ event' = Processed(e) /\ txn' = [txn EXCEPT ![c] = Idle] /\ event[e].status # Absent
        /\ UNCHANGED <<invoice, note, series, payment, intents>>
    BY <1>5, <2>1 DEF Disregard, Finish, Sound, Refs, Uses
  <2>3. /\ event' \in [Events -> EventRow]
        /\ \A f \in Events : /\ event'[f].payment = event[f].payment
                             /\ event'[f].outcome = event[f].outcome
                             /\ event'[f].status = IF f = e THEN "PROCESSED" ELSE event[f].status
    BY <2>2, ProcessedRows DEF Sound
  <2>4. \A f \in Events : /\ event[f].status # Absent => event'[f].status # Absent
                          /\ event'[f].status # Absent => event'[f].payment \in Payments
    BY <2>2, <2>3 DEF Absent, Sound, Refs
  <2>5. RowsTyped'
    BY <1>0, <2>2, <2>3 DEF RowsTyped
  <2>6. PaymentsKept /\ EventsKept
    BY <2>2, <2>3, <2>4, NothingMoves DEF EventsKept
  <2> QED BY <2>2, <2>5, <2>6, SoundEnd
<1>6. ASSUME NEW c \in Clients, ReadPayment(c)
      PROVE  Sound'
  <2>1. PICK e \in Events : e = txn[c].event
    BY <1>6, Kinds, Types DEF Sound, ReadPayment
  <2> DEFINE t == [op |-> "apply", event |-> e]
  <2>2. t \in Txn /\ t.op = "apply" /\ t.event = e
    BY MadeTxn
  <2>3. /\ txn' = [txn EXCEPT ![c] = t] /\ UNCHANGED <<invoice, note, series, payment, intents, event>>
        /\ event[e].status # Absent /\ event[e].outcome # "DIFFERS"
        /\ payment[event[e].payment].status # Absent
    <3>1. txn[c].op = "callback"
      BY <1>6 DEF ReadPayment
    <3>2. [txn[c] EXCEPT !.op = "apply"] = t
      BY <2>1, <3>1, ApplyTxn DEF Sound
    <3>3. txn' = [txn EXCEPT ![c] = [txn[c] EXCEPT !.op = "apply"]]
      BY <1>6, Types DEF ReadPayment, Sound
    <3>4. event[e].status # Absent
      BY <2>1, <3>1 DEF Sound, Refs, Uses
    <3> HIDE DEF t
    <3> QED BY <1>6, <2>1, <3>2, <3>3, <3>4 DEF ReadPayment, About
  <2> HIDE DEF t
  <2>4. RowsTyped' /\ PaymentsKept /\ EventsKept
    BY <1>0, <2>3, NothingMoves DEF RowsTyped
  <2> QED BY <2>2, <2>3, <2>4, SoundStep
<1>7. ASSUME NEW c \in Clients, WritePayment(c)
      PROVE  Sound'
  <2>1. PICK e \in Events : e = txn[c].event
    BY <1>7, Kinds, Types DEF Sound, WritePayment
  <2>2. PICK p \in Payments : p = event[e].payment
    BY <1>7, <2>1 DEF WritePayment, Sound, Refs, Uses
  <2>3. /\ txn[c].op = "apply" /\ event[e].status # Absent /\ event[e].outcome # "DIFFERS"
        /\ payment[p].status # Absent /\ payment[p].invoice \in Releases /\ payment[p].amount \in Amounts
        /\ UNCHANGED <<invoice, note, series, intents>>
    BY <1>7, <2>1, <2>2 DEF WritePayment, Sound, Refs, Uses
  <2>4. CASE event[e].outcome = "SUCCESS"
    <3>1. PICK i \in Releases, a \in Amounts : i = payment[p].invoice /\ a = payment[p].amount
      BY <2>3
    <3>2. invoice[i].paid + a \in Nat
      BY Types DEF Sound, InvoiceRow
    <3>3. PICK n \in Nat : n = invoice[i].paid + a
      BY <3>2
    <3> DEFINE t == [op |-> "credit", payment |-> p, invoice |-> i, amount |-> a, paid |-> n, event |-> e]
    <3>4. t \in Txn /\ t.op = "credit" /\ t.event = e
      BY MadeTxn
    <3>5. txn' = [txn EXCEPT ![c] = t] /\ UNCHANGED <<payment, event>>
      BY <1>7, <2>1, <2>2, <2>4, <3>1, <3>3 DEF WritePayment, About, Credit
    <3> HIDE DEF t
    <3>6. RowsTyped' /\ PaymentsKept /\ EventsKept
      BY <1>0, <2>3, <3>5, NothingMoves DEF RowsTyped
    <3>7. event'[e].status # Absent
      BY <2>3, <3>5
    <3> QED BY <3>4, <3>5, <3>6, <3>7, SoundStep
  <2>5. CASE event[e].outcome # "SUCCESS"
    <3>1. PICK o \in Outcome : o = event[e].outcome
      BY Types DEF Sound, EventRow
    <3>2. o \in PaymentStatus /\ o # Absent
      BY <2>3, <3>1, StatusNames
    <3>3. payment' = [payment EXCEPT ![p].status = o] /\ event' = Processed(e)
          /\ txn' = [txn EXCEPT ![c] = Idle]
      BY <1>7, <2>1, <2>2, <2>5, <3>1 DEF WritePayment, About, Finish
    <3>4. /\ payment' \in [Payments -> PaymentRow]
          /\ payment'[p].status = o /\ payment'[p].invoice = payment[p].invoice
          /\ payment'[p].amount = payment[p].amount
          /\ \A q \in Payments : q # p => payment'[q] = payment[q]
      BY <3>2, <3>3, Types DEF Sound, PaymentRow
    <3>5. /\ event' \in [Events -> EventRow]
          /\ \A f \in Events : /\ event'[f].payment = event[f].payment
                               /\ event'[f].outcome = event[f].outcome
                               /\ event'[f].status = IF f = e THEN "PROCESSED" ELSE event[f].status
      BY <3>3, ProcessedRows DEF Sound
    <3>6. \A f \in Events : /\ event[f].status # Absent => event'[f].status # Absent
                            /\ event'[f].status # Absent => event'[f].payment \in Payments
      BY <2>3, <3>5 DEF Absent, Sound, Refs
    <3>7. \A q \in Payments : /\ payment[q].status # Absent => payment'[q].status # Absent
                              /\ payment'[q].status # Absent =>
                                   payment'[q].invoice \in Releases /\ payment'[q].amount \in Amounts
      BY <2>3, <3>2, <3>4 DEF Sound, Refs
    <3>8. RowsTyped'
      BY <1>0, <2>3, <3>4, <3>5 DEF RowsTyped
    <3>9. PaymentsKept
      BY <3>7 DEF PaymentsKept
    <3>10. EventsKept
      BY <3>5, <3>6 DEF EventsKept
    <3> QED BY <3>3, <3>8, <3>9, <3>10, SoundEnd
  <2> QED BY <2>4, <2>5
<1> QED BY Zenon, <1>1, <1>2, <1>3, <1>4, <1>5, <1>6, <1>7 DEF Paying

(* Every row and every open request is well formed.                        *)
THEOREM TypeCorrect == Spec => []Sound
<1>1. Init => Sound
  <2> SUFFICES ASSUME Init PROVE Sound
    OBVIOUS
  <2>1. TypeOK
    BY MadeTxn DEF Init, TypeOK, Outcome
  <2>2. Refs
    BY DEF Init, Refs, Uses, Idle
  <2> QED BY <2>1, <2>2 DEF Sound
<1>2. ASSUME Sound, Next PROVE Sound'
  <2>1. raced' \subseteq Releases
    BY <1>2 DEF Next, Sound, TypeOK
  <2>2. ASSUME NEW c \in Clients, Rollback(c) PROVE Sound'
    <3>1. txn' = [txn EXCEPT ![c] = Idle] /\ UNCHANGED <<invoice, note, series, payment, intents, event>>
      BY <2>2 DEF Rollback, Finish
    <3>2. RowsTyped' /\ PaymentsKept /\ EventsKept
      BY <1>2, <3>1, RowsAreTyped, NothingMoves DEF RowsTyped
    <3> QED BY <1>2, <2>1, <3>1, <3>2, SoundEnd
  <2> QED BY <1>2, <2>1, <2>2, InvoicingSound, PayingSound DEF Next
<1>3. Sound /\ UNCHANGED vars => Sound'
  BY DEF vars, rows, Sound, TypeOK, Refs, Uses
<1> QED BY <1>1, <1>2, <1>3, PTL DEF Spec

------------------------------------------------------------------------------
(* What a request may do                                                   *)

Using(t, e) == t.op \in {"callback", "apply", "credit"} /\ t.event = e

(* A step is of one client: c goes on with t.  It changes a callback that  *)
(* is new or that c holds, and to end; t holds a callback that is new or   *)
(* that c held; a credit and a number are those of the rows now; a         *)
(* callback that is to be applied has read its payment as unsettled, and   *)
(* credits that payment if no other request does.                          *)
Moves(c, t) ==
  /\ txn' = [txn EXCEPT ![c] = t]
  /\ \A e \in Events : event'[e] # event[e] =>
       \/ event[e].status = Absent /\ Using(t, e)
       \/ Uses(c, e) /\ t = Idle /\ event'[e].status = "PROCESSED"
  /\ \A e \in Events : Using(t, e) =>
       \/ Uses(c, e) /\ event'[e] = event[e]
       \/ event[e].status = Absent /\ event'[e].status = "STORED" /\ t.op # "credit"
  /\ \A e \in Events : Using(t, e) /\ t.op = "credit" =>
       t.payment = event[e].payment /\ event[e].outcome = "SUCCESS"
  /\ t.op = "credit" => /\ Takes(t.invoice, t.amount)
                        /\ t.paid = invoice[t.invoice].paid + t.amount
                        /\ UNCHANGED <<invoice, note, series, payment>>
                        /\ \/ t.event = Nobody
                           \/ /\ txn[c].op = "apply" /\ t.event = txn[c].event
                              /\ t.payment = event[txn[c].event].payment
                              /\ t.invoice = payment[t.payment].invoice
                              /\ t.amount = payment[t.payment].amount
                              /\ ~Locked(t.payment)
  /\ t.op = "apply" => /\ payment[event[t.event].payment].status # "SUCCESS"
                       /\ UNCHANGED <<invoice, payment, event>>
  /\ t.op = "generate" => /\ t.number = series.parking
                          /\ \A d \in Clients : txn[d].op # "generate"
                          /\ UNCHANGED <<invoice, note, series>>

LEMMA EndMoves ==
  ASSUME Sound, NEW c \in Clients, txn' = [txn EXCEPT ![c] = Idle],
         \A e \in Events : event'[e] # event[e] => Uses(c, e) /\ event'[e].status = "PROCESSED"
  PROVE  \E d \in Clients, t \in Txn : Moves(d, t)
<1>1. Idle \in Txn /\ Idle.op = "idle"
  BY MadeTxn
<1>2. Moves(c, Idle)
  BY <1>1 DEF Moves, Using
<1> QED BY <1>1, <1>2

LEMMA EndProcessed ==
  ASSUME Sound, NEW c \in Clients, NEW e \in Events \cup {Nobody}, e \in Events => Uses(c, e),
         txn' = [txn EXCEPT ![c] = Idle], event' = Processed(e)
  PROVE  \E d \in Clients, t \in Txn : Moves(d, t)
<1>1. \A f \in Events : /\ event'[f].status = IF f = e THEN "PROCESSED" ELSE event[f].status
                        /\ f # e => event'[f] = event[f]
  BY ProcessedRows DEF Sound
<1> QED BY <1>1, EndMoves

LEMMA EveryMove ==
  ASSUME Sound, Next
  PROVE  \E c \in Clients, t \in Txn : Moves(c, t)
<1>0. TypeOK
  BY DEF Sound
<1>1. ASSUME NEW c \in Clients, UNCHANGED event, txn' = txn, txn[c] = Idle
      PROVE  \E d \in Clients, t \in Txn : Moves(d, t)
  <2>1. txn' = [txn EXCEPT ![c] = Idle]
    BY <1>0, <1>1, Types
  <2> QED BY <1>1, <2>1, EndMoves
<1>2. ASSUME NEW c \in Clients, UNCHANGED event, Finish(c)
      PROVE  \E d \in Clients, t \in Txn : Moves(d, t)
  BY <1>2, EndMoves DEF Finish
<1>3. ASSUME NEW c \in Clients, NEW i \in Releases, NEW m \in Totals, BeginGenerate(c, i, m)
      PROVE  \E d \in Clients, t \in Txn : Moves(d, t)
  <2> DEFINE t == [op |-> "generate", invoice |-> i, total |-> m, number |-> series.parking]
  <2>1. t \in Txn /\ t.op = "generate" /\ t.number = series.parking
    BY <1>0, Types, MadeTxn
  <2>2. txn' = [txn EXCEPT ![c] = t] /\ UNCHANGED <<invoice, note, series, event>>
        /\ \A d \in Clients : txn[d].op # "generate"
    BY <1>3 DEF BeginGenerate, Begin
  <2> HIDE DEF t
  <2>3. Moves(c, t)
    BY <2>1, <2>2 DEF Moves, Using
  <2> QED BY <2>1, <2>3
<1>4. ASSUME NEW c \in Clients, NEW p \in Payments, NEW i \in Releases, NEW a \in Amounts,
             BeginManualPayment(c, p, i, a)
      PROVE  \E d \in Clients, t \in Txn : Moves(d, t)
  <2>1. PICK n \in Nat : n = invoice[i].paid + a
    BY <1>0, Types DEF InvoiceRow
  <2> DEFINE t == [op |-> "credit", payment |-> p, invoice |-> i, amount |-> a, paid |-> n,
                   event |-> Nobody]
  <2>2. /\ t \in Txn /\ t.op = "credit" /\ t.invoice = i /\ t.amount = a /\ t.paid = n
        /\ t.event = Nobody /\ t.payment = p
    BY MadeTxn
  <2>3. txn' = [txn EXCEPT ![c] = t] /\ UNCHANGED <<invoice, note, series, payment, event>>
        /\ Takes(i, a) /\ payment[p].status = Absent
    BY <1>4, <2>1 DEF BeginManualPayment, Begin, Credit
  <2> HIDE DEF t
  <2>4. Moves(c, t)
    BY <1>0, <2>1, <2>2, <2>3, Types DEF Moves, Using
  <2> QED BY <2>2, <2>4
<1>5. ASSUME NEW c \in Clients, NEW p \in Payments, NEW i \in Releases, NEW a \in Amounts,
             BeginInitiate(c, p, i, a)
      PROVE  \E d \in Clients, t \in Txn : Moves(d, t)
  <2> DEFINE t == [op |-> "initiate", payment |-> p, invoice |-> i, amount |-> a]
  <2>1. t \in Txn /\ t.op = "initiate"
    BY MadeTxn
  <2>2. txn' = [txn EXCEPT ![c] = t] /\ UNCHANGED event
    BY <1>5 DEF BeginInitiate, Begin
  <2> HIDE DEF t
  <2>3. Moves(c, t)
    BY <2>1, <2>2 DEF Moves, Using
  <2> QED BY <2>1, <2>3
<1>6. ASSUME NEW c \in Clients, NEW e \in Events, NEW p \in Payments, NEW o \in Outcomes,
             StoreCallback(c, e, p, o)
      PROVE  \E d \in Clients, t \in Txn : Moves(d, t)
  <2> DEFINE row == [status |-> "STORED", payment |-> p, outcome |-> o]
             t == [op |-> "callback", event |-> e]
  <2>1. t \in Txn /\ t.op = "callback" /\ t.event = e /\ row.status = "STORED"
    BY MadeTxn
  <2>2. event' = [event EXCEPT ![e] = row] /\ txn' = [txn EXCEPT ![c] = t] /\ event[e].status = Absent
    BY <1>6 DEF StoreCallback, Begin
  <2> HIDE DEF row, t
  <2>3. \A f \in Events : event'[f] = IF f = e THEN row ELSE event[f]
    BY <1>0, <2>2, Types
  <2>4. Moves(c, t)
    BY <2>1, <2>2, <2>3 DEF Moves, Using
  <2> QED BY <2>1, <2>4
<1>7. ASSUME NEW c \in Clients, CommitCredit(c)
      PROVE  \E d \in Clients, t \in Txn : Moves(d, t)
  <2>1. PICK e \in Events \cup {Nobody} :
          /\ txn[c].op = "credit" /\ txn[c].event = e
          /\ event' = Processed(e) /\ txn' = [txn EXCEPT ![c] = Idle]
    BY <1>0, <1>7, CreditRows
  <2> QED BY <2>1, EndProcessed DEF Uses
<1>8. ASSUME NEW c \in Clients, Disregard(c)
      PROVE  \E d \in Clients, t \in Txn : Moves(d, t)
  <2>1. PICK e \in Events : e = txn[c].event
    BY <1>0, <1>8, Kinds, Types DEF Disregard
  <2>2. event' = Processed(e) /\ txn' = [txn EXCEPT ![c] = Idle] /\ Uses(c, e)
    BY <1>8, <2>1 DEF Disregard, Finish, Uses
  <2> QED BY <2>2, EndProcessed
<1>9. ASSUME NEW c \in Clients, ReadPayment(c)
      PROVE  \E d \in Clients, t \in Txn : Moves(d, t)
  <2>1. PICK e \in Events : e = txn[c].event
    BY <1>0, <1>9, Kinds, Types DEF ReadPayment
  <2> DEFINE t == [op |-> "apply", event |-> e]
  <2>2. t \in Txn /\ t.op = "apply" /\ t.event = e
    BY MadeTxn
  <2>3. txn' = [txn EXCEPT ![c] = [txn[c] EXCEPT !.op = "apply"]] /\ txn[c].op = "callback"
        /\ UNCHANGED <<invoice, payment, event>>
    BY <1>0, <1>9, Types DEF ReadPayment
  <2>4. [txn[c] EXCEPT !.op = "apply"] = t
    BY <1>0, <2>1, <2>3, ApplyTxn
  <2>6. payment[event[e].payment].status # "SUCCESS"
    BY <1>9, <2>1 DEF ReadPayment, About
  <2> HIDE DEF t
  <2>5. Moves(c, t)
    BY <2>1, <2>2, <2>3, <2>4, <2>6 DEF Moves, Using, Uses
  <2> QED BY <2>2, <2>5
<1>10. ASSUME NEW c \in Clients, WritePayment(c)
       PROVE  \E d \in Clients, t \in Txn : Moves(d, t)
  <2>1. PICK e \in Events : e = txn[c].event
    BY <1>0, <1>10, Kinds, Types DEF WritePayment
  <2>2. txn[c].op = "apply" /\ Uses(c, e)
    BY <1>10, <2>1 DEF WritePayment, Uses
  <2>3. PICK p \in Payments : p = event[e].payment
    BY <2>2 DEF Sound, Refs
  <2>4. payment[p].status # Absent
    BY <2>1, <2>2, <2>3 DEF Sound, Refs
  <2>5. PICK i \in Releases, a \in Amounts : i = payment[p].invoice /\ a = payment[p].amount
    BY <2>4 DEF Sound, Refs
  <2>6. CASE event[e].outcome = "SUCCESS"
    <3>1. PICK n \in Nat : n = invoice[i].paid + a
      BY <1>0, Types DEF InvoiceRow
    <3> DEFINE t == [op |-> "credit", payment |-> p, invoice |-> i, amount |-> a, paid |-> n, event |-> e]
    <3>2. /\ t \in Txn /\ t.op = "credit" /\ t.event = e /\ t.payment = p /\ t.invoice = i
          /\ t.amount = a /\ t.paid = n
      BY MadeTxn
    <3>3. txn' = [txn EXCEPT ![c] = t] /\ UNCHANGED <<invoice, note, series, payment, event>> /\ Takes(i, a)
          /\ ~Locked(p)
      BY <1>10, <2>1, <2>3, <2>5, <2>6, <3>1 DEF WritePayment, About, Credit
    <3> HIDE DEF t
    <3>4. Moves(c, t)
      BY <2>1, <2>2, <2>3, <2>5, <2>6, <3>1, <3>2, <3>3 DEF Moves, Using
    <3> QED BY <3>2, <3>4
  <2>7. CASE event[e].outcome # "SUCCESS"
    <3>1. event' = Processed(e) /\ txn' = [txn EXCEPT ![c] = Idle]
      BY <1>10, <2>1, <2>7 DEF WritePayment, About, Finish
    <3> QED BY <2>2, <3>1, EndProcessed
  <2> QED BY <2>6, <2>7
<1>11. ASSUME NEW c \in Clients, NEW i \in Releases, Issue(c, i) \/ VoidInvoice(c, i) \/ VoidNote(c, i)
       PROVE  \E d \in Clients, t \in Txn : Moves(d, t)
  BY <1>1, <1>11 DEF Issue, VoidInvoice, VoidNote
<1>12. ASSUME NEW c \in Clients, CommitGenerate(c) \/ CommitInitiate(c) \/ Rollback(c)
       PROVE  \E d \in Clients, t \in Txn : Moves(d, t)
  BY <1>2, <1>12 DEF CommitGenerate, CommitInitiate, Rollback
<1> QED BY Zenon, <1>3, <1>4, <1>5, <1>6, <1>7, <1>8, <1>9, <1>10, <1>11, <1>12
        DEF Next, Invoicing, Paying

------------------------------------------------------------------------------
(* Callbacks                                                               *)

(* A request works on a callback that is stored, not yet consumed, and     *)
(* nobody else works on it; it credits the payment the callback names.     *)
Held ==
  \A c \in Clients, e \in Events : Uses(c, e) =>
    /\ event[e].status = "STORED"
    /\ txn[c].op = "credit" => txn[c].payment = event[e].payment /\ event[e].outcome = "SUCCESS"
    /\ \A d \in Clients : Uses(d, e) => d = c

LEMMA MovesKeepHeld ==
  ASSUME Sound, Held, NEW c \in Clients, NEW t \in Txn, Moves(c, t)
  PROVE  Held'
<1>0. Idle.op = "idle"
  BY MadeTxn
<1>1. \A d \in Clients : txn'[d] = IF d = c THEN t ELSE txn[d]
  BY Types DEF Sound, Moves
<1>2. ASSUME NEW d \in Clients, NEW e \in Events
      PROVE  Uses(d, e)' <=> IF d = c THEN Using(t, e) ELSE Uses(d, e)
  BY <1>1 DEF Uses, Using
<1>3. ASSUME NEW d \in Clients, NEW e \in Events, d # c, Uses(d, e)
      PROVE  event'[e] = event[e] /\ ~Using(t, e)
  <2>1. event[e].status = "STORED" /\ ~Uses(c, e)
    BY <1>3 DEF Held
  <2> QED BY <2>1 DEF Moves, Absent
<1>4. ASSUME NEW d \in Clients, NEW e \in Events, Uses(d, e)'
      PROVE  /\ event'[e].status = "STORED"
             /\ txn'[d].op = "credit" => txn'[d].payment = event'[e].payment
                                        /\ event'[e].outcome = "SUCCESS"
             /\ \A f \in Clients : Uses(f, e)' => f = d
  <2>1. CASE d = c
    <3>1. Using(t, e) /\ txn'[d] = t
      BY <1>1, <1>2, <1>4, <2>1
    <3>2. event'[e].status = "STORED"
      BY <3>1 DEF Moves, Held
    <3>3. t.op = "credit" => t.payment = event'[e].payment /\ event'[e].outcome = "SUCCESS"
      BY <3>1 DEF Moves
    <3>4. \A f \in Clients : Uses(f, e)' => f = d
      BY <1>2, <1>3, <2>1, <3>1
    <3> QED BY <3>1, <3>2, <3>3, <3>4
  <2>2. CASE d # c
    <3>1. Uses(d, e) /\ txn'[d] = txn[d]
      BY <1>1, <1>2, <1>4, <2>2
    <3>2. event'[e] = event[e] /\ ~Using(t, e)
      BY <1>3, <2>2, <3>1
    <3>3. \A f \in Clients : Uses(f, e)' => f # c /\ Uses(f, e)
      BY <1>2, <3>2
    <3> QED BY <3>1, <3>2, <3>3 DEF Held
  <2> QED BY <2>1, <2>2
<1> QED BY <1>4 DEF Held

LEMMA AlwaysHeld == Spec => []Held
<1>1. Init => Held
  BY DEF Init, Held, Uses, Idle
<1>2. Sound /\ Held /\ Next => Held'
  BY EveryMove, MovesKeepHeld
<1>3. Held /\ UNCHANGED vars => Held'
  BY DEF vars, rows, Held, Uses
<1> QED BY <1>1, <1>2, <1>3, TypeCorrect, PTL DEF Spec

(* The steps that write payments.                                          *)
LEMMA PaymentsWrite ==
  ASSUME Next
  PROVE  payment' = payment \/ (\E c \in Clients : CommitCredit(c) \/ WritePayment(c) \/ CommitInitiate(c))
<1>1. \A c \in Clients : \A i \in Releases :
        Issue(c, i) \/ VoidInvoice(c, i) \/ VoidNote(c, i) => payment' = payment
  BY DEF Issue, VoidInvoice, VoidNote
<1>2. \A c \in Clients : CommitGenerate(c) \/ Disregard(c) \/ ReadPayment(c) \/ Rollback(c) =>
        payment' = payment
  BY DEF CommitGenerate, Disregard, ReadPayment, Rollback
<1>3. \A c \in Clients, q \in Payments, i \in Releases, a \in Amounts :
        BeginManualPayment(c, q, i, a) \/ BeginInitiate(c, q, i, a) => payment' = payment
  BY DEF BeginManualPayment, BeginInitiate
<1>4. \A c \in Clients, i \in Releases, m \in Totals : BeginGenerate(c, i, m) => payment' = payment
  BY DEF BeginGenerate
<1>5. \A c \in Clients, e \in Events, q \in Payments, o \in Outcomes :
        StoreCallback(c, e, q, o) => payment' = payment
  BY DEF StoreCallback
<1> QED BY Zenon, <1>1, <1>2, <1>3, <1>4, <1>5 DEF Next, Invoicing, Paying

(* A payment row that changes is inserted, or is what the callback of the  *)
(* step says of it.                                                        *)
LEMMA PaymentsMove ==
  ASSUME Sound, Next, NEW p \in Payments, payment[p].status # Absent, payment'[p] # payment[p]
  PROVE  \E c \in Clients, e \in Events :
           /\ Uses(c, e) /\ event'[e].status = "PROCESSED"
           /\ IF txn[c].op = "credit" THEN p = txn[c].payment /\ payment'[p].status = "SUCCESS"
              ELSE p = event[e].payment /\ payment'[p].status = event[e].outcome
<1>0. TypeOK
  BY DEF Sound
<1>1. CASE \E c \in Clients : CommitCredit(c)
  <2>1. PICK c \in Clients : CommitCredit(c)
    BY <1>1
  <2>2. PICK q \in Payments, e \in Events \cup {Nobody} :
          /\ txn[c].op = "credit" /\ q = txn[c].payment /\ e = txn[c].event
          /\ e = Nobody => payment[q].status = Absent
          /\ payment'[q].status = "SUCCESS" /\ event' = Processed(e)
          /\ \A r \in Payments : r # q => payment'[r] = payment[r]
    BY <1>0, <2>1, CreditRows
  <2>3. p = q /\ e \in Events
    BY <2>2
  <2>4. event'[e].status = "PROCESSED"
    BY <1>0, <2>2, <2>3, ProcessedRows
  <2> QED BY <2>2, <2>3, <2>4 DEF Uses
<1>2. CASE \E c \in Clients : WritePayment(c)
  <2>1. PICK c \in Clients : WritePayment(c)
    BY <1>2
  <2>2. PICK e \in Events : e = txn[c].event
    BY <1>0, <2>1, Kinds, Types DEF WritePayment
  <2>3. PICK q : q = event[e].payment
    OBVIOUS
  <2>4. PICK o : o = event[e].outcome
    OBVIOUS
  <2>5. payment' = [payment EXCEPT ![q].status = o] /\ event' = Processed(e) /\ txn[c].op = "apply"
    BY <2>1, <2>2, <2>3, <2>4 DEF WritePayment, About
  <2>6. q = p /\ payment'[p].status = o
    BY <1>0, <2>5, Types DEF PaymentRow
  <2>7. event'[e].status = "PROCESSED"
    BY <1>0, <2>5, ProcessedRows
  <2> QED BY <2>2, <2>3, <2>4, <2>5, <2>6, <2>7 DEF Uses
<1>3. CASE \E c \in Clients : CommitInitiate(c)
  <2>1. PICK c \in Clients : CommitInitiate(c)
    BY <1>3
  <2>2. PICK q : q = txn[c].payment
    OBVIOUS
  <2>3. PICK row : payment' = [payment EXCEPT ![q] = row] /\ payment[q].status = Absent
    BY <2>1, <2>2 DEF CommitInitiate
  <2> QED BY <1>0, <2>3, Types
<1> QED BY <1>1, <1>2, <1>3, PaymentsWrite

(* A payment row changes only in the step that consumes a stored callback, *)
(* to what the callback says, and no callback is consumed twice            *)
(* (handleWebhook, processWebhookEvent).                                   *)
THEOREM CallbackOnce == Spec => ChangedByCallback
<1>1. ASSUME Sound, Held, Next
      PROVE  /\ \A e \in Events : event[e].status = "PROCESSED" => event'[e] = event[e]
             /\ \A p \in Payments :
                  payment[p].status # Absent /\ payment'[p] # payment[p] =>
                    \E e \in Events : /\ event[e].status = "STORED"
                                      /\ event'[e].status = "PROCESSED"
                                      /\ event[e].payment = p
                                      /\ event[e].outcome = payment'[p].status
  <2>1. \A e \in Events : event[e].status = "PROCESSED" => event'[e] = event[e]
    <3>1. PICK c \in Clients, t \in Txn : Moves(c, t)
      BY <1>1, EveryMove
    <3> QED BY <1>1, <3>1 DEF Moves, Held, Absent
  <2>2. ASSUME NEW p \in Payments, payment[p].status # Absent, payment'[p] # payment[p]
        PROVE  \E e \in Events : /\ event[e].status = "STORED"
                                 /\ event'[e].status = "PROCESSED"
                                 /\ event[e].payment = p
                                 /\ event[e].outcome = payment'[p].status
    <3>1. PICK c \in Clients, e \in Events :
            /\ Uses(c, e) /\ event'[e].status = "PROCESSED"
            /\ IF txn[c].op = "credit" THEN p = txn[c].payment /\ payment'[p].status = "SUCCESS"
               ELSE p = event[e].payment /\ payment'[p].status = event[e].outcome
      BY <1>1, <2>2, PaymentsMove
    <3> QED BY <1>1, <3>1 DEF Held
  <2> QED BY <2>1, <2>2
<1>2. Sound /\ Held /\ [Next]_vars =>
        [/\ \A e \in Events : event[e].status = "PROCESSED" => event'[e] = event[e]
         /\ \A p \in Payments :
              payment[p].status # Absent /\ payment'[p] # payment[p] =>
                \E e \in Events : /\ event[e].status = "STORED"
                                  /\ event'[e].status = "PROCESSED"
                                  /\ event[e].payment = p
                                  /\ event[e].outcome = payment'[p].status]_vars
  BY <1>1
<1> QED BY <1>2, TypeCorrect, AlwaysHeld, PTL DEF Spec, ChangedByCallback

------------------------------------------------------------------------------
(* Invoices, credit notes and their numbers                                *)

(* What a request would credit fits the invoice, which was issued.         *)
Credits ==
  \A c \in Clients : txn[c].op = "credit" =>
    /\ txn[c].paid \in 1..invoice[txn[c].invoice].total
    /\ invoice[txn[c].invoice].status \notin {Absent, "GENERATED"}

(* One request at most holds the row of the series.                        *)
Numbering ==
  /\ series.parking >= 1 /\ series.credit >= 1
  /\ \A c, d \in Clients : txn[c].op = "generate" =>
       txn[c].number = series.parking /\ (txn[d].op = "generate" => c = d)

BillInv == Credits /\ Numbering /\ StatusSaysPaid /\ VoidLeavesTrail /\ NumbersGapFree

(* The steps that touch invoices, notes or series.                         *)
LEMMA BillsMove ==
  ASSUME Next
  PROVE  \/ UNCHANGED <<invoice, note, series>>
         \/ \E c \in Clients : CommitGenerate(c)
         \/ \E c \in Clients : CommitCredit(c)
         \/ \E c \in Clients : \E i \in Releases : Issue(c, i)
         \/ \E c \in Clients : \E i \in Releases : VoidInvoice(c, i)
         \/ \E c \in Clients : \E i \in Releases : VoidNote(c, i)
<1>1. \A c \in Clients : CommitInitiate(c) \/ Disregard(c) \/ ReadPayment(c) \/ WritePayment(c)
                         \/ Rollback(c) => UNCHANGED <<invoice, note, series>>
  BY DEF CommitInitiate, Disregard, ReadPayment, WritePayment, Rollback
<1>2. \A c \in Clients, q \in Payments, i \in Releases, a \in Amounts :
        BeginManualPayment(c, q, i, a) \/ BeginInitiate(c, q, i, a) => UNCHANGED <<invoice, note, series>>
  BY DEF BeginManualPayment, BeginInitiate
<1>3. \A c \in Clients, i \in Releases, m \in Totals :
        BeginGenerate(c, i, m) => UNCHANGED <<invoice, note, series>>
  BY DEF BeginGenerate
<1>4. \A c \in Clients, e \in Events, q \in Payments, o \in Outcomes :
        StoreCallback(c, e, q, o) => UNCHANGED <<invoice, note, series>>
  BY DEF StoreCallback
<1> QED BY Zenon, <1>1, <1>2, <1>3, <1>4 DEF Next, Invoicing, Paying

(* The checks of applyPayment.                                             *)
LEMMA TakesBounds ==
  ASSUME TypeOK, NEW i \in Releases, NEW a \in Amounts, Takes(i, a)
  PROVE  /\ invoice[i].paid + a \in 1..invoice[i].total
         /\ invoice[i].status \notin {Absent, "GENERATED"}
<1>1. invoice[i].paid \in Nat /\ invoice[i].total \in Nat /\ a \in Nat \ {0}
  BY Types DEF InvoiceRow
<1>2. invoice[i].paid + a <= invoice[i].total
  BY DEF Takes
<1>3. invoice[i].status \notin {Absent, "GENERATED"}
  BY DEF Takes, StatusWhenPaid, InvoiceMay, Absent
<1> QED BY <1>1, <1>2, <1>3

(* The rows of S have the numbers before n, each once.                     *)
NumberedTo(f, S, n) ==
  /\ {f[j].number : j \in S} = 1..(n - 1)
  /\ \A j, k \in S : j # k => f[j].number # f[k].number

LEMMA NextNumber ==
  ASSUME NEW S, NEW i, i \notin S, NEW f, NEW g, NEW n \in Nat, n >= 1, NumberedTo(f, S, n),
         \A j \in S : g[j].number = f[j].number,
         g[i].number = n
  PROVE  NumberedTo(g, S \cup {i}, n + 1)
<1>1. \A j \in S : f[j].number \in 1..(n - 1)
  BY DEF NumberedTo
<1>2. 1..((n + 1) - 1) = (1..(n - 1)) \cup {n}
  OBVIOUS
<1>3. {g[j].number : j \in S \cup {i}} = {f[j].number : j \in S} \cup {n}
  OBVIOUS
<1>4. \A j \in S : g[j].number # n
  BY <1>1
<1> QED BY <1>2, <1>3, <1>4 DEF NumberedTo

LEMMA SameNumbers ==
  ASSUME NEW S, NEW f, NEW g, NEW n, NumberedTo(f, S, n),
         \A j \in S : g[j].number = f[j].number
  PROVE  NumberedTo(g, S, n)
  BY DEF NumberedTo

Billed == {i \in Releases : invoice[i].status # Absent}
Credited == {i \in Releases : note[i].status # Absent}
ParkingNumbers == NumberedTo(invoice, Billed, series.parking)
CreditNumbers == NumberedTo(note, Credited, series.credit)

LEMMA GapFreeParts == NumbersGapFree <=> ParkingNumbers /\ CreditNumbers
  BY DEF NumbersGapFree, ParkingNumbers, CreditNumbers, NumberedTo, Billed, Credited

LEMMA GapFreePartsNext == NumbersGapFree' <=> ParkingNumbers' /\ CreditNumbers'
  BY GapFreeParts, PTL

(* What any step leaves of an invoice that exists.                         *)
InvoicesKept ==
  \A i \in Releases :
    /\ invoice[i].status # Absent => invoice'[i].total = invoice[i].total /\ invoice'[i].status # Absent
    /\ invoice[i].status \notin {Absent, "GENERATED"} => invoice'[i].status \notin {Absent, "GENERATED"}

LEMMA GenerateBills ==
  ASSUME Sound, BillInv, NEW c \in Clients, CommitGenerate(c)
  PROVE  /\ InvoicesKept /\ (StatusSaysPaid /\ VoidLeavesTrail /\ NumbersGapFree)'
         /\ series'.credit >= 1 /\ series'.parking >= 1
         /\ \A d \in Clients : txn'[d].op # "generate"
<1>0. TypeOK /\ series.parking \in Nat /\ series.credit \in Nat
  BY Types DEF Sound
<1>1. PICK i \in Releases, m \in Totals, n \in Nat :
        /\ n = txn[c].number /\ txn[c].op = "generate"
        /\ invoice[i].status = Absent
        /\ invoice'[i].status = "GENERATED" /\ invoice'[i].total = m
        /\ invoice'[i].paid = 0 /\ invoice'[i].number = n
        /\ \A j \in Releases : j # i => invoice'[j] = invoice[j]
        /\ series'.parking = n + 1 /\ series'.credit = series.credit
        /\ txn' = [txn EXCEPT ![c] = Idle] /\ note' = note
  BY <1>0, GenerateRows
<1>2. n = series.parking /\ n >= 1 /\ (\A d \in Clients : txn[d].op = "generate" => c = d)
  BY <1>1 DEF BillInv, Numbering
<1>3. InvoicesKept
  BY <1>1 DEF InvoicesKept
<1>4. StatusSaysPaid'
  <2>1. m \in Nat
    BY <1>0, Types
  <2> QED BY <1>1, <2>1 DEF BillInv, StatusSaysPaid
<1>5. VoidLeavesTrail'
  BY <1>1 DEF BillInv, VoidLeavesTrail
<1>6. ParkingNumbers'
  <2>1. Billed' = Billed \cup {i} /\ i \notin Billed
    BY <1>1 DEF Billed, Absent
  <2>2. ParkingNumbers
    BY GapFreeParts DEF BillInv
  <2>3. \A j \in Billed : invoice'[j].number = invoice[j].number
    BY <1>1, <2>1 DEF Billed
  <2>4. NumberedTo(invoice, Billed, n)
    BY <1>2, <2>2 DEF ParkingNumbers
  <2>5. invoice'[i].number = n
    BY <1>1
  <2>6. NumberedTo(invoice', Billed \cup {i}, n + 1)
    BY <1>2, <2>1, <2>3, <2>4, <2>5, NextNumber
  <2> QED BY <1>1, <2>1, <2>6 DEF ParkingNumbers
<1>7. CreditNumbers'
  BY <1>1, GapFreeParts DEF BillInv, CreditNumbers, Credited
<1>8. series'.credit >= 1 /\ series'.parking >= 1
  BY <1>0, <1>1 DEF BillInv, Numbering
<1>9. \A d \in Clients : txn'[d].op # "generate"
  BY <1>0, <1>1, <1>2, Types, MadeTxn
<1> QED BY <1>3, <1>4, <1>5, <1>6, <1>7, <1>8, <1>9, GapFreePartsNext

(* A step that keeps every number.                                         *)
LEMMA NumbersKept ==
  ASSUME NumbersGapFree, series' = series,
         \A i \in Releases : /\ invoice'[i].number = invoice[i].number
                             /\ invoice'[i].status = Absent <=> invoice[i].status = Absent
                             /\ note'[i].number = note[i].number
                             /\ note'[i].status = Absent <=> note[i].status = Absent
  PROVE  NumbersGapFree'
<1>1. Billed' = Billed /\ Credited' = Credited
  BY DEF Billed, Credited
<1>2. ParkingNumbers /\ CreditNumbers
  BY GapFreeParts
<1>3. ParkingNumbers'
  <2>1. \A j \in Billed : invoice'[j].number = invoice[j].number
    BY DEF Billed
  <2>2. NumberedTo(invoice', Billed, series.parking)
    BY <1>2, <2>1, SameNumbers DEF ParkingNumbers
  <2> QED BY <1>1, <2>2 DEF ParkingNumbers
<1>4. CreditNumbers'
  <2>1. \A j \in Credited : note'[j].number = note[j].number
    BY DEF Credited
  <2>2. NumberedTo(note', Credited, series.credit)
    BY <1>2, <2>1, SameNumbers DEF CreditNumbers
  <2> QED BY <1>1, <2>2 DEF CreditNumbers
<1> QED BY <1>3, <1>4, GapFreePartsNext

LEMMA IssueBills ==
  ASSUME Sound, BillInv, NEW c \in Clients, NEW i \in Releases, Issue(c, i)
  PROVE  /\ InvoicesKept /\ (StatusSaysPaid /\ VoidLeavesTrail /\ NumbersGapFree)'
         /\ series' = series
<1>1. invoice' = [invoice EXCEPT ![i].status = "ISSUED"] /\ "ISSUED" \in InvoiceStatus
      /\ invoice[i].status = "GENERATED" /\ series' = series /\ note' = note
  BY DEF Issue, InvoiceStatus
<1>2. /\ invoice'[i].status = "ISSUED"
      /\ \A j \in Releases : /\ invoice'[j].total = invoice[j].total
                             /\ invoice'[j].paid = invoice[j].paid
                             /\ invoice'[j].number = invoice[j].number
                             /\ j # i => invoice'[j] = invoice[j]
  BY <1>1, StatusRows DEF Sound
<1>3. InvoicesKept
  BY <1>1, <1>2 DEF InvoicesKept, Absent
<1>4. StatusSaysPaid'
  BY <1>1, <1>2 DEF BillInv, StatusSaysPaid
<1>5. VoidLeavesTrail'
  BY <1>1, <1>2 DEF BillInv, VoidLeavesTrail
<1>6. NumbersGapFree'
  BY <1>1, <1>2, NumbersKept DEF BillInv, Absent
<1> QED BY <1>1, <1>3, <1>4, <1>5, <1>6

LEMMA VoidNoteBills ==
  ASSUME Sound, BillInv, NEW c \in Clients, NEW i \in Releases, VoidNote(c, i)
  PROVE  /\ InvoicesKept /\ (StatusSaysPaid /\ VoidLeavesTrail /\ NumbersGapFree)'
         /\ series' = series
<1>1. /\ note[i].status # Absent /\ note'[i].status # Absent
      /\ \A j \in Releases : note'[j].number = note[j].number /\ (j # i => note'[j] = note[j])
      /\ UNCHANGED <<invoice, series>>
  BY VoidNoteRows DEF Sound
<1>2. InvoicesKept /\ StatusSaysPaid' /\ VoidLeavesTrail'
  BY <1>1 DEF BillInv, InvoicesKept, StatusSaysPaid, VoidLeavesTrail
<1>3. NumbersGapFree'
  BY <1>1, NumbersKept DEF BillInv
<1> QED BY <1>1, <1>2, <1>3

LEMMA VoidBills ==
  ASSUME Sound, BillInv, NEW c \in Clients, NEW i \in Releases, VoidInvoice(c, i)
  PROVE  /\ InvoicesKept /\ (StatusSaysPaid /\ VoidLeavesTrail /\ NumbersGapFree)'
         /\ series'.parking = series.parking /\ series'.credit >= 1
<1>0. TypeOK /\ series.credit \in Nat /\ invoice[i].total \in Nat
  BY Types DEF Sound, InvoiceRow
<1>1. invoice' = [invoice EXCEPT ![i].status = "VOID"] /\ "VOID" \in InvoiceStatus
      /\ invoice[i].status \in {"ISSUED", "SENT", "PARTIALLY_PAID", "PAID"} /\ RaiseNote(i)
  BY DEF VoidInvoice, InvoiceStatus, InvoiceMay
<1>2. /\ invoice'[i].status = "VOID"
      /\ \A j \in Releases : /\ invoice'[j].total = invoice[j].total
                             /\ invoice'[j].paid = invoice[j].paid
                             /\ invoice'[j].number = invoice[j].number
                             /\ j # i => invoice'[j] = invoice[j]
  BY <1>0, <1>1, StatusRows
<1>3. /\ series'.parking = series.parking
      /\ \A j \in Releases : j # i => note'[j] = note[j]
      /\ IF invoice[i].total > 0
           THEN /\ note[i].status = Absent
                /\ note'[i].status = "ISSUED" /\ note'[i].number = series.credit
                /\ series'.credit = series.credit + 1
           ELSE note' = note /\ series' = series
  BY <1>0, <1>1, NoteRows
<1>4. InvoicesKept
  BY <1>1, <1>2 DEF InvoicesKept, Absent
<1>5. StatusSaysPaid'
  BY <1>2 DEF BillInv, StatusSaysPaid
<1>6. VoidLeavesTrail'
  <2>1. \A j \in Releases : j # i =>
          /\ invoice'[j].status = "VOID" /\ invoice'[j].total > 0 => note'[j].status # Absent
          /\ note'[j].status # Absent => invoice'[j].status \notin {Absent, "GENERATED", "ISSUED"}
    BY <1>2, <1>3 DEF BillInv, VoidLeavesTrail
  <2>2. invoice'[i].total > 0 => note'[i].status # Absent
    BY <1>2, <1>3 DEF Absent
  <2>3. invoice'[i].status \notin {Absent, "GENERATED", "ISSUED"}
    BY <1>2 DEF Absent
  <2> QED BY <2>1, <2>2, <2>3 DEF VoidLeavesTrail
<1>7. NumbersGapFree'
  <2>1. CASE ~(invoice[i].total > 0)
    BY <1>1, <1>2, <1>3, <2>1, NumbersKept DEF BillInv, Absent
  <2>2. CASE invoice[i].total > 0
    <3>1. PICK n \in Nat : n = series.credit
      BY <1>0
    <3>2. n >= 1 /\ series'.credit = n + 1
      BY <1>3, <2>2, <3>1 DEF BillInv, Numbering
    <3>3. ParkingNumbers /\ CreditNumbers
      BY GapFreeParts DEF BillInv
    <3>4. Billed' = Billed /\ \A j \in Billed : invoice'[j].number = invoice[j].number
      BY <1>1, <1>2 DEF Billed, Absent
    <3>5. ParkingNumbers'
      <4>1. NumberedTo(invoice', Billed, series.parking)
        BY <3>3, <3>4, SameNumbers DEF ParkingNumbers
      <4> QED BY <1>3, <3>4, <4>1 DEF ParkingNumbers
    <3>6. Credited' = Credited \cup {i} /\ i \notin Credited
      BY <1>3, <2>2 DEF Credited, Absent
    <3>7. \A j \in Credited : note'[j].number = note[j].number
      BY <1>3, <3>6 DEF Credited
    <3>8. CreditNumbers'
      <4>1. note'[i].number = n /\ NumberedTo(note, Credited, n)
        BY <1>3, <2>2, <3>1, <3>3 DEF CreditNumbers
      <4>2. NumberedTo(note', Credited \cup {i}, n + 1)
        BY <3>2, <3>6, <3>7, <4>1, NextNumber
      <4> QED BY <3>2, <3>6, <4>2 DEF CreditNumbers
    <3> QED BY <3>5, <3>8, GapFreePartsNext
  <2> QED BY <2>1, <2>2
<1>8. series'.credit >= 1
  BY <1>0, <1>3 DEF BillInv, Numbering
<1> QED BY <1>3, <1>4, <1>5, <1>6, <1>7, <1>8

LEMMA CreditBills ==
  ASSUME Sound, BillInv, NEW c \in Clients, CommitCredit(c)
  PROVE  /\ InvoicesKept /\ (StatusSaysPaid /\ VoidLeavesTrail /\ NumbersGapFree)'
         /\ series' = series
<1>0. TypeOK
  BY DEF Sound
<1>1. PICK i \in Releases, n \in Nat :
        /\ txn[c].op = "credit" /\ i = txn[c].invoice /\ n = txn[c].paid
        /\ invoice'[i].status = IF n >= invoice[i].total THEN "PAID" ELSE "PARTIALLY_PAID"
        /\ invoice'[i].paid = n
        /\ \A j \in Releases : /\ invoice'[j].total = invoice[j].total
                               /\ invoice'[j].number = invoice[j].number
                               /\ j # i => invoice'[j] = invoice[j]
        /\ UNCHANGED <<note, series>>
  BY <1>0, CreditRows
<1>2. PICK m \in Nat : m = invoice[i].total
  BY <1>0, Types DEF InvoiceRow
<1>3. n \in 1..m /\ invoice[i].status \notin {Absent, "GENERATED"}
  BY <1>1, <1>2 DEF BillInv, Credits
<1>4. InvoicesKept
  BY <1>1, <1>3 DEF InvoicesKept, Absent
<1>5. StatusSaysPaid'
  <2>1. /\ invoice'[i].paid <= invoice'[i].total
        /\ invoice'[i].status \notin {"GENERATED", "ISSUED"}
        /\ invoice'[i].status = "PARTIALLY_PAID" => invoice'[i].paid \in 1..(invoice'[i].total - 1)
        /\ invoice'[i].status = "PAID" => invoice'[i].paid = invoice'[i].total /\ invoice'[i].total > 0
    BY <1>1, <1>2, <1>3
  <2> QED BY <1>1, <2>1 DEF BillInv, StatusSaysPaid
<1>6. VoidLeavesTrail'
  BY <1>1 DEF BillInv, VoidLeavesTrail, Absent
<1>7. NumbersGapFree'
  BY <1>1, <1>3, NumbersKept DEF BillInv, Absent
<1> QED BY <1>1, <1>4, <1>5, <1>6, <1>7

LEMMA StepKeepsBills ==
  ASSUME Sound, BillInv, Next
  PROVE  BillInv'
<1>0. TypeOK
  BY DEF Sound
<1>1. PICK c \in Clients, t \in Txn : Moves(c, t)
  BY EveryMove
<1>2. \A d \in Clients : txn'[d] = IF d = c THEN t ELSE txn[d]
  BY <1>0, <1>1, Types DEF Moves
<1>3. ASSUME UNCHANGED <<invoice, note, series>>
      PROVE  InvoicesKept /\ (StatusSaysPaid /\ VoidLeavesTrail /\ NumbersGapFree)' /\ series' = series
  <2>1. InvoicesKept /\ StatusSaysPaid' /\ VoidLeavesTrail'
    BY <1>3 DEF InvoicesKept, BillInv, StatusSaysPaid, VoidLeavesTrail
  <2>2. NumbersGapFree'
    BY <1>3, NumbersKept DEF BillInv
  <2> QED BY <1>3, <2>1, <2>2
<1>4. /\ InvoicesKept /\ (StatusSaysPaid /\ VoidLeavesTrail /\ NumbersGapFree)'
      /\ series'.credit >= 1
      /\ series'.parking = series.parking \/ (\A d \in Clients : txn'[d].op # "generate")
      /\ series'.parking >= 1
  <2>1. series.credit >= 1 /\ series.parking >= 1
    BY DEF BillInv, Numbering
  <2>2. CASE UNCHANGED <<invoice, note, series>>
    BY <1>3, <2>1, <2>2
  <2>3. CASE \E d \in Clients : CommitGenerate(d)
    BY <2>3, GenerateBills
  <2>4. CASE \E d \in Clients : CommitCredit(d)
    BY <2>1, <2>4, CreditBills
  <2>5. CASE \E d \in Clients : \E i \in Releases : Issue(d, i)
    BY <2>1, <2>5, IssueBills
  <2>6. CASE \E d \in Clients : \E i \in Releases : VoidInvoice(d, i)
    BY <2>1, <2>6, VoidBills
  <2>7. CASE \E d \in Clients : \E i \in Releases : VoidNote(d, i)
    BY <2>1, <2>7, VoidNoteBills
  <2> QED BY <2>2, <2>3, <2>4, <2>5, <2>6, <2>7, BillsMove
<1>5. Credits'
  <2> SUFFICES ASSUME NEW d \in Clients, txn'[d].op = "credit"
               PROVE  /\ txn'[d].paid \in 1..invoice'[txn'[d].invoice].total
                      /\ invoice'[txn'[d].invoice].status \notin {Absent, "GENERATED"}
    BY DEF Credits
  <2>1. CASE d = c
    <3>1. /\ t.op = "credit" /\ txn'[d] = t /\ t.invoice \in Releases /\ t.amount \in Amounts
          /\ Takes(t.invoice, t.amount)
          /\ t.paid = invoice[t.invoice].paid + t.amount /\ invoice' = invoice
      BY <1>1, <1>2, <2>1, Kinds DEF Moves
    <3>2. PICK i \in Releases, a \in Amounts : i = t.invoice /\ a = t.amount
      BY <3>1
    <3> QED BY <1>0, <3>1, <3>2, TakesBounds
  <2>2. CASE d # c
    <3>1. txn'[d] = txn[d] /\ txn[d].op = "credit"
      BY <1>2, <2>2
    <3>2. PICK i \in Releases : i = txn[d].invoice
      BY <1>0, <3>1, Kinds, Types
    <3> QED BY <1>4, <3>1, <3>2 DEF BillInv, Credits, InvoicesKept
  <2> QED BY <2>1, <2>2
<1>6. Numbering'
  <2>1. ASSUME NEW a \in Clients, NEW b \in Clients, txn'[a].op = "generate"
        PROVE  txn'[a].number = series'.parking /\ (txn'[b].op = "generate" => a = b)
    <3>1. series'.parking = series.parking
      BY <1>4, <2>1
    <3>2. CASE t.op = "generate"
      <4>1. t.number = series.parking /\ \A d \in Clients : txn[d].op # "generate"
        BY <1>1, <3>2 DEF Moves
      <4>2. a = c /\ (txn'[b].op = "generate" => b = c)
        BY <1>2, <2>1, <4>1
      <4> QED BY <1>2, <3>1, <4>1, <4>2
    <3>3. CASE t.op # "generate"
      <4>1. txn'[a] = txn[a] /\ (txn'[b].op = "generate" => txn'[b] = txn[b])
        BY <1>2, <2>1, <3>3
      <4> QED BY <2>1, <3>1, <4>1 DEF BillInv, Numbering
    <3> QED BY <3>2, <3>3
  <2> QED BY <1>4, <2>1 DEF Numbering
<1> QED BY <1>4, <1>5, <1>6 DEF BillInv

LEMMA AlwaysBilled == Spec => []BillInv
<1>1. Init => BillInv
  <2> SUFFICES ASSUME Init PROVE BillInv
    OBVIOUS
  <2>1. Credits /\ Numbering
    BY DEF Init, Credits, Numbering, Idle
  <2>2. StatusSaysPaid /\ VoidLeavesTrail
    BY DEF Init, StatusSaysPaid, VoidLeavesTrail, Absent
  <2>3. Billed = {} /\ Credited = {} /\ series.parking = 1 /\ series.credit = 1
    BY DEF Init, Billed, Credited
  <2>4. ParkingNumbers /\ CreditNumbers
    BY <2>3 DEF ParkingNumbers, CreditNumbers, NumberedTo
  <2> QED BY <2>1, <2>2, <2>4, GapFreeParts DEF BillInv
<1>2. Sound /\ BillInv /\ Next => BillInv'
  BY StepKeepsBills
<1>3. BillInv /\ UNCHANGED vars => BillInv'
  BY DEF vars, rows, BillInv, Credits, Numbering, StatusSaysPaid, VoidLeavesTrail, NumbersGapFree
<1> QED BY <1>1, <1>2, <1>3, TypeCorrect, PTL DEF Spec

(* What is paid never exceeds the total and agrees with the status, though *)
(* both are written from a stale read (applyPayment).                      *)
THEOREM PaidAsStatusSays == Spec => []StatusSaysPaid
  BY AlwaysBilled, PTL DEF BillInv

(* Both series are gap-free, whatever is rolled back (allocateNumber).     *)
THEOREM NoGaps == Spec => []NumbersGapFree
  BY AlwaysBilled, PTL DEF BillInv

(* An invoice that carried value is not voided without a credit note, and  *)
(* no other invoice has one (voidInvoice).                                 *)
THEOREM VoidHasTrail == Spec => []VoidLeavesTrail
  BY AlwaysBilled, PTL DEF BillInv

------------------------------------------------------------------------------
(* Sums of payments                                                        *)

(* Induction on the naturals, for a set.                                   *)
LEMMA NaturalsFrom ==
  ASSUME NEW T \in SUBSET Nat, 0 \in T, \A n \in T : n + 1 \in T
  PROVE  T = Nat
<1>1. ASSUME T # Nat PROVE FALSE
  <2>1. IsWellFoundedOn(OpToRel(<, Nat), Nat)
    BY NatLessThanWellFounded
  <2>2. PICK x \in Nat \ T : \A y \in Nat \ T : <<y, x>> \notin OpToRel(<, Nat)
    BY <1>1, <2>1, WFMin
  <2>3. x \in Nat /\ x \notin T
    OBVIOUS
  <2>6. x # 0 /\ x - 1 \in Nat /\ x = (x - 1) + 1
    BY <2>3
  <2>4. <<x - 1, x>> \in OpToRel(<, Nat)
    BY <2>6 DEF OpToRel
  <2>5. x - 1 \in T
    BY <2>2, <2>4, <2>6
  <2> QED BY <2>3, <2>5, <2>6
<1> QED BY <1>1

Picked(s) == CHOOSE x \in s : TRUE
AddUp(f, g, s) == IF s = {} THEN 0 ELSE f[Picked(s)].amount + g[s \ {Picked(s)}]

Added(f, S) == (CHOOSE g : g = [s \in SUBSET S |-> AddUp(f, g, s)])[S]

(* The fold of the community modules.                                      *)
LEMMA SumIsAdded ==
  ASSUME NEW f, NEW S
  PROVE  MapThenSumSet(LAMBDA p : f[p].amount, S) = Added(f, S)
BY DEF MapThenSumSet, MapThenFoldSet, AddUp, Picked, Added

(* A finite set without one of its elements.                               *)
LEMMA OneLess ==
  ASSUME NEW S, IsFiniteSet(S), NEW s \in SUBSET S, NEW x \in s
  PROVE  /\ IsFiniteSet(s) /\ s \ {x} \in SUBSET S
         /\ Cardinality(s) \in Nat /\ Cardinality(s \ {x}) \in Nat
         /\ Cardinality(s) = Cardinality(s \ {x}) + 1
<1>1. IsFiniteSet(s)
  BY FS_Subset
<1>2. IsFiniteSet(s \ {x}) /\ Cardinality(s \ {x}) = Cardinality(s) - 1
  BY <1>1, FS_RemoveElement
<1>3. Cardinality(s) \in Nat /\ Cardinality(s \ {x}) \in Nat
  BY <1>1, <1>2, FS_CardinalityType
<1> QED BY <1>1, <1>2, <1>3

LEMMA PickedIn == \A s : s # {} => Picked(s) \in s
BY DEF Picked

Weighed(f, S) == \A p \in S : f[p].amount \in Nat
Counts(g, f, S) == \A s \in SUBSET S : g[s] = AddUp(f, g, s)

Tally(g, f, S) == g \in [SUBSET S -> Nat] /\ Counts(g, f, S)

(* The recursion has a solution on the subsets of a finite set: it exists  *)
(* up to every size.                                                       *)
LEMMA SomeTally ==
  ASSUME NEW f, NEW S, IsFiniteSet(S), Weighed(f, S)
  PROVE  \E g \in [SUBSET S -> Nat] : Counts(g, f, S)
<1> DEFINE Upto(g, n) == \A s \in SUBSET S : Cardinality(s) <= n => g[s] = AddUp(f, g, s)
           T == {n \in Nat : \E g \in [SUBSET S -> Nat] : Upto(g, n)}
<1>0. \A s \in SUBSET S : IsFiniteSet(s) /\ Cardinality(s) \in Nat /\ (s # {} => Cardinality(s) # 0)
  BY FS_Subset, FS_CardinalityType, FS_EmptySet
<1>1. 0 \in T
  <2> DEFINE g == [s \in SUBSET S |-> 0]
  <2>1. g \in [SUBSET S -> Nat]
    OBVIOUS
  <2>2. \A s \in SUBSET S : Cardinality(s) <= 0 => s = {}
    BY <1>0
  <2>3. Upto(g, 0)
    BY <2>2 DEF AddUp
  <2> QED BY <2>1, <2>3
<1>2. ASSUME NEW n \in T PROVE n + 1 \in T
  <2>1. PICK g \in [SUBSET S -> Nat] : Upto(g, n)
    OBVIOUS
  <2>2. \A s \in SUBSET S : AddUp(f, g, s) \in Nat
    BY PickedIn DEF AddUp, Weighed
  <2> DEFINE h == [s \in SUBSET S |-> IF Cardinality(s) <= n THEN g[s] ELSE AddUp(f, g, s)]
  <2>3. h \in [SUBSET S -> Nat]
    BY <2>2
  <2>4. ASSUME NEW s \in SUBSET S, Cardinality(s) <= n + 1 PROVE h[s] = AddUp(f, h, s)
    <3>1. CASE s = {}
      BY <2>1, <3>1, FS_EmptySet DEF AddUp
    <3>2. CASE s # {}
      <4>1. PICK x \in s : x = Picked(s)
        BY <3>2, PickedIn
      <4>2. PICK r \in SUBSET S : r = s \ {x}
        OBVIOUS
      <4>3. Cardinality(r) <= n
        BY <2>4, <4>1, <4>2, OneLess
      <4>4. h[r] = g[r]
        BY <4>3
      <4>5. AddUp(f, h, s) = AddUp(f, g, s)
        BY <3>2, <4>1, <4>2, <4>4 DEF AddUp
      <4>6. h[s] = AddUp(f, g, s)
        BY <2>1
      <4> QED BY <4>5, <4>6
    <3> QED BY <3>1, <3>2
  <2>5. Upto(h, n + 1)
    BY <2>4
  <2>6. \E q \in [SUBSET S -> Nat] : Upto(q, n + 1)
    BY <2>3, <2>5
  <2> QED BY <2>6
<1>3. T = Nat
  <2> HIDE DEF T
  <2>1. T \in SUBSET Nat
    BY DEF T
  <2> QED BY <1>1, <1>2, <2>1, NaturalsFrom
<1>4. PICK g \in [SUBSET S -> Nat] : Upto(g, Cardinality(S))
  <2>1. Cardinality(S) \in T
    BY <1>0, <1>3
  <2> QED BY <2>1
<1>5. \A s \in SUBSET S : Cardinality(s) <= Cardinality(S)
  BY FS_Subset
<1> QED BY <1>4, <1>5 DEF Counts

(* On the subsets of a smaller set it is the same one.                     *)
LEMMA Determined ==
  ASSUME NEW f, NEW S, IsFiniteSet(S), NEW R \in SUBSET S, NEW g, NEW h,
         Counts(g, f, S), Counts(h, f, R)
  PROVE  \A s \in SUBSET R : h[s] = g[s]
<1> DEFINE T == {n \in Nat : \A s \in SUBSET R : Cardinality(s) <= n => h[s] = g[s]}
<1>0. \A s \in SUBSET S : IsFiniteSet(s) /\ Cardinality(s) \in Nat /\ (s # {} => Cardinality(s) # 0)
  BY FS_Subset, FS_CardinalityType, FS_EmptySet
<1>1. 0 \in T
  <2>1. \A s \in SUBSET R : Cardinality(s) <= 0 => s = {}
    BY <1>0
  <2>2. h[{}] = 0 /\ g[{}] = 0
    BY DEF Counts, AddUp
  <2> QED BY <2>1, <2>2
<1>2. ASSUME NEW n \in T PROVE n + 1 \in T
  <2>1. ASSUME NEW s \in SUBSET R, Cardinality(s) <= n + 1 PROVE h[s] = g[s]
    <3>1. CASE s = {}
      BY <3>1 DEF Counts, AddUp
    <3>2. CASE s # {}
      <4>1. PICK x \in s : x = Picked(s)
        BY <3>2, PickedIn
      <4>2. PICK r \in SUBSET R : r = s \ {x}
        OBVIOUS
      <4>3. Cardinality(r) <= n
        BY <2>1, <4>1, <4>2, OneLess
      <4>4. h[r] = g[r]
        BY <4>3
      <4> QED BY <3>2, <4>1, <4>2, <4>4 DEF Counts, AddUp
    <3> QED BY <3>1, <3>2
  <2> QED BY <2>1
<1>3. T = Nat
  <2> HIDE DEF T
  <2>1. T \in SUBSET Nat
    BY DEF T
  <2> QED BY <1>1, <1>2, <2>1, NaturalsFrom
<1> QED BY <1>0, <1>3

(* It does not depend on the element that is picked.                       *)
LEMMA AnyFirst ==
  ASSUME NEW f, NEW S, IsFiniteSet(S), NEW g,
         Weighed(f, S),
         Tally(g, f, S)
  PROVE  \A s \in SUBSET S : \A x \in s : g[s] = f[x].amount + g[s \ {x}]
<1> DEFINE T == {n \in Nat : \A s \in SUBSET S : Cardinality(s) <= n =>
                               \A x \in s : g[s] = f[x].amount + g[s \ {x}]}
<1>0. \A s \in SUBSET S : IsFiniteSet(s) /\ Cardinality(s) \in Nat /\ (s # {} => Cardinality(s) # 0)
  BY FS_Subset, FS_CardinalityType, FS_EmptySet
<1>1. 0 \in T
  BY <1>0
<1>2. ASSUME NEW n \in T PROVE n + 1 \in T
  <2>1. ASSUME NEW s \in SUBSET S, Cardinality(s) <= n + 1, NEW x \in s
        PROVE  g[s] = f[x].amount + g[s \ {x}]
    <3>1. PICK y \in s : y = Picked(s)
      BY PickedIn
    <3>2. g[s] = f[y].amount + g[s \ {y}]
      BY <3>1 DEF Tally, Counts, AddUp
    <3>3. CASE x # y
      <4>1. PICK sx \in SUBSET S, sy \in SUBSET S, sxy \in SUBSET S :
              sx = s \ {x} /\ sy = s \ {y} /\ sxy = s \ {x, y}
        OBVIOUS
      <4>2. Cardinality(sx) <= n /\ Cardinality(sy) <= n
        BY <2>1, <4>1, OneLess
      <4>3. sxy = sx \ {y} /\ sxy = sy \ {x} /\ y \in sx /\ x \in sy
        BY <3>3, <4>1
      <4>4. g[sx] = f[y].amount + g[sxy] /\ g[sy] = f[x].amount + g[sxy]
        BY <4>2, <4>3
      <4>5. g[sxy] \in Nat /\ f[x].amount \in Nat /\ f[y].amount \in Nat
        BY DEF Weighed, Tally
      <4> QED BY <3>2, <4>1, <4>4, <4>5
    <3> QED BY <3>2, <3>3
  <2> QED BY <2>1
<1>3. T = Nat
  <2> HIDE DEF T
  <2>1. T \in SUBSET Nat
    BY DEF T
  <2> QED BY <1>1, <1>2, <2>1, NaturalsFrom
<1>4. ASSUME NEW s \in SUBSET S, NEW x \in s
      PROVE  g[s] = f[x].amount + g[s \ {x}]
  <2>1. Cardinality(s) \in T
    <3> HIDE DEF T
    <3> QED BY <1>0, <1>3
  <2>2. Cardinality(s) <= Cardinality(s)
    BY <1>0
  <2> QED BY <2>1, <2>2
<1> QED BY <1>4

(* So a sum over a finite set is well defined ...                          *)
LEMMA AddedIs ==
  ASSUME NEW f, NEW S, IsFiniteSet(S), Weighed(f, S)
  PROVE  \E g : Added(f, S) = g[S] /\ Tally(g, f, S)
<1>1. PICK g \in [SUBSET S -> Nat] : Counts(g, f, S)
  BY SomeTally
<1>2. g = [s \in SUBSET S |-> AddUp(f, g, s)]
  BY <1>1 DEF Counts
<1>3. PICK h : h = [s \in SUBSET S |-> AddUp(f, h, s)] /\ Added(f, S) = h[S]
  BY <1>2 DEF Added
<1>4. Counts(h, f, S)
  BY <1>3 DEF Counts
<1>5. \A s \in SUBSET S : h[s] = g[s]
  BY <1>1, <1>4, Determined
<1> QED BY <1>1, <1>3, <1>5 DEF Tally

(* ... is nothing over no payments ...                                     *)
LEMMA AddedEmpty == \A f : Added(f, {}) = 0
<1> SUFFICES ASSUME NEW f PROVE Added(f, {}) = 0
  OBVIOUS
<1>1. IsFiniteSet({})
  BY FS_EmptySet
<1>2. PICK g : Added(f, {}) = g[{}] /\ Tally(g, f, {})
  BY <1>1, AddedIs DEF Weighed
<1> QED BY <1>2 DEF Tally, Counts, AddUp

(* ... takes its elements in any order ...                                 *)
LEMMA AddedOne ==
  ASSUME NEW f, NEW S, IsFiniteSet(S), Weighed(f, S), NEW x \in S
  PROVE  Added(f, S) = f[x].amount + Added(f, S \ {x})
<1>1. PICK g : Added(f, S) = g[S] /\ Tally(g, f, S)
  BY AddedIs
<1>2. PICK R \in SUBSET S : R = S \ {x}
  OBVIOUS
<1>3. IsFiniteSet(R) /\ Weighed(f, R)
  BY FS_Subset DEF Weighed
<1>4. PICK h : Added(f, R) = h[R] /\ Tally(h, f, R)
  BY <1>3, AddedIs
<1>5. h[R] = g[R]
  BY <1>1, <1>4, Determined DEF Tally
<1>6. g[S] = f[x].amount + g[R]
  BY <1>1, <1>2, AnyFirst
<1> QED BY <1>1, <1>2, <1>4, <1>5, <1>6

(* ... and depends on the amounts alone.                                   *)
LEMMA AddedSame ==
  ASSUME NEW f, NEW h, NEW S, \A p \in S : f[p].amount = h[p].amount
  PROVE  Added(f, S) = Added(h, S)
<1>1. \A g : \A s \in SUBSET S : AddUp(f, g, s) = AddUp(h, g, s)
  BY PickedIn DEF AddUp
<1>2. \A g : [s \in SUBSET S |-> AddUp(f, g, s)] = [s \in SUBSET S |-> AddUp(h, g, s)]
  BY <1>1
<1>3. (CHOOSE g : g = [s \in SUBSET S |-> AddUp(f, g, s)])
        = (CHOOSE g : g = [s \in SUBSET S |-> AddUp(h, g, s)])
  BY <1>2
<1> QED BY <1>3 DEF Added

------------------------------------------------------------------------------
(* What a callback has read of its payment                                 *)

Inserted == {p \in Payments : payment[p].status # Absent}
Delivered == {e \in Events : event[e].status # Absent}

(* Nothing has been paid on an invoice that does not exist, and only       *)
(* finitely many payments and callbacks do.                                *)
Beginnings ==
  /\ IsFiniteSet(Inserted) /\ IsFiniteSet(Delivered)
  /\ \A i \in Releases : invoice[i].status = Absent => invoice[i].paid = 0

(* What a callback that is about to credit has read of the payment is what *)
(* its row says.                                                           *)
AsRead(c) ==
  LET row == payment[txn[c].payment]
  IN  /\ row.status # Absent /\ row.via = "gateway"
      /\ row.invoice = txn[c].invoice /\ row.amount = txn[c].amount

Crediting(c, p) == txn[c].op = "credit" /\ txn[c].event # Nobody /\ txn[c].payment = p

(* A payment by hand has succeeded, so that no callback is applied to it; a*)
(* callback credits what its payment says, and holds its row alone.        *)
Fixed ==
  /\ \A p \in Payments : /\ payment[p].via = "hand" => payment[p].status = "SUCCESS"
                         /\ payment[p].status = Absent => payment[p].invoice = Nobody
  /\ \A c \in Clients : txn[c].op = "apply" =>
       payment[event[txn[c].event].payment].via = "gateway"
  /\ \A c \in Clients : txn[c].op = "credit" /\ txn[c].event # Nobody => AsRead(c)
  /\ \A c, d \in Clients, p \in Payments : Crediting(c, p) /\ Crediting(d, p) => c = d

(* A callback that says anything but a success only writes the payment.    *)
Refuses(c) ==
  /\ txn[c].op = "apply" /\ txn' = [txn EXCEPT ![c] = Idle] /\ invoice' = invoice
  /\ \E q \in Payments, o \in Outcome :
       /\ q = event[txn[c].event].payment /\ o # "SUCCESS" /\ o # Absent
       /\ payment' = [payment EXCEPT ![q].status = o]

LEMMA WriteParts ==
  ASSUME Sound, NEW c \in Clients, WritePayment(c)
  PROVE  UNCHANGED <<invoice, payment>> \/ Refuses(c)
<1>0. TypeOK
  BY DEF Sound
<1>1. PICK e \in Events : e = txn[c].event
  BY <1>0, Kinds, Types DEF WritePayment
<1>2. txn[c].op = "apply" /\ Uses(c, e)
  BY <1>1 DEF WritePayment, Uses
<1>3. PICK q \in Payments : q = event[e].payment
  BY <1>2 DEF Sound, Refs
<1>4. PICK o \in Outcome : o = event[e].outcome
  BY <1>0, Types DEF EventRow
<1>5. CASE o = "SUCCESS"
  BY <1>1, <1>3, <1>4, <1>5 DEF WritePayment, About
<1>6. CASE o # "SUCCESS"
  <2>1. /\ payment' = [payment EXCEPT ![q].status = o] /\ txn' = [txn EXCEPT ![c] = Idle]
        /\ invoice' = invoice
    BY <1>1, <1>3, <1>4, <1>6 DEF WritePayment, About, Finish
  <2>2. o # Absent
    BY DEF Outcome, Absent
  <2> QED BY <1>1, <1>2, <1>3, <1>6, <2>1, <2>2 DEF Refuses
<1> QED BY <1>5, <1>6

Balanced == payment' = payment /\ \A i \in Releases : invoice'[i].paid = invoice[i].paid

(* The steps that move money.                                              *)
LEMMA BalancesMove ==
  ASSUME Sound, Beginnings, Next
  PROVE  \/ Balanced
         \/ \E c \in Clients : CommitCredit(c)
         \/ \E c \in Clients : CommitInitiate(c)
         \/ \E c \in Clients : Refuses(c)
<1>0. TypeOK
  BY DEF Sound
<1>1. ASSUME NEW c \in Clients, NEW i \in Releases, Issue(c, i) \/ VoidInvoice(c, i) \/ VoidNote(c, i)
      PROVE  Balanced
  <2>1. payment' = payment
    BY <1>1 DEF Issue, VoidInvoice, VoidNote
  <2>2. CASE VoidNote(c, i)
    BY <2>1, <2>2 DEF VoidNote, Balanced
  <2>3. CASE Issue(c, i) \/ VoidInvoice(c, i)
    <3>1. PICK st \in InvoiceStatus : invoice' = [invoice EXCEPT ![i].status = st]
      BY <2>3 DEF Issue, VoidInvoice, InvoiceStatus
    <3> QED BY <1>0, <2>1, <3>1, StatusRows DEF Balanced
  <2> QED BY <1>1, <2>2, <2>3
<1>2. CASE UNCHANGED <<invoice, note, series>>
  <2>1. UNCHANGED <<invoice, payment>> => Balanced
    BY DEF Balanced
  <2> QED BY <1>2, <2>1, PaymentsWrite, WriteParts
<1>3. ASSUME NEW c \in Clients, CommitGenerate(c)
      PROVE  Balanced
  <2>1. PICK i \in Releases :
          /\ invoice[i].status = Absent /\ invoice'[i].paid = 0 /\ payment' = payment
          /\ \A j \in Releases : j # i => invoice'[j] = invoice[j]
    BY <1>0, <1>3, GenerateRows
  <2> QED BY <2>1 DEF Balanced, Beginnings
<1> QED BY <1>1, <1>2, <1>3, BillsMove

LEMMA InitiateRows ==
  ASSUME Sound, NEW c \in Clients, CommitInitiate(c)
  PROVE  \E q \in Payments :
           /\ payment[q].status = Absent /\ payment'[q].status = "PENDING" /\ payment'[q].via = "gateway"
           /\ \A p \in Payments : p # q => payment'[p] = payment[p]
           /\ UNCHANGED <<invoice, event>> /\ txn' = [txn EXCEPT ![c] = Idle]
<1>1. PICK q \in Payments : q = txn[c].payment
  BY Kinds, Types DEF Sound, CommitInitiate
<1>2. PICK row : row = [status |-> "PENDING", invoice |-> txn[c].invoice, amount |-> txn[c].amount,
                        via |-> "gateway"]
  OBVIOUS
<1>3. payment' = [payment EXCEPT ![q] = row] /\ payment[q].status = Absent
      /\ UNCHANGED <<invoice, event>> /\ txn' = [txn EXCEPT ![c] = Idle]
  BY <1>1, <1>2 DEF CommitInitiate, Finish
<1>4. row.status = "PENDING" /\ row.via = "gateway"
  BY <1>2
<1> QED BY <1>3, <1>4, Types DEF Sound

LEMMA RefuseRows ==
  ASSUME Sound, NEW c \in Clients, Refuses(c)
  PROVE  \E q \in Payments :
           /\ q = event[txn[c].event].payment /\ payment[q].status # Absent
           /\ payment'[q].status \notin {"SUCCESS", Absent} /\ payment'[q].via = payment[q].via
           /\ payment'[q].invoice = payment[q].invoice /\ payment'[q].amount = payment[q].amount
           /\ \A p \in Payments : p # q => payment'[p] = payment[p]
           /\ invoice' = invoice /\ txn' = [txn EXCEPT ![c] = Idle]
<1>1. PICK q \in Payments, o \in Outcome :
        /\ q = event[txn[c].event].payment /\ o # "SUCCESS" /\ o # Absent
        /\ payment' = [payment EXCEPT ![q].status = o]
  BY DEF Refuses
<1>2. payment[q].status # Absent
  BY <1>1 DEF Refuses, Sound, Refs
<1>3. /\ payment'[q].status = o /\ payment'[q].via = payment[q].via
      /\ payment'[q].invoice = payment[q].invoice /\ payment'[q].amount = payment[q].amount
      /\ \A p \in Payments : p # q => payment'[p] = payment[p]
  BY <1>1, Types DEF Sound, PaymentRow
<1> QED BY <1>1, <1>2, <1>3 DEF Refuses

(* A payment that exists keeps its invoice, its amount and its origin.     *)
RowsStay ==
  \A p \in Payments : payment[p].status # Absent =>
    /\ payment'[p].status # Absent /\ payment'[p].via = payment[p].via
    /\ payment'[p].invoice = payment[p].invoice /\ payment'[p].amount = payment[p].amount

LEMMA RowsKept ==
  ASSUME Sound, Fixed, Next
  PROVE  RowsStay
<1>0. TypeOK
  BY DEF Sound
<1>1. ASSUME NEW c \in Clients, CommitCredit(c) PROVE RowsStay
  <2>1. PICK q \in Payments, e \in Events \cup {Nobody} :
          /\ txn[c].op = "credit" /\ q = txn[c].payment /\ e = txn[c].event
          /\ e = Nobody => payment[q].status = Absent
          /\ payment'[q].status = "SUCCESS" /\ payment'[q].invoice = txn[c].invoice
          /\ payment'[q].amount = txn[c].amount
          /\ payment'[q].via = IF e = Nobody THEN "hand" ELSE "gateway"
          /\ \A p \in Payments : p # q => payment'[p] = payment[p]
    BY <1>0, <1>1, CreditRows
  <2>2. CASE e = Nobody
    BY <2>1, <2>2 DEF RowsStay
  <2>3. CASE e # Nobody
    <3>1. AsRead(c)
      BY <2>1, <2>3 DEF Fixed
    <3> QED BY <2>1, <2>3, <3>1 DEF RowsStay, AsRead, Absent
  <2> QED BY <2>2, <2>3
<1>2. ASSUME NEW c \in Clients, CommitInitiate(c) PROVE RowsStay
  BY <1>2, InitiateRows DEF RowsStay
<1>3. ASSUME NEW c \in Clients, WritePayment(c) PROVE RowsStay
  BY <1>3, WriteParts, RefuseRows DEF RowsStay
<1>4. payment' = payment => RowsStay
  BY DEF RowsStay
<1> QED BY <1>1, <1>2, <1>3, <1>4, PaymentsWrite

(* The callback that a request works on does not change under it.          *)
LEMMA OwnEvent ==
  ASSUME Sound, Held, NEW c \in Clients, NEW t \in Txn, Moves(c, t), NEW d \in Clients, d # c,
         txn[d].op \in {"apply", "credit"}, txn[d].event # Nobody
  PROVE  /\ txn[d].event \in Events /\ event'[txn[d].event] = event[txn[d].event]
         /\ event[txn[d].event].payment \in Payments
<1>1. PICK e \in Events : e = txn[d].event
  BY Kinds, Types DEF Sound
<1>2. Uses(d, e)
  BY <1>1 DEF Uses
<1>3. event[e].status = "STORED" /\ ~Uses(c, e) /\ event[e].payment \in Payments
  BY <1>2 DEF Held, Sound, Refs
<1>4. event'[e] = event[e]
  BY <1>3 DEF Moves, Absent
<1> QED BY <1>1, <1>3, <1>4

LEMMA FixedKept ==
  ASSUME Sound, Held, Fixed, Next
  PROVE  Fixed'
<1>0. TypeOK /\ RowsStay
  BY RowsKept DEF Sound
<1>1. PICK c \in Clients, t \in Txn : Moves(c, t)
  BY EveryMove
<1>2. \A d \in Clients : txn'[d] = IF d = c THEN t ELSE txn[d]
  BY <1>1, Types DEF Sound, Moves
<1>3. ASSUME NEW p \in Payments
      PROVE  /\ payment'[p].via = "hand" => payment'[p].status = "SUCCESS"
             /\ payment'[p].status = Absent => payment'[p].invoice = Nobody
  <2>1. ASSUME NEW d \in Clients, CommitCredit(d)
        PROVE  payment'[p] = payment[p] \/ payment'[p].status = "SUCCESS"
    BY <1>0, <2>1, CreditRows
  <2>2. ASSUME NEW d \in Clients, CommitInitiate(d)
        PROVE  payment'[p] = payment[p] \/ (payment'[p].status = "PENDING" /\ payment'[p].via = "gateway")
    BY <2>2, InitiateRows
  <2>3. ASSUME NEW d \in Clients, WritePayment(d)
        PROVE  payment'[p] = payment[p] \/ (payment'[p].status # Absent /\ payment'[p].via = "gateway")
    <3>1. CASE Refuses(d)
      <4>1. PICK q \in Payments :
              /\ q = event[txn[d].event].payment /\ payment'[q].status # Absent
              /\ payment'[q].via = payment[q].via
              /\ \A r \in Payments : r # q => payment'[r] = payment[r]
        BY <3>1, RefuseRows
      <4>2. payment[q].via = "gateway"
        BY <3>1, <4>1 DEF Refuses, Fixed
      <4> QED BY <4>1, <4>2
    <3> QED BY <2>3, <3>1, WriteParts
  <2>4. payment[p].via = "hand" => payment[p].status = "SUCCESS"
    BY DEF Fixed
  <2>5. payment[p].status = Absent => payment[p].invoice = Nobody
    BY DEF Fixed
  <2> QED BY <2>1, <2>2, <2>3, <2>4, <2>5, PaymentsWrite DEF Absent
<1>4. ASSUME NEW d \in Clients, txn'[d].op = "apply"
      PROVE  payment'[event'[txn'[d].event].payment].via = "gateway"
  <2>1. CASE d = c
    <3>1. /\ t.op = "apply" /\ txn'[d] = t /\ payment' = payment /\ event' = event
          /\ payment[event[t.event].payment].status # "SUCCESS"
      BY <1>1, <1>2, <1>4, <2>1 DEF Moves
    <3>2. PICK e \in Events : e = t.event
      BY <3>1, Kinds
    <3>3. event'[e].status # Absent
      <4>1. Using(t, e)
        BY <3>1, <3>2 DEF Using
      <4> QED BY <1>1, <4>1 DEF Moves, Sound, Refs, Absent
    <3>4. event[e].payment \in Payments
      BY <3>1, <3>3 DEF Sound, Refs
    <3>5. payment[event[e].payment].via = "gateway"
      BY <1>0, <3>1, <3>2, <3>4, Types DEF PaymentRow, Fixed
    <3> QED BY <3>1, <3>2, <3>5
  <2>2. CASE d # c
    <3>1. txn'[d] = txn[d] /\ txn[d].op = "apply" /\ txn[d] \in Txn
      BY <1>0, <1>2, <1>4, <2>2, Types
    <3>2. PICK e \in Events : e = txn[d].event
      BY <3>1, Kinds
    <3>3. event'[e] = event[e] /\ event[e].payment \in Payments
      BY <1>0, <1>1, <2>2, <3>1, <3>2, OwnEvent, Types
    <3>4. payment[event[e].payment].status # Absent /\ payment[event[e].payment].via = "gateway"
      BY <3>1, <3>2 DEF Sound, Refs, Fixed
    <3> QED BY <1>0, <3>1, <3>2, <3>3, <3>4 DEF RowsStay
  <2> QED BY <2>1, <2>2
<1>5. ASSUME NEW d \in Clients, txn'[d].op = "credit", txn'[d].event # Nobody
      PROVE  AsRead(d)'
  <2>1. CASE d = c
    <3>1. /\ txn'[d] = t /\ t.op = "credit" /\ t.event # Nobody /\ payment' = payment
          /\ txn[c].op = "apply" /\ t.payment = event[txn[c].event].payment
          /\ t.invoice = payment[t.payment].invoice /\ t.amount = payment[t.payment].amount
      BY <1>1, <1>2, <1>5, <2>1 DEF Moves
    <3>2. payment[t.payment].status # Absent /\ payment[t.payment].via = "gateway"
      BY <3>1 DEF Sound, Refs, Fixed
    <3> QED BY <3>1, <3>2 DEF AsRead
  <2>2. CASE d # c
    <3>1. txn'[d] = txn[d] /\ txn[d].op = "credit" /\ txn[d].event # Nobody
      BY <1>2, <1>5, <2>2
    <3>2. PICK p \in Payments : p = txn[d].payment
      BY <1>0, <3>1, Kinds, Types
    <3>3. AsRead(d)
      BY <3>1 DEF Fixed
    <3> QED BY <1>0, <3>1, <3>2, <3>3 DEF AsRead, RowsStay
  <2> QED BY <2>1, <2>2
<1>6. ASSUME NEW p \in Payments, NEW d \in Clients, NEW f \in Clients, Crediting(d, p)', Crediting(f, p)'
      PROVE  d = f
  <2>1. ASSUME NEW g \in Clients, Crediting(g, p)'
        PROVE  IF g = c THEN \A h \in Clients : ~Crediting(h, p) ELSE Crediting(g, p)
    <3>1. CASE g = c
      <4>1. txn'[g] = t /\ t.op = "credit" /\ t.event # Nobody /\ t.payment = p
        BY <1>2, <2>1, <3>1 DEF Crediting
      <4>2. ~Locked(p)
        BY <1>1, <4>1 DEF Moves
      <4> QED BY <3>1, <4>2 DEF Locked, Crediting
    <3>2. CASE g # c
      BY <1>2, <2>1, <3>2 DEF Crediting
    <3> QED BY <3>1, <3>2
  <2> QED BY <1>6, <2>1 DEF Fixed
<1> QED BY <1>3, <1>4, <1>5, <1>6 DEF Fixed

LEMMA BeginningsKept ==
  ASSUME Sound, BillInv, Beginnings, Next
  PROVE  Beginnings'
<1>0. TypeOK
  BY DEF Sound
<1>1. ASSUME NEW A, NEW B, NEW x, IsFiniteSet(A), B \subseteq A \cup {x} PROVE IsFiniteSet(B)
  BY <1>1, FS_AddElement, FS_Subset
<1>2. ASSUME NEW q \in Payments, \A p \in Payments : p # q => payment'[p] = payment[p]
      PROVE  IsFiniteSet(Inserted')
  <2>1. Inserted' \subseteq Inserted \cup {q}
    BY <1>2 DEF Inserted
  <2> QED BY <1>1, <2>1 DEF Beginnings
<1>3. ASSUME payment' = payment PROVE IsFiniteSet(Inserted')
  BY <1>3 DEF Beginnings, Inserted
<1>4. IsFiniteSet(Inserted')
  <2>1. ASSUME NEW c \in Clients, CommitCredit(c) PROVE IsFiniteSet(Inserted')
    BY <1>0, <1>2, <2>1, CreditRows
  <2>2. ASSUME NEW c \in Clients, CommitInitiate(c) PROVE IsFiniteSet(Inserted')
    BY <1>2, <2>2, InitiateRows
  <2>3. ASSUME NEW c \in Clients, Refuses(c) PROVE IsFiniteSet(Inserted')
    BY <1>2, <2>3, RefuseRows
  <2> QED BY <1>3, <2>1, <2>2, <2>3, PaymentsWrite, WriteParts
<1>6. IsFiniteSet(Delivered')
  <2>1. PICK c \in Clients, t \in Txn : Moves(c, t)
    BY EveryMove
  <2>2. \A e \in Events : event'[e].status # Absent /\ event[e].status = Absent => Using(t, e)
    BY <2>1 DEF Moves, Sound, Refs
  <2>3. Delivered' \subseteq Delivered \cup {t.event}
    BY <2>2 DEF Delivered, Using
  <2> QED BY <1>1, <2>3 DEF Beginnings
<1>5. \A i \in Releases : invoice'[i].status = Absent => invoice'[i].paid = 0
  <2>1. CASE UNCHANGED <<invoice, note, series>>
    BY <2>1 DEF Beginnings
  <2>2. ASSUME NEW c \in Clients, CommitGenerate(c)
        PROVE  \A i \in Releases : invoice'[i].status = Absent => invoice'[i].paid = 0
    <3>1. PICK j \in Releases : invoice'[j].paid = 0 /\ \A i \in Releases : i # j => invoice'[i] = invoice[i]
      BY <1>0, <2>2, GenerateRows
    <3> QED BY <3>1 DEF Beginnings
  <2>3. ASSUME NEW c \in Clients, CommitCredit(c)
        PROVE  \A i \in Releases : invoice'[i].status = Absent => invoice'[i].paid = 0
    <3>1. PICK j \in Releases, n \in Nat :
            /\ invoice'[j].status = IF n >= invoice[j].total THEN "PAID" ELSE "PARTIALLY_PAID"
            /\ \A i \in Releases : i # j => invoice'[i] = invoice[i]
      BY <1>0, <2>3, CreditRows
    <3>2. invoice'[j].status # Absent
      BY <3>1 DEF Absent
    <3> QED BY <3>1, <3>2 DEF Beginnings
  <2>4. ASSUME NEW c \in Clients, NEW i \in Releases, Issue(c, i) \/ VoidInvoice(c, i)
        PROVE  \A j \in Releases : invoice'[j].status = Absent => invoice'[j].paid = 0
    <3>1. PICK st \in InvoiceStatus : invoice' = [invoice EXCEPT ![i].status = st] /\ st # Absent
      BY <2>4 DEF Issue, VoidInvoice, InvoiceStatus, Absent
    <3> QED BY <1>0, <3>1, StatusRows DEF Beginnings
  <2>5. ASSUME NEW c \in Clients, NEW i \in Releases, VoidNote(c, i) PROVE invoice' = invoice
    BY <2>5 DEF VoidNote
  <2> QED BY <2>1, <2>2, <2>3, <2>4, <2>5, BillsMove DEF Beginnings
<1> QED BY <1>4, <1>5, <1>6 DEF Beginnings

LEMMA AlwaysFixed == Spec => [](Beginnings /\ Fixed)
<1>1. Init => Beginnings /\ Fixed
  <2> SUFFICES ASSUME Init PROVE Beginnings /\ Fixed
    OBVIOUS
  <2>1. Inserted = {} /\ Delivered = {} /\ \A i \in Releases : invoice[i].paid = 0
    BY DEF Init, Inserted, Delivered, Absent
  <2>2. Beginnings
    BY <2>1, FS_EmptySet DEF Beginnings
  <2>3. \A c \in Clients : txn[c].op = "idle"
    BY MadeTxn DEF Init
  <2>4. Fixed
    BY <2>3 DEF Init, Fixed, Crediting
  <2> QED BY <2>2, <2>4
<1>2. Sound /\ Held /\ BillInv /\ Beginnings /\ Fixed /\ Next => Beginnings' /\ Fixed'
  BY BeginningsKept, FixedKept
<1>3. Beginnings /\ Fixed /\ UNCHANGED vars => Beginnings' /\ Fixed'
  BY DEF vars, rows, Beginnings, Fixed, AsRead, Crediting, Inserted, Delivered
<1> QED BY <1>1, <1>2, <1>3, TypeCorrect, AlwaysHeld, AlwaysBilled, PTL DEF Spec

------------------------------------------------------------------------------
(* What an invoice has received, as long as no read of it has gone stale   *)

Counted(i) == {p \in Payments : payment[p].invoice = i /\ payment[p].status = "SUCCESS"}

LEMMA TotalSum == \A S : Total(S) = Added(payment, S)
  BY SumIsAdded DEF Total

LEMMA CountedSum == \A i \in Releases : Received(i) = Added(payment, Counted(i))
  BY TotalSum DEF Received, Counted

LEMMA CountedSumNext == (\A i \in Releases : Received(i) = Added(payment, Counted(i)))'
  BY CountedSum, PTL

LEMMA CountedRows ==
  ASSUME TypeOK, IsFiniteSet(Inserted), NEW i
  PROVE  IsFiniteSet(Counted(i)) /\ Weighed(payment, Counted(i))
<1>1. Counted(i) \subseteq Inserted
  BY DEF Counted, Inserted, Absent
<1>2. IsFiniteSet(Counted(i))
  BY <1>1, FS_Subset
<1>3. Weighed(payment, Counted(i))
  BY Types DEF Weighed, Counted, PaymentRow
<1> QED BY <1>2, <1>3

(* A step that touches no successful payment of the invoice.               *)
LEMMA SameReceived ==
  ASSUME NEW i \in Releases,
         \A p \in Payments :
           \/ payment[p].invoice = i /\ payment[p].status = "SUCCESS"
           \/ payment'[p].invoice = i /\ payment'[p].status = "SUCCESS"
           => payment'[p] = payment[p]
  PROVE  Received(i)' = Received(i)
<1>1. PICK f : f = payment
  OBVIOUS
<1>2. PICK g : g = payment'
  OBVIOUS
<1>3. PICK S : S = Counted(i) /\ S = Counted(i)'
  BY DEF Counted
<1>4. \A p \in S : f[p].amount = g[p].amount
  BY <1>1, <1>2, <1>3 DEF Counted
<1>5. Added(f, S) = Added(g, S)
  BY <1>4, AddedSame
<1>6. Received(i) = Added(f, S)
  BY <1>1, <1>3, CountedSum
<1>7. Received(i)' = Added(g, S)
  BY <1>2, <1>3, CountedSumNext
<1> QED BY <1>5, <1>6, <1>7

(* One more payment of the invoice succeeds.                               *)
LEMMA OneReceived ==
  ASSUME TypeOK, IsFiniteSet(Inserted), NEW q \in Payments, payment[q].status # "SUCCESS",
         payment'[q].status = "SUCCESS",
         NEW i \in Releases, NEW a \in Nat, payment'[q].invoice = i, payment'[q].amount = a,
         \A p \in Payments : p # q => payment'[p] = payment[p]
  PROVE  Received(i)' = Received(i) + a
<1>1. PICK f : f = payment
  OBVIOUS
<1>2. PICK g : g = payment'
  OBVIOUS
<1>3. PICK S : S = Counted(i)
  OBVIOUS
<1>4. PICK T : T = Counted(i)'
  OBVIOUS
<1>5. T = S \cup {q} /\ q \notin S
  BY <1>3, <1>4 DEF Counted
<1>6. IsFiniteSet(S) /\ Weighed(f, S)
  BY <1>1, <1>3, CountedRows
<1>7. IsFiniteSet(T)
  BY <1>5, <1>6, FS_AddElement
<1>8. \A p \in S : f[p].amount = g[p].amount
  BY <1>1, <1>2, <1>3 DEF Counted
<1>9. Weighed(g, T) /\ g[q].amount = a
  BY <1>2, <1>5, <1>6, <1>8 DEF Weighed
<1>10. q \in T /\ T \ {q} = S
  BY <1>5
<1>11. Added(g, T) = a + Added(g, S)
  BY <1>7, <1>9, <1>10, AddedOne
<1>12. Added(f, S) = Added(g, S)
  BY <1>8, AddedSame
<1>13. Added(f, S) \in Nat
  <2>1. PICK h : Added(f, S) = h[S] /\ Tally(h, f, S)
    BY <1>6, AddedIs
  <2> QED BY <2>1 DEF Tally
<1>14. Received(i) = Added(f, S)
  BY <1>1, <1>3, CountedSum
<1>15. Received(i)' = Added(g, T)
  BY <1>2, <1>4, CountedSumNext
<1> QED BY <1>11, <1>12, <1>13, <1>14, <1>15

(* What requests have read of invoice i still holds.                       *)
FreshCredit(c, i) ==
  txn[c].op = "credit" /\ txn[c].invoice = i =>
    /\ txn[c].paid = invoice[i].paid + txn[c].amount
    /\ txn[c].event # Nobody => payment[txn[c].payment].status # "SUCCESS"

FreshApply(c, i) ==
  LET p == event[txn[c].event].payment
  IN  txn[c].op = "apply" /\ payment[p].invoice = i => payment[p].status # "SUCCESS"

Even(i) == Received(i) = invoice[i].paid

Settled(i) == Even(i) /\ \A c \in Clients : FreshCredit(c, i) /\ FreshApply(c, i)

SettleInv == \A i \in Releases \ raced : Settled(i)

(* A request that goes on while no money moves.                            *)
LEMMA BalancedSettles ==
  ASSUME Sound, Held, Fixed, Next, Balanced, NEW i \in Releases, Settled(i)
  PROVE  Settled(i)'
<1>0. TypeOK
  BY DEF Sound
<1>1. PICK c \in Clients, t \in Txn : Moves(c, t)
  BY EveryMove
<1>2. \A d \in Clients : txn'[d] = IF d = c THEN t ELSE txn[d]
  BY <1>0, <1>1, Types DEF Moves
<1>3. payment' = payment /\ invoice'[i].paid = invoice[i].paid
  BY DEF Balanced
<1>4. Even(i)'
  BY <1>3, SameReceived DEF Even, Settled
<1>5. ASSUME NEW d \in Clients PROVE FreshCredit(d, i)'
  <2> SUFFICES ASSUME txn'[d].op = "credit", txn'[d].invoice = i
               PROVE  /\ txn'[d].paid = invoice'[i].paid + txn'[d].amount
                      /\ txn'[d].event # Nobody => payment'[txn'[d].payment].status # "SUCCESS"
    BY DEF FreshCredit
  <2>1. CASE d = c
    <3>1. /\ txn'[d] = t /\ t.paid = invoice[i].paid + t.amount
          /\ \/ t.event = Nobody
             \/ /\ txn[c].op = "apply" /\ t.payment = event[txn[c].event].payment
                /\ payment[t.payment].invoice = i
      BY <1>1, <1>2, <2>1 DEF Moves
    <3>2. t.event # Nobody => payment[t.payment].status # "SUCCESS"
      BY <3>1 DEF Settled, FreshApply
    <3> QED BY <1>3, <3>1, <3>2
  <2>2. CASE d # c
    BY <1>2, <1>3, <2>2 DEF Settled, FreshCredit
  <2> QED BY <2>1, <2>2
<1>6. ASSUME NEW d \in Clients PROVE FreshApply(d, i)'
  <2> SUFFICES ASSUME txn'[d].op = "apply", payment'[event'[txn'[d].event].payment].invoice = i
               PROVE  payment'[event'[txn'[d].event].payment].status # "SUCCESS"
    BY DEF FreshApply
  <2>1. CASE d = c
    BY <1>1, <1>2, <1>3, <2>1 DEF Moves
  <2>2. CASE d # c
    <3>1. txn'[d] = txn[d] /\ txn[d].op = "apply" /\ txn[d] \in Txn
      BY <1>0, <1>2, <2>2, Types
    <3>2. txn[d].event # Nobody
      BY <1>0, <3>1, Kinds, Types
    <3>3. event'[txn[d].event] = event[txn[d].event]
      BY <1>1, <2>2, <3>1, <3>2, OwnEvent
    <3> QED BY <1>3, <3>1, <3>3 DEF Settled, FreshApply
  <2> QED BY <2>1, <2>2
<1> QED BY <1>4, <1>5, <1>6 DEF Settled

(* A request that ends and leaves invoice i alone: it writes the payment q,*)
(* which is not on i, or neither was nor is a success.                     *)
LEMMA ElsewhereSettles ==
  ASSUME Sound, Held, Fixed, Next, NEW c \in Clients, txn' = [txn EXCEPT ![c] = Idle],
         NEW i \in Releases, Settled(i), invoice'[i].paid = invoice[i].paid,
         NEW q \in Payments, \A p \in Payments : p # q => payment'[p] = payment[p],
         payment[q].invoice = i => payment[q].status # "SUCCESS",
         payment'[q].invoice = i => payment'[q].status # "SUCCESS"
  PROVE  Settled(i)'
<1>0. TypeOK /\ RowsStay
  BY RowsKept DEF Sound
<1>1. PICK b \in Clients, t \in Txn : Moves(b, t)
  BY EveryMove
<1>2. ASSUME NEW d \in Clients
      PROVE  /\ d = c => txn'[d] = Idle
             /\ d # c => txn'[d] = txn[d]
  BY <1>0, Types
<1>3. Even(i)'
  BY SameReceived DEF Even, Settled
<1>4. ASSUME NEW d \in Clients PROVE FreshCredit(d, i)'
  <2> SUFFICES ASSUME txn'[d].op = "credit", txn'[d].invoice = i
               PROVE  /\ txn'[d].paid = invoice'[i].paid + txn'[d].amount
                      /\ txn'[d].event # Nobody => payment'[txn'[d].payment].status # "SUCCESS"
    BY DEF FreshCredit
  <2>1. txn'[d] = txn[d]
    BY <1>2, MadeTxn
  <2>2. PICK p \in Payments : p = txn[d].payment
    BY <1>0, <2>1, Kinds, Types
  <2>3. txn[d].event # Nobody =>
          payment[p].status # "SUCCESS" /\ payment[p].status # Absent /\ payment[p].invoice = i
    BY <2>1, <2>2 DEF Settled, FreshCredit, Fixed, AsRead
  <2>4. txn[d].event # Nobody => payment'[p].status # "SUCCESS"
    BY <1>0, <2>3 DEF RowsStay
  <2> QED BY <2>1, <2>2, <2>4 DEF Settled, FreshCredit
<1>5. ASSUME NEW d \in Clients PROVE FreshApply(d, i)'
  <2> SUFFICES ASSUME txn'[d].op = "apply", payment'[event'[txn'[d].event].payment].invoice = i
               PROVE  payment'[event'[txn'[d].event].payment].status # "SUCCESS"
    BY DEF FreshApply
  <2>1. txn'[d] = txn[d] /\ d # c /\ txn[d] \in Txn
    BY <1>0, <1>2, MadeTxn, Types
  <2>2. PICK e \in Events : e = txn[d].event
    BY <2>1, Kinds
  <2>3. event'[e] = event[e] /\ event[e].payment \in Payments
    <3>1. e # Nobody
      BY <1>0, Types
    <3>2. CASE d # b
      BY <1>1, <2>1, <2>2, <3>1, <3>2, OwnEvent
    <3>3. CASE d = b
      <4>1. t = txn[d]
        BY <1>0, <1>1, <2>1, <3>3, Types DEF Moves
      <4> QED BY <1>1, <2>1, <2>2, <4>1 DEF Moves, Sound, Refs, Uses
    <3> QED BY <3>2, <3>3
  <2>4. PICK p \in Payments : p = event[e].payment
    BY <2>3
  <2>5. payment[p].status # Absent
    BY <2>1, <2>2, <2>4 DEF Sound, Refs
  <2>6. payment[p].invoice = i /\ payment'[p].invoice = i
    BY <1>0, <2>1, <2>2, <2>3, <2>4, <2>5 DEF RowsStay
  <2>7. p # q => payment[p].status # "SUCCESS"
    BY <2>1, <2>2, <2>4, <2>6 DEF Settled, FreshApply
  <2> QED BY <2>1, <2>2, <2>3, <2>4, <2>6, <2>7
<1> QED BY <1>3, <1>4, <1>5 DEF Settled

(* A payment of invoice i succeeds, and no other request goes on with what *)
(* it had read of i.                                                       *)
LEMMA CreditSettles ==
  ASSUME Sound, Held, Beginnings, Fixed, Next, NEW c \in Clients, CommitCredit(c),
         NEW i \in Releases, i = txn[c].invoice, Settled(i),
         \A d \in Clients : ~ReadGoesStale(d, i)
  PROVE  Settled(i)'
<1>0. TypeOK /\ RowsStay
  BY RowsKept DEF Sound
<1>1. PICK q \in Payments, a \in Amounts, n \in Nat, e \in Events \cup {Nobody} :
        /\ txn[c].op = "credit" /\ q = txn[c].payment
        /\ a = txn[c].amount /\ n = txn[c].paid /\ e = txn[c].event
        /\ e = Nobody => payment[q].status = Absent
        /\ payment'[q].status = "SUCCESS" /\ payment'[q].invoice = i /\ payment'[q].amount = a
        /\ \A p \in Payments : p # q => payment'[p] = payment[p]
        /\ invoice'[i].paid = n
        /\ txn' = [txn EXCEPT ![c] = Idle]
  BY <1>0, CreditRows
<1>2. n = invoice[i].paid + a /\ payment[q].status # "SUCCESS"
  BY <1>1 DEF Settled, FreshCredit, Absent
<1>3. a \in Nat \ {0} /\ invoice[i].paid \in Nat
  BY <1>0, Types DEF InvoiceRow
<1>4. Received(i)' = Received(i) + a
  BY <1>0, <1>1, <1>2, <1>3, OneReceived DEF Beginnings
<1>5. Even(i)'
  BY <1>1, <1>2, <1>4 DEF Even, Settled
<1>6. \A d \in Clients : IF d = c THEN txn'[d] = Idle ELSE txn'[d] = txn[d]
  BY <1>0, <1>1, Types
<1>7. ASSUME NEW d \in Clients PROVE FreshCredit(d, i)'
  <2>1. CASE txn'[d].op = "credit" /\ txn'[d].invoice = i
    <3>1. txn'[d] = txn[d]
      BY <1>6, <2>1, MadeTxn
    <3>2. invoice'[i].paid # invoice[i].paid
      BY <1>1, <1>2, <1>3
    <3>3. ReadGoesStale(d, i)
      BY <2>1, <3>1, <3>2 DEF ReadGoesStale
    <3> QED BY <3>3
  <2> QED BY <2>1 DEF FreshCredit
<1>8. ASSUME NEW d \in Clients PROVE FreshApply(d, i)'
  <2> SUFFICES ASSUME txn'[d].op = "apply", payment'[event'[txn'[d].event].payment].invoice = i
               PROVE  payment'[event'[txn'[d].event].payment].status # "SUCCESS"
    BY DEF FreshApply
  <2>1. txn'[d] = txn[d] /\ d # c /\ txn[d] \in Txn
    BY <1>0, <1>6, MadeTxn, Types
  <2>2. PICK f \in Events : f = txn[d].event
    BY <2>1, Kinds
  <2>3. event'[f] = event[f] /\ event[f].payment \in Payments
    <3>1. f # Nobody /\ Uses(d, f) /\ event[f].status # Absent
      BY <1>0, <2>1, <2>2, Types DEF Uses, Sound, Refs
    <3>2. event' = Processed(e) /\ (e = f => d = c)
      BY <1>1, <2>1, <2>2, <3>1 DEF CommitCredit, Held, Uses
    <3>3. event'[f] = event[f]
      BY <1>0, <2>1, <3>2, ProcessedRows
    <3> QED BY <3>1, <3>3 DEF Sound, Refs
  <2>4. PICK p \in Payments : p = event[f].payment
    BY <2>3
  <2>5. payment[p].status # Absent
    BY <2>1, <2>2, <2>4 DEF Sound, Refs
  <2>6. payment[p].invoice = i
    BY <1>0, <2>1, <2>2, <2>3, <2>4, <2>5 DEF RowsStay
  <2>7. payment[p].status # "SUCCESS"
    BY <2>1, <2>2, <2>4, <2>6 DEF Settled, FreshApply
  <2>8. payment'[p].status # "SUCCESS"
    BY <2>1, <2>2, <2>4, <2>6, <2>7 DEF ReadGoesStale, About
  <2> QED BY <2>1, <2>2, <2>3, <2>4, <2>8
<1> QED BY <1>5, <1>7, <1>8 DEF Settled

LEMMA StepSettles ==
  ASSUME Sound, Held, Beginnings, Fixed, SettleInv, Next
  PROVE  SettleInv'
<1>0. TypeOK
  BY DEF Sound
<1>1. raced' = raced \cup {i \in Releases : \E c \in Clients : ReadGoesStale(c, i)}
  BY DEF Next
<1>2. ASSUME NEW i \in Releases \ raced' PROVE Settled(i)'
  <2>1. Settled(i) /\ \A c \in Clients : ~ReadGoesStale(c, i)
    BY <1>1 DEF SettleInv
  <2>2. CASE Balanced
    BY <2>1, <2>2, BalancedSettles
  <2>3. ASSUME NEW c \in Clients, CommitCredit(c) PROVE Settled(i)'
    <3>1. CASE txn[c].invoice = i
      BY <2>1, <2>3, <3>1, CreditSettles
    <3>2. CASE txn[c].invoice # i
      <4>1. PICK q \in Payments, j \in Releases, e \in Events \cup {Nobody} :
              /\ txn[c].op = "credit" /\ q = txn[c].payment /\ j = txn[c].invoice /\ e = txn[c].event
              /\ e = Nobody => payment[q].status = Absent
              /\ payment'[q].invoice = j
              /\ \A p \in Payments : p # q => payment'[p] = payment[p]
              /\ \A k \in Releases : k # j => invoice'[k] = invoice[k]
              /\ txn' = [txn EXCEPT ![c] = Idle]
        BY <1>0, <2>3, CreditRows
      <4>2. payment[q].invoice = i => payment[q].status # "SUCCESS"
        BY <3>2, <4>1 DEF Fixed, AsRead, Absent
      <4>3. payment'[q].invoice # i /\ invoice'[i].paid = invoice[i].paid
        BY <3>2, <4>1
      <4> QED BY <2>1, <4>1, <4>2, <4>3, ElsewhereSettles
    <3> QED BY <3>1, <3>2
  <2>4. ASSUME NEW c \in Clients, CommitInitiate(c) PROVE Settled(i)'
    <3>1. PICK q \in Payments :
            /\ payment[q].status = Absent /\ payment'[q].status = "PENDING"
            /\ \A p \in Payments : p # q => payment'[p] = payment[p]
            /\ invoice' = invoice /\ txn' = [txn EXCEPT ![c] = Idle]
      BY <2>4, InitiateRows
    <3>2. payment[q].status # "SUCCESS"
      BY <3>1 DEF Absent
    <3> QED BY <2>1, <3>1, <3>2, ElsewhereSettles
  <2>5. ASSUME NEW c \in Clients, Refuses(c) PROVE Settled(i)'
    <3>1. PICK q \in Payments :
            /\ q = event[txn[c].event].payment /\ payment'[q].status # "SUCCESS"
            /\ \A p \in Payments : p # q => payment'[p] = payment[p]
            /\ invoice' = invoice /\ txn' = [txn EXCEPT ![c] = Idle]
      BY <2>5, RefuseRows
    <3>2. payment[q].invoice = i => payment[q].status # "SUCCESS"
      BY <2>1, <2>5, <3>1 DEF Refuses, Settled, FreshApply
    <3> QED BY <2>1, <3>1, <3>2, ElsewhereSettles
  <2> QED BY <2>2, <2>3, <2>4, <2>5, BalancesMove
<1> QED BY <1>2 DEF SettleInv

LEMMA AlwaysSettled == Spec => []SettleInv
<1>1. Init => SettleInv
  <2> SUFFICES ASSUME Init, NEW i \in Releases PROVE Settled(i)
    BY DEF SettleInv
  <2>1. Counted(i) = {} /\ invoice[i].paid = 0
    BY DEF Init, Counted, Absent
  <2>2. Even(i)
    BY <2>1, CountedSum, AddedEmpty DEF Even
  <2>3. \A c \in Clients : txn[c].op = "idle"
    BY MadeTxn DEF Init
  <2> QED BY <2>2, <2>3 DEF Settled, FreshCredit, FreshApply
<1>2. Sound /\ Held /\ Beginnings /\ Fixed /\ SettleInv /\ Next => SettleInv'
  BY StepSettles
<1>3. SettleInv /\ UNCHANGED vars => SettleInv'
  <2> SUFFICES ASSUME SettleInv, UNCHANGED vars, NEW i \in Releases \ raced' PROVE Settled(i)'
    BY DEF SettleInv
  <2>1. /\ invoice' = invoice /\ payment' = payment /\ event' = event /\ txn' = txn
        /\ raced' = raced
    BY DEF vars, rows
  <2>2. Received(i)' = Received(i)
    BY <2>1, SameReceived
  <2> QED BY <2>1, <2>2 DEF SettleInv, Settled, Even, FreshCredit, FreshApply
<1> QED BY <1>1, <1>2, <1>3, TypeCorrect, AlwaysHeld, AlwaysFixed, PTL DEF Spec

------------------------------------------------------------------------------
(* What stands behind the balance of an invoice, whatever overlaps         *)

(* A larger set has a larger sum ...                                       *)
LEMMA TallyGrows ==
  ASSUME NEW f, NEW S, IsFiniteSet(S), NEW g, Weighed(f, S), Tally(g, f, S)
  PROVE  \A r \in SUBSET S : g[r] <= g[S]
<1> DEFINE T == {n \in Nat : \A s \in SUBSET S : Cardinality(s) <= n =>
                               \A r \in SUBSET s : g[r] <= g[s]}
<1>0. \A s \in SUBSET S : IsFiniteSet(s) /\ Cardinality(s) \in Nat /\ (s # {} => Cardinality(s) # 0)
  BY FS_Subset, FS_CardinalityType, FS_EmptySet
<1>1. \A s \in SUBSET S : g[s] \in Nat
  BY DEF Tally
<1>2. 0 \in T
  <2>1. ASSUME NEW s \in SUBSET S, Cardinality(s) <= 0, NEW r \in SUBSET s PROVE g[r] <= g[s]
    <3>1. s = {} /\ r = s
      BY <1>0, <2>1
    <3> QED BY <1>1, <3>1
  <2> QED BY <2>1
<1>3. ASSUME NEW n \in T PROVE n + 1 \in T
  <2>1. ASSUME NEW s \in SUBSET S, Cardinality(s) <= n + 1, NEW r \in SUBSET s PROVE g[r] <= g[s]
    <3>1. CASE r = s
      BY <1>1, <3>1
    <3>2. CASE r # s
      <4>1. PICK x \in s : x \notin r
        BY <3>2
      <4>2. PICK q \in SUBSET S : q = s \ {x}
        OBVIOUS
      <4>3. Cardinality(q) <= n /\ r \in SUBSET q
        BY <2>1, <4>1, <4>2, OneLess
      <4>4. g[r] <= g[q]
        BY <4>3
      <4>5. g[s] = f[x].amount + g[q] /\ f[x].amount \in Nat
        BY <4>2, AnyFirst DEF Weighed
      <4>6. g[r] \in Nat /\ g[q] \in Nat
        BY <1>1
      <4> QED BY <4>4, <4>5, <4>6
    <3> QED BY <3>1, <3>2
  <2> QED BY <2>1
<1>4. T = Nat
  <2> HIDE DEF T
  <2>1. T \in SUBSET Nat
    BY DEF T
  <2> QED BY <1>2, <1>3, <2>1, NaturalsFrom
<1>5. Cardinality(S) \in T
  <2> HIDE DEF T
  <2> QED BY <1>0, <1>4
<1>6. Cardinality(S) <= Cardinality(S)
  BY <1>0
<1> QED BY <1>5, <1>6

(* ... and one more element adds its weight at least.                      *)
LEMMA AddedMore ==
  ASSUME NEW f, NEW h, NEW R, NEW S, R \subseteq S, IsFiniteSet(S), Weighed(h, S),
         \A p \in R : f[p].amount = h[p].amount
  PROVE  /\ Added(f, R) \in Nat /\ Added(h, S) \in Nat
         /\ Added(f, R) <= Added(h, S)
         /\ \A x \in S \ R : Added(f, R) + h[x].amount <= Added(h, S)
<1>1. ASSUME NEW Q \in SUBSET S, R \subseteq Q
      PROVE  Added(f, R) \in Nat /\ Added(h, Q) \in Nat /\ Added(f, R) <= Added(h, Q)
  <2>1. IsFiniteSet(Q) /\ IsFiniteSet(R) /\ Weighed(h, Q) /\ Weighed(h, R)
    BY <1>1, FS_Subset DEF Weighed
  <2>2. PICK g : Added(h, Q) = g[Q] /\ Tally(g, h, Q)
    BY <2>1, AddedIs
  <2>3. PICK k : Added(h, R) = k[R] /\ Tally(k, h, R)
    BY <2>1, AddedIs
  <2>4. PICK P \in SUBSET Q : P = R
    BY <1>1
  <2>5. k[R] = g[R]
    BY <2>1, <2>2, <2>3, <2>4, Determined DEF Tally
  <2>6. g[R] <= g[Q] /\ g[R] \in Nat /\ g[Q] \in Nat
    BY <2>1, <2>2, <2>4, TallyGrows DEF Tally
  <2>7. Added(f, R) = Added(h, R)
    BY AddedSame
  <2> QED BY <2>2, <2>3, <2>5, <2>6, <2>7
<1>2. ASSUME NEW x \in S \ R PROVE Added(f, R) + h[x].amount <= Added(h, S)
  <2>1. PICK Q \in SUBSET S : Q = S \ {x}
    OBVIOUS
  <2>2. Added(h, S) = h[x].amount + Added(h, Q)
    BY <2>1, AddedOne
  <2>3. Added(f, R) \in Nat /\ Added(h, Q) \in Nat /\ Added(f, R) <= Added(h, Q)
    BY <1>1, <2>1
  <2>4. h[x].amount \in Nat
    BY DEF Weighed
  <2> QED BY <2>2, <2>3, <2>4
<1> QED BY <1>1, <1>2

Hand(i) == {p \in Payments : payment[p].invoice = i /\ payment[p].via = "hand"}
Named == [e \in Events |-> payment[event[e].payment]]

ToldSum(i) == MapThenSumSet(LAMBDA e : payment[event[e].payment].amount, Told(i))
AddTold(g, s) == IF s = {} THEN 0 ELSE payment[event[Picked(s)].payment].amount + g[s \ {Picked(s)}]

LEMMA ToldIsAdded == \A i \in Releases : ToldSum(i) = Added(Named, Told(i))
<1> SUFFICES ASSUME NEW i \in Releases PROVE ToldSum(i) = Added(Named, Told(i))
  OBVIOUS
<1>1. PICK S : S = Told(i)
  OBVIOUS
<1>2. S \subseteq Events
  BY <1>1 DEF Told
<1>3. \A g : \A s \in SUBSET S : AddTold(g, s) = AddUp(Named, g, s)
  BY <1>2, PickedIn DEF AddTold, AddUp, Named
<1>4. \A g : [s \in SUBSET S |-> AddTold(g, s)] = [s \in SUBSET S |-> AddUp(Named, g, s)]
  BY <1>3
<1>5. (CHOOSE g : g = [s \in SUBSET S |-> AddTold(g, s)])
        = (CHOOSE g : g = [s \in SUBSET S |-> AddUp(Named, g, s)])
  BY <1>4
<1>6. MapThenSumSet(LAMBDA e : payment[event[e].payment].amount, S)
        = (CHOOSE g : g = [s \in SUBSET S |-> AddTold(g, s)])[S]
  BY DEF MapThenSumSet, MapThenFoldSet, AddTold, Picked
<1> QED BY <1>1, <1>5, <1>6 DEF ToldSum, Added

LEMMA BackingSum == \A i \in Releases : Backing(i) = Added(payment, Hand(i)) + Added(Named, Told(i))
  BY TotalSum, ToldIsAdded DEF Backing, Hand, ToldSum

LEMMA BackingSumNext ==
  (\A i \in Releases : Backing(i) = Added(payment, Hand(i)) + Added(Named, Told(i)))'
  BY BackingSum, PTL

LEMMA HandRows ==
  ASSUME TypeOK, Beginnings, Fixed, NEW i \in Releases
  PROVE  IsFiniteSet(Hand(i)) /\ Weighed(payment, Hand(i))
<1>1. Hand(i) \subseteq Inserted
  BY DEF Hand, Inserted, Fixed, Absent
<1>2. IsFiniteSet(Hand(i))
  BY <1>1, FS_Subset DEF Beginnings
<1> QED BY <1>2, Types DEF Weighed, Hand, PaymentRow

LEMMA ToldRows ==
  ASSUME Sound, Beginnings, NEW i \in Releases
  PROVE  IsFiniteSet(Told(i)) /\ Weighed(Named, Told(i))
<1>1. Told(i) \subseteq Delivered
  BY DEF Told, Delivered, Absent
<1>2. IsFiniteSet(Told(i))
  BY <1>1, FS_Subset DEF Beginnings
<1>3. \A e \in Told(i) : e \in Events /\ event[e].payment \in Payments
  BY DEF Told, Sound, Refs, Absent
<1>4. \A e \in Told(i) : Named[e].amount \in Nat
  BY <1>3, Types DEF Sound, Named, PaymentRow
<1> QED BY <1>2, <1>4 DEF Weighed

LEMMA RowsNow ==
  \A i \in Releases : Sound /\ Beginnings /\ Fixed =>
    /\ IsFiniteSet(Hand(i)) /\ Weighed(payment, Hand(i))
    /\ IsFiniteSet(Told(i)) /\ Weighed(Named, Told(i))
  BY HandRows, ToldRows DEF Sound

LEMMA RowsThen ==
  (\A i \in Releases : Sound /\ Beginnings /\ Fixed =>
    /\ IsFiniteSet(Hand(i)) /\ Weighed(payment, Hand(i))
    /\ IsFiniteSet(Told(i)) /\ Weighed(Named, Told(i)))'
  BY RowsNow, PTL

LEMMA RowsNext ==
  ASSUME Sound', Beginnings', Fixed', NEW i \in Releases
  PROVE  /\ IsFiniteSet(Hand(i)') /\ Weighed(payment', Hand(i)')
         /\ IsFiniteSet(Told(i)') /\ Weighed(Named', Told(i)')
  BY RowsThen

(* What was recorded by hand or told of stays so.                          *)
LEMMA CausesKept ==
  ASSUME Sound, Held, Fixed, Next, NEW i \in Releases
  PROVE  /\ Hand(i) \subseteq Hand(i)' /\ \A p \in Hand(i) : payment'[p].amount = payment[p].amount
         /\ Told(i) \subseteq Told(i)' /\ \A e \in Told(i) : Named'[e].amount = Named[e].amount
<1>0. TypeOK /\ RowsStay
  BY RowsKept DEF Sound
<1>1. ASSUME NEW p \in Hand(i)
      PROVE  p \in Hand(i)' /\ payment'[p].amount = payment[p].amount
  <2>1. p \in Payments /\ payment[p].status # Absent
    BY DEF Hand, Fixed, Absent
  <2> QED BY <1>0, <2>1 DEF Hand, RowsStay
<1>2. ASSUME NEW e \in Told(i)
      PROVE  e \in Told(i)' /\ Named'[e].amount = Named[e].amount
  <2>1. e \in Events /\ event[e].status = "PROCESSED" /\ payment[event[e].payment].invoice = i
    BY DEF Told
  <2>2. event'[e] = event[e]
    <3>1. PICK c \in Clients, t \in Txn : Moves(c, t)
      BY EveryMove
    <3> QED BY <2>1, <3>1 DEF Moves, Held, Absent
  <2>3. PICK p \in Payments : p = event[e].payment
    BY <2>1 DEF Sound, Refs, Absent
  <2>4. payment[p].status # Absent
    BY <1>0, <2>1, <2>3, Types DEF Fixed
  <2>5. payment'[p].invoice = payment[p].invoice /\ payment'[p].amount = payment[p].amount
    BY <1>0, <2>4 DEF RowsStay
  <2> QED BY <2>1, <2>2, <2>3, <2>5 DEF Told, Named
<1> QED BY <1>1, <1>2

LEMMA BackingGrows ==
  ASSUME Sound, Held, Beginnings, Fixed, Next, Sound', Beginnings', Fixed', NEW i \in Releases
  PROVE  /\ Backing(i) \in Nat /\ Backing(i)' \in Nat /\ Backing(i) <= Backing(i)'
         /\ \A p \in Hand(i)' \ Hand(i) : Backing(i) + payment'[p].amount <= Backing(i)'
         /\ \A e \in Told(i)' \ Told(i) : Backing(i) + Named'[e].amount <= Backing(i)'
<1>1. PICK f, h, R, S : f = payment /\ h = payment' /\ R = Hand(i) /\ S = Hand(i)'
  OBVIOUS
<1>2. /\ Added(f, R) \in Nat /\ Added(h, S) \in Nat /\ Added(f, R) <= Added(h, S)
      /\ \A p \in S \ R : Added(f, R) + h[p].amount <= Added(h, S)
  <2>1. R \subseteq S /\ \A p \in R : f[p].amount = h[p].amount
    BY <1>1, CausesKept
  <2>2. IsFiniteSet(S) /\ Weighed(h, S)
    BY <1>1, RowsNext
  <2> QED BY <2>1, <2>2, AddedMore
<1>3. PICK v, w, Q, T : v = Named /\ w = Named' /\ Q = Told(i) /\ T = Told(i)'
  OBVIOUS
<1>4. /\ Added(v, Q) \in Nat /\ Added(w, T) \in Nat /\ Added(v, Q) <= Added(w, T)
      /\ \A e \in T \ Q : Added(v, Q) + w[e].amount <= Added(w, T)
  <2>1. Q \subseteq T /\ \A e \in Q : v[e].amount = w[e].amount
    BY <1>3, CausesKept
  <2>2. IsFiniteSet(T) /\ Weighed(w, T)
    BY <1>3, RowsNext
  <2> QED BY <2>1, <2>2, AddedMore
<1>5. \A p \in S : h[p].amount \in Nat
  BY <1>1, RowsNext DEF Weighed
<1>6. \A e \in T : w[e].amount \in Nat
  BY <1>3, RowsNext DEF Weighed
<1>7. Backing(i) = Added(f, R) + Added(v, Q)
  BY <1>1, <1>3, BackingSum
<1>8. Backing(i)' = Added(h, S) + Added(w, T)
  BY <1>1, <1>3, BackingSumNext
<1> HIDE DEF Hand, Told
<1>9. Backing(i) \in Nat /\ Backing(i)' \in Nat /\ Backing(i) <= Backing(i)'
  BY <1>2, <1>4, <1>7, <1>8
<1>10. \A p \in S \ R : Backing(i) + h[p].amount <= Backing(i)'
  BY <1>2, <1>4, <1>5, <1>7, <1>8
<1>11. \A e \in T \ Q : Backing(i) + w[e].amount <= Backing(i)'
  BY <1>2, <1>4, <1>6, <1>7, <1>8
<1> QED BY <1>1, <1>3, <1>9, <1>10, <1>11

(* A credit has a cause of its own: the payment by hand that it records, or*)
(* the callback that it consumes.                                          *)
LEMMA CreditBacked ==
  ASSUME Sound, Held, Beginnings, Fixed, Next, Sound', Beginnings', Fixed',
         NEW c \in Clients, CommitCredit(c), NEW i \in Releases, i = txn[c].invoice
  PROVE  Backing(i) + txn[c].amount <= Backing(i)'
<1>0. TypeOK
  BY DEF Sound
<1>1. PICK q \in Payments, a \in Amounts, e \in Events \cup {Nobody} :
        /\ txn[c].op = "credit" /\ q = txn[c].payment /\ a = txn[c].amount /\ e = txn[c].event
        /\ e = Nobody => payment[q].status = Absent
        /\ payment'[q].invoice = i /\ payment'[q].amount = a
        /\ payment'[q].via = IF e = Nobody THEN "hand" ELSE "gateway"
        /\ event' = Processed(e)
  BY <1>0, CreditRows
<1>2. CASE e = Nobody
  <2>1. q \in Hand(i)'
    BY <1>1, <1>2 DEF Hand
  <2>2. q \notin Hand(i)
    BY <1>1, <1>2 DEF Hand, Fixed, Absent
  <2> QED BY <1>1, <2>1, <2>2, BackingGrows
<1>3. CASE e # Nobody
  <2>1. e \in Events /\ event[e].status = "STORED" /\ event[e].payment = q /\ event[e].outcome = "SUCCESS"
    BY <1>1, <1>3 DEF Held, Uses
  <2>2. event'[e].status = "PROCESSED" /\ event'[e].payment = q /\ event'[e].outcome = "SUCCESS"
    BY <1>0, <1>1, <2>1, ProcessedRows
  <2>3. e \in Told(i)' /\ e \notin Told(i)
    BY <1>1, <2>1, <2>2 DEF Told
  <2>4. Named'[e].amount = a
    BY <1>1, <2>1, <2>2 DEF Named
  <2> QED BY <1>1, <2>3, <2>4, BackingGrows
<1> QED BY <1>2, <1>3

(* The balance, and what a request is about to write, have a backing; an   *)
(* invoice with a successful payment shows money.                          *)
Backed ==
  /\ \A i \in Releases : invoice[i].paid <= Backing(i)
  /\ \A c \in Clients, i \in Releases : txn[c].op = "credit" /\ txn[c].invoice = i =>
       txn[c].paid <= Backing(i) + txn[c].amount

Shown ==
  \A p \in Payments : payment[p].status = "SUCCESS" => invoice[payment[p].invoice].paid > 0

LEMMA BackedKept ==
  ASSUME Sound, Held, Beginnings, Fixed, Backed, Next, Sound', Beginnings', Fixed'
  PROVE  Backed'
<1>0. TypeOK
  BY DEF Sound
<1>1. \A i \in Releases : Backing(i) \in Nat /\ Backing(i)' \in Nat /\ Backing(i) <= Backing(i)'
  BY BackingGrows
<1>2. \A i \in Releases : invoice[i].paid \in Nat
  BY <1>0, Types DEF InvoiceRow
<1>3. ASSUME NEW i \in Releases PROVE invoice'[i].paid <= Backing(i)'
  <2>1. CASE invoice'[i].paid = invoice[i].paid
    BY <1>1, <1>2, <2>1 DEF Backed
  <2>2. ASSUME NEW c \in Clients, CommitCredit(c), invoice'[i].paid # invoice[i].paid
        PROVE  invoice'[i].paid <= Backing(i)'
    <3>1. PICK j \in Releases, a \in Amounts, n \in Nat :
            /\ txn[c].op = "credit" /\ j = txn[c].invoice /\ a = txn[c].amount /\ n = txn[c].paid
            /\ invoice'[j].paid = n
            /\ \A k \in Releases : k # j => invoice'[k] = invoice[k]
      BY <1>0, <2>2, CreditRows
    <3>2. i = j
      BY <2>2, <3>1
    <3>3. n <= Backing(i) + a
      BY <3>1, <3>2 DEF Backed
    <3>4. Backing(i) + a <= Backing(i)'
      BY <2>2, <3>1, <3>2, CreditBacked
    <3>5. a \in Nat
      BY <1>0, Types
    <3> QED BY <1>1, <3>1, <3>2, <3>3, <3>4, <3>5
  <2>3. \/ invoice'[i].paid = invoice[i].paid
        \/ \E c \in Clients : CommitCredit(c)
    BY BalancesMove, InitiateRows, RefuseRows DEF Balanced
  <2> QED BY <2>1, <2>2, <2>3
<1>4. PICK c \in Clients, t \in Txn : Moves(c, t)
  BY EveryMove
<1>5. \A d \in Clients : txn'[d] = IF d = c THEN t ELSE txn[d]
  BY <1>0, <1>4, Types DEF Moves
<1>6. ASSUME NEW d \in Clients, NEW i \in Releases, txn'[d].op = "credit", txn'[d].invoice = i
      PROVE  txn'[d].paid <= Backing(i)' + txn'[d].amount
  <2>1. PICK u \in Txn : u = txn'[d]
    BY <1>0, <1>5, Types
  <2>2. u.op = "credit" /\ u.invoice = i /\ u.paid \in Nat /\ u.amount \in Nat
    BY <1>0, <1>6, <2>1, Kinds, Types
  <2>3. CASE d = c
    <3>1. u.paid = invoice[i].paid + u.amount
      BY <1>4, <1>5, <2>1, <2>2, <2>3 DEF Moves
    <3>2. invoice[i].paid <= Backing(i)
      BY DEF Backed
    <3> QED BY <1>1, <1>2, <2>1, <2>2, <3>1, <3>2
  <2>4. CASE d # c
    <3>1. u = txn[d]
      BY <1>5, <2>1, <2>4
    <3>2. u.paid <= Backing(i) + u.amount
      BY <2>2, <3>1 DEF Backed
    <3> QED BY <1>1, <2>1, <2>2, <3>2
  <2> QED BY <2>3, <2>4
<1> QED BY <1>3, <1>6 DEF Backed

LEMMA ShownKept ==
  ASSUME Sound, BillInv, Beginnings, Shown, Next
  PROVE  Shown'
<1>0. TypeOK
  BY DEF Sound
<1>1. \A p \in Payments : payment[p].status = "SUCCESS" => payment[p].invoice \in Releases
  BY DEF Sound, Refs, Absent
<1>2. CASE Balanced
  BY <1>1, <1>2 DEF Balanced, Shown
<1>3. ASSUME NEW c \in Clients, CommitCredit(c) PROVE Shown'
  <2>1. PICK q \in Payments, j \in Releases, n \in Nat :
          /\ txn[c].op = "credit" /\ j = txn[c].invoice /\ n = txn[c].paid
          /\ payment'[q].invoice = j
          /\ \A p \in Payments : p # q => payment'[p] = payment[p]
          /\ invoice'[j].paid = n
          /\ \A k \in Releases : k # j => invoice'[k] = invoice[k]
    BY <1>0, <1>3, CreditRows
  <2>2. n > 0
    <3>1. n \in 1..invoice[j].total /\ invoice[j].total \in Nat
      BY <1>0, <2>1, Types DEF BillInv, Credits, InvoiceRow
    <3> QED BY <3>1
  <2>3. ASSUME NEW p \in Payments, payment'[p].status = "SUCCESS"
        PROVE  invoice'[payment'[p].invoice].paid > 0
    <3>1. CASE p = q
      BY <2>1, <2>2, <3>1
    <3>2. CASE p # q
      <4>1. payment'[p] = payment[p] /\ payment[p].invoice \in Releases
            /\ invoice[payment[p].invoice].paid > 0
        BY <1>1, <2>1, <2>3, <3>2 DEF Shown
      <4> QED BY <2>1, <2>2, <4>1
    <3> QED BY <3>1, <3>2
  <2> QED BY <2>3 DEF Shown
<1>4. ASSUME NEW c \in Clients, CommitInitiate(c) PROVE Shown'
  BY <1>4, InitiateRows DEF Shown
<1>5. ASSUME NEW c \in Clients, Refuses(c) PROVE Shown'
  BY <1>5, RefuseRows DEF Shown
<1> QED BY <1>2, <1>3, <1>4, <1>5, BalancesMove

LEMMA AlwaysBacked == Spec => [](Backed /\ Shown)
<1>1. Init => Backed /\ Shown
  <2> SUFFICES ASSUME Init PROVE Backed /\ Shown
    OBVIOUS
  <2>1. \A i \in Releases : Hand(i) = {} /\ Told(i) = {} /\ invoice[i].paid = 0
    BY DEF Init, Hand, Told, Absent
  <2>2. \A i \in Releases : Backing(i) = 0
    BY <2>1, BackingSum, AddedEmpty
  <2>3. \A c \in Clients : txn[c].op = "idle"
    BY MadeTxn DEF Init
  <2>4. Backed
    BY <2>1, <2>2, <2>3 DEF Backed
  <2>5. Shown
    BY DEF Init, Shown, Absent
  <2> QED BY <2>4, <2>5
<1>2. /\ Sound /\ Held /\ BillInv /\ Beginnings /\ Fixed /\ Backed /\ Shown /\ Next
      /\ Sound' /\ Beginnings' /\ Fixed'
      => Backed' /\ Shown'
  BY BackedKept, ShownKept
<1>3. Backed /\ Shown /\ UNCHANGED vars => Backed' /\ Shown'
  <2> SUFFICES ASSUME Backed, Shown, UNCHANGED vars PROVE Backed' /\ Shown'
    OBVIOUS
  <2>1. \A i \in Releases :
          Hand(i)' = Hand(i) /\ Told(i)' = Told(i) /\ payment' = payment /\ Named' = Named
    BY DEF vars, rows, Hand, Told, Named
  <2>2. \A i \in Releases : Backing(i)' = Added(payment', Hand(i)') + Added(Named', Told(i)')
    BY BackingSumNext
  <2>3. \A i \in Releases : Backing(i)' = Backing(i)
    BY <2>1, <2>2, BackingSum
  <2> QED BY <2>3 DEF vars, rows, Backed, Shown
<1> QED BY <1>1, <1>2, <1>3, TypeCorrect, AlwaysHeld, AlwaysBilled, AlwaysFixed, PTL DEF Spec

(* Every payment that succeeded is on its invoice, unless another request  *)
(* wrote the amount that one had read; and no invoice with a successful    *)
(* payment reads as unpaid (PaymentService, InvoiceService.applyPayment)   *)
(* ...                                                                     *)
THEOREM NoPaymentLost == Spec => []EveryPaymentCounts
<1>1. Sound /\ SettleInv /\ Backed /\ Shown => EveryPaymentCounts
  <2> SUFFICES ASSUME Sound, SettleInv, Shown PROVE EveryPaymentCounts
    OBVIOUS
  <2>1. \A i \in Releases \ raced : Received(i) = invoice[i].paid /\ invoice[i].paid \in Nat
    BY Types DEF SettleInv, Settled, Even, Sound, InvoiceRow
  <2> QED BY <2>1 DEF EveryPaymentCounts, Shown
<1> QED BY <1>1, TypeCorrect, AlwaysSettled, AlwaysBacked, PTL

(* ... and an invoice is credited with nothing else, however many callbacks*)
(* tell of a payment, unless it changed between the check of one and its   *)
(* write; and always with no more than was recorded by hand and announced  *)
(* by the callbacks it consumed (handleWebhook).                           *)
THEOREM NoCreditTwice == Spec => []NothingCountsTwice
<1>1. Sound /\ SettleInv /\ Backed /\ Shown => NothingCountsTwice
  <2> SUFFICES ASSUME Sound, SettleInv, Backed PROVE NothingCountsTwice
    OBVIOUS
  <2>1. \A i \in Releases \ raced : Received(i) = invoice[i].paid /\ invoice[i].paid \in Nat
    BY Types DEF SettleInv, Settled, Even, Sound, InvoiceRow
  <2> QED BY <2>1 DEF NothingCountsTwice, Backed
<1> QED BY <1>1, TypeCorrect, AlwaysSettled, AlwaysBacked, PTL

------------------------------------------------------------------------------
(* Which plan prices a stay                                                *)

(* A rank is compared from its first component on.                         *)
Higher(r, s) ==
  \/ r[1] > s[1]
  \/ r[1] = s[1] /\ r[2] > s[2]
  \/ r[1] = s[1] /\ r[2] = s[2] /\ r[3] > s[3]
  \/ r[1] = s[1] /\ r[2] = s[2] /\ r[3] = s[3] /\ r[4] > s[4]

LEMMA RankOrder == \A r, s : Outranks(r, s) <=> Higher(r, s)
<1> SUFFICES ASSUME NEW r, NEW s PROVE Outranks(r, s) <=> Higher(r, s)
  OBVIOUS
<1>1. 1..4 = {1, 2, 3, 4} /\ 1..(1 - 1) = {} /\ 1..(2 - 1) = {1} /\ 1..(3 - 1) = {1, 2} /\ 1..(4 - 1) = {1, 2, 3}
  OBVIOUS
<1>2. Outranks(r, s) <=> \E i \in {1, 2, 3, 4} : r[i] > s[i] /\ \A j \in 1..(i - 1) : r[j] = s[j]
  BY <1>1 DEF Outranks
<1> QED BY <1>1, <1>2 DEF Higher

FourInts == Int \X Int \X Int \X Int

LEMMA RankTransitive ==
  ASSUME NEW x \in FourInts, NEW y \in FourInts, NEW z \in FourInts,
         Outranks(x, y), Outranks(y, z)
  PROVE  Outranks(x, z)
<1>1. Higher(x, y) /\ Higher(y, z)
  BY RankOrder
<1>2. Higher(x, z)
  BY <1>1 DEF Higher, FourInts
<1> QED BY <1>2, RankOrder

LEMMA RankIrreflexive ==
  ASSUME NEW x \in FourInts PROVE ~Outranks(x, x)
BY RankOrder DEF Higher, FourInts

(* Of finitely many things with a rank one is outranked by none.           *)
LEMMA SomeBest ==
  ASSUME NEW S, IsFiniteSet(S), S # {}, NEW rank \in [S -> FourInts]
  PROVE  \E p \in S : \A q \in S : ~Outranks(rank[q], rank[p])
<1> DEFINE Best(R) == \E p \in R : \A q \in R : ~Outranks(rank[q], rank[p])
           T == {n \in Nat : \A R \in SUBSET S : R # {} /\ Cardinality(R) <= n => Best(R)}
<1>0. \A R \in SUBSET S : IsFiniteSet(R) /\ Cardinality(R) \in Nat /\ (R # {} => Cardinality(R) # 0)
  BY FS_Subset, FS_CardinalityType, FS_EmptySet
<1>1. 0 \in T
  BY <1>0
<1>2. ASSUME NEW n \in T PROVE n + 1 \in T
  <2>1. ASSUME NEW R \in SUBSET S, R # {}, Cardinality(R) <= n + 1 PROVE Best(R)
    <3>1. PICK x \in R : TRUE
      BY <2>1
    <3>2. PICK Q \in SUBSET S : Q = R \ {x}
      OBVIOUS
    <3>3. Cardinality(Q) <= n
      BY <1>0, <2>1, <3>1, <3>2, FS_RemoveElement
    <3>4. ~Outranks(rank[x], rank[x])
      BY <3>1, RankIrreflexive
    <3>5. CASE Q = {}
      BY <3>1, <3>2, <3>4, <3>5
    <3>6. CASE Q # {}
      <4>1. PICK m \in Q : \A q \in Q : ~Outranks(rank[q], rank[m])
        BY <3>3, <3>6
      <4>2. CASE ~Outranks(rank[x], rank[m])
        BY <3>1, <3>2, <4>1, <4>2
      <4>3. CASE Outranks(rank[x], rank[m])
        <5>1. ASSUME NEW q \in Q PROVE ~Outranks(rank[q], rank[x])
          BY <3>1, <3>2, <4>1, <4>3, <5>1, RankTransitive
        <5> QED BY <3>1, <3>2, <3>4, <5>1
      <4> QED BY <4>2, <4>3
    <3> QED BY <3>5, <3>6
  <2> QED BY <2>1
<1>3. T = Nat
  <2> HIDE DEF T
  <2>1. T \in SUBSET Nat
    BY DEF T
  <2> QED BY <1>1, <1>2, <2>1, NaturalsFrom
<1>4. Cardinality(S) \in T
  <2> HIDE DEF T
  <2> QED BY <1>0, <1>3
<1> QED BY <1>0, <1>4

(* Resolve gives None when no plan of the book applies, and otherwise one  *)
(* that does and that no other outranks.                                   *)
LEMMA BestCandidate ==
  ASSUME NEW b \in Books, NEW req
  PROVE  LET can == Candidates(b, req)
             p == Resolve(b, req)
         IN /\ can = {} => p = None
            /\ can # {} => p \in can /\ \A q \in can : ~Outranks(Rank(q, req), Rank(p, req))
<1> DEFINE can == Candidates(b, req)
           rank == [p \in can |-> Rank(p, req)]
<1>1. IsFiniteSet(can)
  BY ChargesAssumption, FS_Subset DEF Candidates
<1>2. rank \in [can -> FourInts]
  BY ChargesAssumption DEF Rank, Candidates, RatePlan, FourInts
<1>3. can = {} \/ \E p \in can : \A q \in can : ~Outranks(Rank(q, req), Rank(p, req))
  <2>1. \A p \in can : rank[p] = Rank(p, req)
    OBVIOUS
  <2> HIDE DEF can, rank
  <2>2. can = {} \/ \E p \in can : \A q \in can : ~Outranks(rank[q], rank[p])
    BY <1>1, <1>2, SomeBest
  <2> QED BY <2>1, <2>2
<1> HIDE DEF can
<1>4. Resolve(b, req) = IF can = {} THEN None
                        ELSE CHOOSE p \in can : \A q \in can : ~Outranks(Rank(q, req), Rank(p, req))
  BY DEF Resolve, can
<1> QED BY <1>3, <1>4 DEF can

(* A financier with contracts in force has a newest one.                   *)
LEMMA SomeNewest ==
  ASSUME NEW req, VersionsFor(req) # {}
  PROVE  /\ ContractVersion(req) \in VersionsFor(req)
         /\ \A w \in VersionsFor(req) : w.from <= ContractVersion(req).from
<1> DEFINE S == VersionsFor(req)
           rank == [v \in S |-> <<v.from, 0, 0, 0>>]
<1>1. IsFiniteSet(S) /\ \A v \in S : v.from \in Int
  BY PricingAssumption, FS_Subset DEF VersionsFor
<1>2. rank \in [S -> FourInts] /\ \A v \in S : rank[v] = <<v.from, 0, 0, 0>>
  BY <1>1 DEF FourInts
<1> HIDE DEF rank
<1>3. PICK v \in S : \A w \in S : ~Outranks(rank[w], rank[v])
  BY <1>1, <1>2, SomeBest
<1>4. \A w \in S : w.from <= v.from
  <2> SUFFICES ASSUME NEW w \in S, ~(w.from <= v.from) PROVE FALSE
    OBVIOUS
  <2>1. w.from > v.from
    BY <1>1
  <2>2. Higher(rank[w], rank[v])
    BY <1>2, <2>1 DEF Higher
  <2> QED BY <1>3, <2>2, RankOrder
<1> QED BY <1>3, <1>4 DEF ContractVersion

(* The version of a financier's contracts with the latest beginning.       *)
Newest(v, req) ==
  /\ v \in ContractVersions /\ v.financier = req.financier /\ InForce(v, req.at)
  /\ \A w \in ContractVersions :
       w.financier = req.financier /\ InForce(w, req.at) => w.from <= v.from

(* The plans of a contract version for the site and class of a stay.       *)
PlansOf(b, v, req) ==
  {p \in b : /\ p.contract = v.code /\ InForce(p, req.at)
             /\ p.class \in {None, req.class} /\ p.site \in {None, req.site}}

(* A plan for the class comes before one for all, then a plan for the site,*)
(* then the priority decides, and then the later beginning.                *)
Precedes(p, q, req) ==
  /\ q.class = req.class => p.class = req.class
  /\ (p.class = req.class <=> q.class = req.class) =>
       /\ q.site = req.site => p.site = req.site
       /\ (p.site = req.site <=> q.site = req.site) =>
            /\ q.priority <= p.priority
            /\ q.priority = p.priority => q.from <= p.from

LEMMA UnrankedPrecedes ==
  ASSUME NEW p, NEW q, NEW req, RatePlan(p), RatePlan(q), ~Outranks(Rank(q, req), Rank(p, req))
  PROVE  Precedes(p, q, req)
<1> DEFINE x == Rank(p, req)
           y == Rank(q, req)
<1>1. /\ x[1] = (IF p.class = req.class THEN 1 ELSE 0) /\ y[1] = (IF q.class = req.class THEN 1 ELSE 0)
      /\ x[2] = (IF p.site = req.site THEN 1 ELSE 0) /\ y[2] = (IF q.site = req.site THEN 1 ELSE 0)
      /\ x[3] = p.priority /\ y[3] = q.priority /\ x[4] = p.from /\ y[4] = q.from
  BY DEF Rank
<1>2. p.priority \in Int /\ q.priority \in Int /\ p.from \in Int /\ q.from \in Int
  BY DEF RatePlan
<1>3. ~Higher(y, x)
  BY RankOrder
<1> HIDE DEF x, y
<1> QED BY <1>1, <1>2, <1>3 DEF Higher, Precedes

(* A stay in the yard is priced by the newest contract version in force at *)
(* its entry and by no other: without a plan of that version for the site  *)
(* and class the rate is unresolved, whatever older versions hold, and of  *)
(* its plans class, site, priority and beginning decide in this order      *)
(* (RateResolutionService.resolveContractRate, pick).                      *)
THEOREM PlanChosen ==
  ASSUME NEW b \in Books, NEW req, req.mode = "REPOSSESSION_YARD", req.financier # None
  PROVE  LET p == Resolve(b, req)
         IN \/ p = None /\ ~\E v : Newest(v, req)
            \/ \E v \in ContractVersions :
                 /\ Newest(v, req)
                 /\ \/ p = None /\ PlansOf(b, v, req) = {}
                    \/ /\ p \in PlansOf(b, v, req)
                       /\ \A q \in PlansOf(b, v, req) : Precedes(p, q, req)
<1> DEFINE p == Resolve(b, req)
           v == ContractVersion(req)
<1>1. CASE VersionsFor(req) = {}
  <2>1. Candidates(b, req) = {}
    BY <1>1 DEF Candidates
  <2>2. p = None
    BY <2>1, BestCandidate
  <2> QED BY <1>1, <2>2 DEF Newest, VersionsFor
<1>2. CASE VersionsFor(req) # {}
  <2>1. v \in ContractVersions /\ Newest(v, req)
    BY <1>2, SomeNewest DEF Newest, VersionsFor
  <2>2. Candidates(b, req) = PlansOf(b, v, req)
    BY <1>2 DEF Candidates, PlansOf
  <2>3. CASE PlansOf(b, v, req) = {}
    BY <2>1, <2>2, <2>3, BestCandidate
  <2>4. CASE PlansOf(b, v, req) # {}
    <3>1. /\ p \in PlansOf(b, v, req)
          /\ \A q \in PlansOf(b, v, req) : ~Outranks(Rank(q, req), Rank(p, req))
      BY <2>2, <2>4, BestCandidate
    <3>2. \A q \in PlansOf(b, v, req) : RatePlan(q)
      BY ChargesAssumption DEF PlansOf
    <3>3. \A q \in PlansOf(b, v, req) : Precedes(p, q, req)
      BY <3>1, <3>2, UnrankedPrecedes
    <3> QED BY <2>1, <3>1, <3>3
  <2> QED BY <2>3, <2>4
<1> QED BY <1>1, <1>2

(* Of two different rules one comes before the other.                      *)
LEMMA RulesOrdered ==
  ASSUME NEW x, NEW y, x.priority \in Int, y.priority \in Int, x.code \in Nat, y.code \in Nat,
         x.scope \in DOMAIN ScopeRank, y.scope \in DOMAIN ScopeRank, x.code # y.code
  PROVE  Outranks(RuleKey(x), RuleKey(y)) \/ Outranks(RuleKey(y), RuleKey(x))
<1>1. ScopeRank[x.scope] \in Int /\ ScopeRank[y.scope] \in Int
  BY DEF ScopeRank
<1>2. Higher(RuleKey(x), RuleKey(y)) \/ Higher(RuleKey(y), RuleKey(x))
  BY <1>1 DEF Higher, RuleKey
<1> QED BY <1>2, RankOrder

(* Evaluate gives None exactly when no rule applies to the stay, and       *)
(* otherwise the one that comes before every other: with unique codes the  *)
(* party does not depend on the order in which the rules are loaded        *)
(* (BillingRuleEvaluator.evaluate).                                        *)
THEOREM RuleChosen ==
  ASSUME NEW rules, IsFiniteSet(rules),
         \A r \in rules : r.scope \in DOMAIN ScopeRank /\ r.priority \in Int /\ r.code \in Nat,
         \A r, q \in rules : r.code = q.code => r = q,
         NEW scope, NEW facts
  PROVE  LET can == Applicable(rules, scope, facts)
             r == Evaluate(rules, scope, facts)
         IN /\ can = {} => r = None
            /\ can # {} => r \in can /\ \A q \in can \ {r} : Outranks(RuleKey(r), RuleKey(q))
<1> DEFINE can == Applicable(rules, scope, facts)
           rank == [r \in can |-> RuleKey(r)]
<1>1. IsFiniteSet(can) /\ can \subseteq rules
  BY FS_Subset DEF Applicable
<1>2. rank \in [can -> FourInts] /\ \A r \in can : rank[r] = RuleKey(r)
  <2> SUFFICES ASSUME NEW r \in can PROVE RuleKey(r) \in FourInts
    OBVIOUS
  <2>1. r.scope \in DOMAIN ScopeRank /\ r.priority \in Int /\ r.code \in Nat
    BY <1>1
  <2>2. ScopeRank[r.scope] \in Int /\ -r.code \in Int
    BY <2>1 DEF ScopeRank
  <2> QED BY <2>1, <2>2 DEF RuleKey, FourInts
<1> HIDE DEF can, rank
<1>3. can = {} \/ \E r \in can : \A q \in can : ~Outranks(RuleKey(q), RuleKey(r))
  <2>1. can = {} \/ \E r \in can : \A q \in can : ~Outranks(rank[q], rank[r])
    BY <1>1, <1>2, SomeBest
  <2> QED BY <1>2, <2>1
<1>4. Evaluate(rules, scope, facts)
        = IF can = {} THEN None ELSE CHOOSE r \in can : \A q \in can : ~Outranks(RuleKey(q), RuleKey(r))
  BY DEF Evaluate, can
<1>5. ASSUME can # {}, NEW r, r = Evaluate(rules, scope, facts)
      PROVE  r \in can /\ \A q \in can \ {r} : Outranks(RuleKey(r), RuleKey(q))
  <2>1. r \in can /\ \A q \in can : ~Outranks(RuleKey(q), RuleKey(r))
    BY <1>3, <1>4, <1>5
  <2>2. ASSUME NEW q \in can \ {r} PROVE Outranks(RuleKey(r), RuleKey(q))
    <3>1. q \in rules /\ r \in rules /\ q # r /\ q.code # r.code
      BY <1>1, <2>1
    <3> QED BY <2>1, <3>1, RulesOrdered
  <2> QED BY <2>1, <2>2
<1> QED BY <1>4, <1>5 DEF can

------------------------------------------------------------------------------
(* Durations and slabs                                                     *)

LEMMA MaxOf == \A a, b \in Int : Max({a, b}) = IF a >= b THEN a ELSE b
<1> SUFFICES ASSUME NEW a \in Int, NEW b \in Int PROVE Max({a, b}) = IF a >= b THEN a ELSE b
  OBVIOUS
<1> DEFINE m == IF a >= b THEN a ELSE b
<1>1. m \in {a, b} /\ \A y \in {a, b} : m >= y
  OBVIOUS
<1>2. \A x \in {a, b} : (\A y \in {a, b} : x >= y) => x = m
  OBVIOUS
<1>3. Max({a, b}) \in {a, b} /\ \A y \in {a, b} : Max({a, b}) >= y
  BY <1>1 DEF Max
<1> QED BY <1>2, <1>3

LEMMA MinOf == \A a, b \in Int : Min({a, b}) = IF a <= b THEN a ELSE b
<1> SUFFICES ASSUME NEW a \in Int, NEW b \in Int PROVE Min({a, b}) = IF a <= b THEN a ELSE b
  OBVIOUS
<1> DEFINE m == IF a <= b THEN a ELSE b
<1>1. m \in {a, b} /\ \A y \in {a, b} : m <= y
  OBVIOUS
<1>2. \A x \in {a, b} : (\A y \in {a, b} : x <= y) => x = m
  OBVIOUS
<1>3. Min({a, b}) \in {a, b} /\ \A y \in {a, b} : Min({a, b}) <= y
  BY <1>1 DEF Min
<1> QED BY <1>2, <1>3

LEMMA DivOf ==
  ASSUME NEW a \in Nat, NEW u \in Nat \ {0}
  PROVE  a \div u \in Nat /\ u * (a \div u) <= a /\ a < u * (a \div u) + u
OBVIOUS

LEMMA DivGrows ==
  ASSUME NEW a \in Nat, NEW b \in Nat, NEW u \in Nat \ {0}, a <= b
  PROVE  a \div u <= b \div u
<1> DEFINE q == a \div u
           r == b \div u
<1>1. q \in Nat /\ u * q <= a
  BY DivOf
<1>2. r \in Nat /\ b < u * r + u
  BY DivOf
<1>3. ASSUME r + 1 <= q PROVE FALSE
  <2> HIDE DEF q, r
  <2>1. PICK d \in Nat : q = r + 1 + d
    BY <1>1, <1>2, <1>3
  <2>2. u * q = u * r + u + u * d
    BY <1>1, <1>2, <2>1
  <2>3. u * d \in Nat /\ u * r \in Nat /\ u * q \in Nat
    BY <1>1, <1>2, <2>1
  <2> QED BY <1>1, <1>2, <2>2, <2>3
<1> HIDE DEF q, r
<1>4. q <= r
  BY <1>1, <1>2, <1>3
<1> QED BY <1>4 DEF q, r

LEMMA UnitsGrow ==
  ASSUME NEW p, RatePlan(p), NEW e \in Nat, NEW x \in Nat, NEW y \in Nat, e <= x, x <= y
  PROVE  /\ BillableUnits(p, e, x) \in Nat /\ BillableUnits(p, e, y) \in Nat
         /\ BillableUnits(p, e, x) <= BillableUnits(p, e, y)
<1>1. CASE p.unit = "CALENDAR_DAY"
  <2>1. DateOf(x) \in Nat /\ DateOf(y) \in Nat /\ DateOf(e) \in Nat /\ DateOf(x) <= DateOf(y)
    <3>1. DayMinutes \in Nat \ {0} /\ ZoneOffset \in Nat
      BY PricingAssumption
    <3>2. x + ZoneOffset \in Nat /\ y + ZoneOffset \in Nat /\ e + ZoneOffset \in Nat
          /\ x + ZoneOffset <= y + ZoneOffset
      BY <3>1
    <3> QED BY <3>1, <3>2, DivOf, DivGrows DEF DateOf
  <2>2. /\ BillableUnits(p, e, x) = Max({1, DateOf(x) - DateOf(e) + 1})
        /\ BillableUnits(p, e, y) = Max({1, DateOf(y) - DateOf(e) + 1})
    BY <1>1 DEF BillableUnits
  <2> DEFINE i == DateOf(x) - DateOf(e) + 1
             j == DateOf(y) - DateOf(e) + 1
  <2>3. i \in Int /\ j \in Int /\ i <= j
    BY <2>1
  <2> HIDE DEF i, j
  <2>4. Max({1, i}) = (IF 1 >= i THEN 1 ELSE i) /\ Max({1, j}) = (IF 1 >= j THEN 1 ELSE j)
    BY <2>3, MaxOf
  <2>5. Max({1, i}) \in Nat /\ Max({1, j}) \in Nat /\ Max({1, i}) <= Max({1, j})
    BY <2>3, <2>4
  <2> QED BY <2>2, <2>5 DEF i, j
<1>2. CASE p.unit # "CALENDAR_DAY"
  <2>1. PICK u \in Nat \ {0} : u = UnitMinutes[p.unit]
    BY <1>2, PricingAssumption DEF RatePlan, UnitMinutes
  <2>2. PICK a \in Nat, b \in Nat : a = x - e /\ b = y - e /\ a <= b
    OBVIOUS
  <2>3. CASE p.rounding = "CEIL"
    <3>1. a + u - 1 \in Nat /\ b + u - 1 \in Nat /\ a + u - 1 <= b + u - 1
      BY <2>2
    <3>2. BillableUnits(p, e, x) = (a + u - 1) \div u /\ BillableUnits(p, e, y) = (b + u - 1) \div u
      BY <1>2, <2>1, <2>2, <2>3 DEF BillableUnits
    <3> QED BY <3>1, <3>2, DivOf, DivGrows
  <2>4. CASE p.rounding = "FLOOR"
    <3>2. BillableUnits(p, e, x) = a \div u /\ BillableUnits(p, e, y) = b \div u
      BY <1>2, <2>1, <2>2, <2>4 DEF BillableUnits
    <3> QED BY <2>2, <3>2, DivOf, DivGrows
  <2>5. CASE p.rounding = "NEAREST"
    <3>1. 2 * a + u \in Nat /\ 2 * b + u \in Nat /\ 2 * a + u <= 2 * b + u /\ 2 * u \in Nat \ {0}
      BY <2>2
    <3>2. /\ BillableUnits(p, e, x) = (2 * a + u) \div (2 * u)
          /\ BillableUnits(p, e, y) = (2 * b + u) \div (2 * u)
      BY <1>2, <2>1, <2>2, <2>5 DEF BillableUnits
    <3> QED BY <3>1, <3>2, DivOf, DivGrows
  <2> QED BY <2>3, <2>4, <2>5 DEF RatePlan
<1> QED BY <1>1, <1>2

(* The slabs of a plan, one by one.                                        *)
Slab(s) ==
  /\ s.from \in Nat /\ s.to \in Nat \cup {None} /\ s.kind \in {"PER_UNIT", "FLAT"} /\ s.amount \in Nat

LEMMA SlabsOf ==
  ASSUME NEW p, RatePlan(p)
  PROVE  /\ Len(p.slabs) \in Nat /\ DOMAIN p.slabs = 1..Len(p.slabs)
         /\ \A i \in 1..Len(p.slabs) : Slab(p.slabs[i])
<1> DEFINE R == [from : Nat, to : Nat \cup {None}, kind : {"PER_UNIT", "FLAT"}, amount : Nat]
<1>1. p.slabs \in Seq(R)
  BY DEF RatePlan
<1>2. \A r \in R : Slab(r)
  BY DEF Slab
<1> HIDE DEF R
<1>3. /\ Len(p.slabs) \in Nat /\ DOMAIN p.slabs = 1..Len(p.slabs)
      /\ \A i \in 1..Len(p.slabs) : p.slabs[i] \in R
  BY <1>1
<1> QED BY <1>2, <1>3

LEMMA OverlapIs ==
  ASSUME NEW s, Slab(s), NEW lo \in Nat, NEW hi \in Nat
  PROVE  LET b == IF hi <= SlabEnd(s) THEN hi ELSE SlabEnd(s)
             a == IF lo >= s.from THEN lo ELSE s.from
         IN  /\ Overlap(s, lo, hi) = IF a <= b THEN b - a + 1 ELSE 0
             /\ SlabEnd(s) \in Nat
<1>1. SlabEnd(s) \in Nat
  BY PricingAssumption DEF Slab, SlabEnd
<1> DEFINE b == IF hi <= SlabEnd(s) THEN hi ELSE SlabEnd(s)
           a == IF lo >= s.from THEN lo ELSE s.from
<1>2. Min({hi, SlabEnd(s)}) = b /\ Max({lo, s.from}) = a /\ a \in Int /\ b \in Int
  BY <1>1, MinOf, MaxOf DEF Slab
<1>3. Overlap(s, lo, hi) = Max({0, b - a + 1})
  BY <1>2 DEF Overlap
<1> HIDE DEF a, b
<1>4. b - a + 1 \in Int
  BY <1>2
<1>5. Max({0, b - a + 1}) = IF 0 >= b - a + 1 THEN 0 ELSE b - a + 1
  BY <1>4, MaxOf
<1>6. Overlap(s, lo, hi) = IF a <= b THEN b - a + 1 ELSE 0
  BY <1>2, <1>3, <1>5
<1> QED BY <1>1, <1>6 DEF a, b

LEMMA OverlapGrows ==
  ASSUME NEW s, Slab(s), NEW lo \in Nat, NEW x \in Nat, NEW y \in Nat, x <= y
  PROVE  /\ Overlap(s, lo, x) \in Nat /\ Overlap(s, lo, y) \in Nat
         /\ Overlap(s, lo, x) <= Overlap(s, lo, y)
<1>1. SlabEnd(s) \in Nat /\ s.from \in Nat
  BY OverlapIs DEF Slab
<1> QED BY <1>1, OverlapIs

LEMMA TimesGrows ==
  ASSUME NEW a \in Nat, NEW x \in Nat, NEW y \in Nat, x <= y
  PROVE  a * x \in Nat /\ a * y \in Nat /\ a * x <= a * y
<1>1. PICK d \in Nat : y = x + d
  OBVIOUS
<1>2. a * y = a * x + a * d /\ a * d \in Nat /\ a * x \in Nat
  BY <1>1
<1> QED BY <1>2

LEMMA SlabAmountGrows ==
  ASSUME NEW s, Slab(s), NEW lo \in Nat, NEW x \in Nat, NEW y \in Nat, x <= y
  PROVE  /\ SlabAmount(s, lo, x) \in Nat /\ SlabAmount(s, lo, y) \in Nat
         /\ SlabAmount(s, lo, x) <= SlabAmount(s, lo, y)
<1>1. PICK a \in Nat, b \in Nat : a = Overlap(s, lo, x) /\ b = Overlap(s, lo, y) /\ a <= b
  BY OverlapGrows
<1>2. PICK c \in Nat : c = s.amount
  BY DEF Slab
<1>3. c * a \in Nat /\ c * b \in Nat /\ c * a <= c * b
  BY <1>1, TimesGrows
<1>4. ASSUME b # 0 PROVE c <= c * b
  <2>1. 1 <= b
    BY <1>1, <1>4
  <2>2. c * 1 <= c * b
    BY <2>1, TimesGrows
  <2> QED BY <2>2
<1>5. /\ SlabAmount(s, lo, x) = IF a = 0 THEN 0 ELSE IF s.kind = "FLAT" THEN c ELSE c * a
      /\ SlabAmount(s, lo, y) = IF b = 0 THEN 0 ELSE IF s.kind = "FLAT" THEN c ELSE c * b
  BY <1>1, <1>2 DEF SlabAmount
<1> QED BY <1>1, <1>2, <1>3, <1>4, <1>5
------------------------------------------------------------------------------
(* Folds from left to right                                                *)

LEMMA LastIn ==
  ASSUME NEW n \in Nat
  PROVE  \A s \in SUBSET (1..n) : s # {} => Max(s) \in s /\ \A y \in s : Max(s) >= y
<1> DEFINE T == {k \in Nat : \A s \in SUBSET (1..k) : s # {} => \E x \in s : \A y \in s : x >= y}
<1>1. 0 \in T
  <2>1. \A s \in SUBSET (1..0) : s = {}
    OBVIOUS
  <2> QED BY <2>1
<1>2. ASSUME NEW k \in T PROVE k + 1 \in T
  <2>1. ASSUME NEW s \in SUBSET (1..(k + 1)), s # {} PROVE \E x \in s : \A y \in s : x >= y
    <3>1. CASE k + 1 \in s
      <4>1. \A y \in s : k + 1 >= y
        OBVIOUS
      <4> QED BY <3>1, <4>1
    <3>2. CASE k + 1 \notin s
      <4>1. s \in SUBSET (1..k)
        BY <3>2
      <4> QED BY <2>1, <4>1
    <3> QED BY <3>1, <3>2
  <2> QED BY <2>1
<1>3. T = Nat
  <2> HIDE DEF T
  <2>1. T \in SUBSET Nat
    BY DEF T
  <2> QED BY <1>1, <1>2, <2>1, NaturalsFrom
<1>4. n \in T
  <2> HIDE DEF T
  <2> QED BY <1>3
<1> QED BY <1>4 DEF Max

(* What a fold over the positions 1..n is: O[i][v] takes the i-th element  *)
(* to what came before.                                                    *)
Fold(g, b, O, S) == \A s \in SUBSET S : g[s] = IF s = {} THEN b ELSE O[Max(s)][g[s \ {Max(s)}]]

LEMMA SomeFold ==
  ASSUME NEW n \in Nat, NEW V, NEW b \in V, NEW O, \A v \in V : \A i \in 1..n : O[i][v] \in V
  PROVE  \E g \in [SUBSET (1..n) -> V] : Fold(g, b, O, 1..n)
<1> DEFINE Upto(k) == \E g \in [SUBSET (1..k) -> V] : Fold(g, b, O, 1..k)
           T == {k \in Nat : k <= n => Upto(k)}
<1>1. Upto(0)
  <2> DEFINE g == [s \in SUBSET (1..0) |-> b]
  <2>1. 1..0 = {}
    OBVIOUS
  <2>2. g \in [SUBSET (1..0) -> V] /\ Fold(g, b, O, 1..0)
    BY <2>1 DEF Fold
  <2> QED BY <2>2
<1>2. ASSUME NEW k \in Nat, k + 1 <= n, Upto(k) PROVE Upto(k + 1)
  <2>0. k <= n /\ k + 1 \in 1..n
    BY <1>2
  <2>1. PICK g \in [SUBSET (1..k) -> V] : Fold(g, b, O, 1..k)
    BY <1>2
  <2> DEFINE h == [s \in SUBSET (1..(k + 1)) |->
                     IF k + 1 \in s THEN O[k + 1][g[s \ {k + 1}]] ELSE g[s]]
  <2>2. \A s \in SUBSET (1..(k + 1)) : s \ {k + 1} \in SUBSET (1..k)
    OBVIOUS
  <2>3. h \in [SUBSET (1..(k + 1)) -> V]
    <3>1. \A s \in SUBSET (1..(k + 1)) : g[s \ {k + 1}] \in V /\ (k + 1 \notin s => s \ {k + 1} = s)
      BY <2>2
    <3> QED BY <2>0, <3>1
  <2>4. ASSUME NEW s \in SUBSET (1..(k + 1)), s # {} PROVE h[s] = O[Max(s)][h[s \ {Max(s)}]]
    <3>0. Max(s) \in s /\ \A y \in s : Max(s) >= y
      <4>1. k + 1 \in Nat
        OBVIOUS
      <4> QED BY <2>4, <4>1, LastIn
    <3>1. CASE k + 1 \in s
      <4>0. Max(s) \in 1..(k + 1) /\ Max(s) >= k + 1
        BY <3>0, <3>1
      <4>1. Max(s) = k + 1
        BY <4>0
      <4>2. h[s] = O[k + 1][g[s \ {k + 1}]]
        BY <3>1
      <4>3. h[s \ {k + 1}] = g[s \ {k + 1}]
        OBVIOUS
      <4> QED BY <4>1, <4>2, <4>3
    <3>2. CASE k + 1 \notin s
      <4>1. s \in SUBSET (1..k) /\ s \ {Max(s)} \in SUBSET (1..k)
        BY <2>2, <3>2
      <4>2. h[s] = g[s] /\ h[s \ {Max(s)}] = g[s \ {Max(s)}]
        BY <3>2
      <4>3. g[s] = O[Max(s)][g[s \ {Max(s)}]]
        BY <2>1, <2>4, <4>1 DEF Fold
      <4> QED BY <4>2, <4>3
    <3> QED BY <3>1, <3>2
  <2>5. h[{}] = b
    BY <2>1 DEF Fold
  <2>6. Fold(h, b, O, 1..(k + 1))
    BY <2>4, <2>5 DEF Fold
  <2> QED BY <2>3, <2>6
<1>3. T = Nat
  <2> HIDE DEF Upto
  <2>1. T \in SUBSET Nat /\ 0 \in T /\ \A k \in T : k + 1 \in T
    BY <1>1, <1>2
  <2> HIDE DEF T
  <2> QED BY <2>1, NaturalsFrom
<1>4. n \in T /\ n <= n
  <2> HIDE DEF T
  <2> QED BY <1>3
<1> QED BY <1>4

LEMMA Prefix ==
  ASSUME NEW n \in Nat, NEW k \in 1..n
  PROVE  1..k \in SUBSET (1..n) /\ 1..k # {} /\ Max(1..k) = k /\ (1..k) \ {k} = 1..(k - 1)
<1>1. k \in Nat /\ k <= n /\ k \in 1..k
  OBVIOUS
<1>2. 1..k \in SUBSET (1..n)
  OBVIOUS
<1>3. Max(1..k) \in 1..k /\ \A y \in 1..k : Max(1..k) >= y
  BY <1>1, <1>2, LastIn
<1>4. (1..k) \ {k} = 1..(k - 1)
  OBVIOUS
<1> QED BY <1>1, <1>2, <1>3, <1>4

(* The walk over the slabs, slab by slab.                                  *)
Walked(w, p, lo, hi) ==
  /\ w \in [0..Len(p.slabs) -> Nat] /\ w[0] = 0
  /\ \A k \in 1..Len(p.slabs) : w[k] = w[k - 1] + SlabAmount(p.slabs[k], lo, hi)

LEMMA WalkIs ==
  ASSUME NEW p, RatePlan(p), NEW lo \in Nat, NEW hi \in Nat
  PROVE  \E w : Walked(w, p, lo, hi) /\ LadderWalk(p, lo, hi) = w[Len(p.slabs)]
<1> DEFINE n == Len(p.slabs)
           D == DOMAIN p.slabs
           O == [i \in 1..n |-> [v \in Nat |-> v + SlabAmount(p.slabs[i], lo, hi)]]
           Iter(g) == g = [s \in SUBSET D |->
                             IF s = {} THEN 0
                             ELSE g[s \ {Max(s)}] + SlabAmount(p.slabs[Max(s)], lo, hi)]
<1>1. n \in Nat /\ D = 1..n /\ \A i \in 1..n : SlabAmount(p.slabs[i], lo, hi) \in Nat
  BY SlabsOf, SlabAmountGrows, hi <= hi
<1>2. LadderWalk(p, lo, hi) = (CHOOSE g : Iter(g))[D]
  BY DEF LadderWalk, FoldLeft, MapThenFoldSet
<1> HIDE DEF n, D
<1>3. \A v \in Nat : \A i \in 1..n : O[i][v] \in Nat /\ O[i][v] = v + SlabAmount(p.slabs[i], lo, hi)
  BY <1>1
<1> HIDE DEF O
<1>4. PICK g \in [SUBSET D -> Nat] : Fold(g, 0, O, D)
  BY <1>1, <1>3, SomeFold
<1>5. \A s \in SUBSET D : s # {} => Max(s) \in 1..n /\ s \ {Max(s)} \in SUBSET D
  BY <1>1, LastIn
<1>6. Iter(g)
  <2>1. ASSUME NEW s \in SUBSET D
        PROVE  g[s] = IF s = {} THEN 0 ELSE g[s \ {Max(s)}] + SlabAmount(p.slabs[Max(s)], lo, hi)
    BY <1>3, <1>4, <1>5 DEF Fold
  <2> QED BY <2>1
<1>7. PICK f : Iter(f) /\ LadderWalk(p, lo, hi) = f[D]
  <2> HIDE DEF Iter
  <2> QED BY <1>2, <1>6
<1> DEFINE w == [k \in 0..n |-> f[1..k]]
<1>8. f[1..0] = 0 /\ \A k \in 1..n : f[1..k] = f[1..(k - 1)] + SlabAmount(p.slabs[k], lo, hi)
  <2>1. 1..0 = {} /\ {} \in SUBSET D
    OBVIOUS
  <2>2. f[1..0] = 0
    BY <1>7, <2>1
  <2>3. ASSUME NEW k \in 1..n PROVE f[1..k] = f[1..(k - 1)] + SlabAmount(p.slabs[k], lo, hi)
    <3>1. 1..k \in SUBSET D /\ 1..k # {} /\ Max(1..k) = k /\ (1..k) \ {k} = 1..(k - 1)
      BY <1>1, Prefix
    <3> QED BY <1>7, <3>1
  <2> QED BY <2>2, <2>3
<1>9. \A k \in 0..n : f[1..k] \in Nat
  <2> DEFINE T == {k \in Nat : k <= n => f[1..k] \in Nat}
  <2>1. 0 \in T
    BY <1>8
  <2>2. ASSUME NEW k \in T PROVE k + 1 \in T
    <3>1. ASSUME k + 1 <= n PROVE f[1..(k + 1)] \in Nat
      <4>1. k + 1 \in 1..n /\ (k + 1) - 1 = k /\ k <= n
        BY <1>1, <3>1
      <4>4. f[1..k] \in Nat
        BY <4>1
      <4>2. f[1..(k + 1)] = f[1..k] + SlabAmount(p.slabs[k + 1], lo, hi)
        BY <1>8, <4>1
      <4> QED BY <1>1, <4>1, <4>2, <4>4
    <3> QED BY <3>1
  <2>3. T = Nat
    <3> HIDE DEF T
    <3>1. T \in SUBSET Nat
      BY DEF T
    <3> QED BY <2>1, <2>2, <3>1, NaturalsFrom
  <2> QED BY <1>1, <2>3
<1>10. w[n] = f[D] /\ w \in [0..n -> Nat] /\ w[0] = 0
  BY <1>1, <1>8, <1>9
<1>11. \A k \in 1..n : w[k] = w[k - 1] + SlabAmount(p.slabs[k], lo, hi)
  BY <1>1, <1>8
<1> HIDE DEF w
<1> QED BY <1>7, <1>10, <1>11 DEF Walked, n

LEMMA WalkGrows ==
  ASSUME NEW p, RatePlan(p), NEW lo \in Nat, NEW x \in Nat, NEW y \in Nat, x <= y
  PROVE  /\ LadderWalk(p, lo, x) \in Nat /\ LadderWalk(p, lo, y) \in Nat
         /\ LadderWalk(p, lo, x) <= LadderWalk(p, lo, y)
<1> DEFINE n == Len(p.slabs)
<1>1. PICK v : Walked(v, p, lo, x) /\ LadderWalk(p, lo, x) = v[n]
  BY WalkIs
<1>2. PICK w : Walked(w, p, lo, y) /\ LadderWalk(p, lo, y) = w[n]
  BY WalkIs
<1>3. n \in Nat /\ \A i \in 1..n : Slab(p.slabs[i])
  BY SlabsOf
<1> DEFINE T == {k \in Nat : k <= n => v[k] <= w[k]}
<1>4. 0 \in T
  BY <1>1, <1>2 DEF Walked
<1>5. ASSUME NEW k \in T PROVE k + 1 \in T
  <2>1. ASSUME k + 1 <= n PROVE v[k + 1] <= w[k + 1]
    <3>1. k + 1 \in 1..n /\ (k + 1) - 1 = k /\ k \in 0..n /\ v[k] <= w[k]
      BY <1>3, <2>1
    <3>2. v[k] \in Nat /\ w[k] \in Nat
      BY <1>1, <1>2, <3>1 DEF Walked
    <3>3. /\ v[k + 1] = v[k] + SlabAmount(p.slabs[k + 1], lo, x)
          /\ w[k + 1] = w[k] + SlabAmount(p.slabs[k + 1], lo, y)
      BY <1>1, <1>2, <3>1 DEF Walked
    <3>4. /\ SlabAmount(p.slabs[k + 1], lo, x) \in Nat /\ SlabAmount(p.slabs[k + 1], lo, y) \in Nat
          /\ SlabAmount(p.slabs[k + 1], lo, x) <= SlabAmount(p.slabs[k + 1], lo, y)
      BY <1>3, <3>1, SlabAmountGrows
    <3> QED BY <3>1, <3>2, <3>3, <3>4
  <2> QED BY <2>1
<1>6. T = Nat
  <2> HIDE DEF T
  <2>1. T \in SUBSET Nat
    BY DEF T
  <2> QED BY <1>4, <1>5, <2>1, NaturalsFrom
<1>7. n \in 0..n /\ n \in T
  BY <1>3, <1>6
<1> QED BY <1>1, <1>2, <1>3, <1>7 DEF Walked

------------------------------------------------------------------------------
(* Cap, minimum and tax                                                    *)

LEMMA CappedGrows ==
  ASSUME NEW p, RatePlan(p), NEW r \in Nat, NEW s \in Nat, r <= s,
         NEW x \in Nat, NEW y \in Nat, x <= y
  PROVE  /\ Capped(p, r, x) \in Nat /\ Capped(p, s, y) \in Nat
         /\ Capped(p, r, x) <= Capped(p, s, y)
<1>1. CASE p.cap = None
  BY <1>1 DEF Capped
<1>2. CASE p.cap # None
  <2> DEFINE i == (r + DayMinutes - 1) \div DayMinutes
             j == (s + DayMinutes - 1) \div DayMinutes
  <2>1. p.cap \in Nat
    BY <1>2 DEF RatePlan
  <2>2. i \in Nat /\ j \in Nat /\ i <= j
    <3>1. DayMinutes \in Nat \ {0}
      BY PricingAssumption
    <3>2. r + DayMinutes - 1 \in Nat /\ s + DayMinutes - 1 \in Nat
          /\ r + DayMinutes - 1 <= s + DayMinutes - 1
      BY <3>1
    <3> QED BY <3>1, <3>2, DivOf, DivGrows
  <2>3. /\ Capped(p, r, x) = Min({x, p.cap * Max({1, i})})
        /\ Capped(p, s, y) = Min({y, p.cap * Max({1, j})})
    BY <1>2 DEF Capped
  <2> HIDE DEF i, j
  <2>4. PICK a \in Nat, b \in Nat : a = Max({1, i}) /\ b = Max({1, j}) /\ a <= b
    BY <2>2, MaxOf
  <2>5. p.cap * a \in Nat /\ p.cap * b \in Nat /\ p.cap * a <= p.cap * b
    BY <2>1, <2>4, TimesGrows
  <2>6. PICK c \in Nat, d \in Nat : c = p.cap * a /\ d = p.cap * b /\ c <= d
    BY <2>5
  <2>7. Min({x, c}) = (IF x <= c THEN x ELSE c) /\ Min({y, d}) = (IF y <= d THEN y ELSE d)
    BY MinOf
  <2> QED BY <2>3, <2>4, <2>6, <2>7
<1> QED BY <1>1, <1>2

LEMMA ToppedUpGrows ==
  ASSUME NEW p, RatePlan(p), NEW x \in Nat, NEW y \in Nat, x <= y
  PROVE  /\ ToppedUp(p, x) \in Nat /\ ToppedUp(p, y) \in Nat /\ ToppedUp(p, x) <= ToppedUp(p, y)
<1>1. CASE p.minimum = None
  BY <1>1 DEF ToppedUp
<1>2. CASE p.minimum # None
  <2>1. PICK m \in Nat : m = p.minimum
    BY <1>2 DEF RatePlan
  <2>2. Max({x, m}) = (IF x >= m THEN x ELSE m) /\ Max({y, m}) = (IF y >= m THEN y ELSE m)
    BY MaxOf
  <2> QED BY <1>2, <2>1, <2>2 DEF ToppedUp
<1> QED BY <1>1, <1>2

(* What one tax component adds to the run; both are counted in             *)
(* ten-thousandths of the amount's unit.                                   *)
Component(tax, run, base) ==
  IF tax.kind = "FIXED" THEN tax.rate * 10000
  ELSE ((IF tax.base = "RUNNING_TOTAL" THEN run ELSE base) * tax.rate) \div 100

Taxed(w, p, base) ==
  /\ w \in [0..Len(p.taxes) -> Nat] /\ w[0] = base
  /\ \A k \in 1..Len(p.taxes) : w[k] = w[k - 1] + Component(p.taxes[k], w[k - 1], base)

LEMMA ComponentGrows ==
  ASSUME NEW tax, tax.rate \in Nat, NEW r \in Nat, NEW s \in Nat, r <= s,
         NEW x \in Nat, NEW y \in Nat, x <= y
  PROVE  /\ Component(tax, r, x) \in Nat /\ Component(tax, s, y) \in Nat
         /\ Component(tax, r, x) <= Component(tax, s, y)
<1>1. CASE tax.kind = "FIXED"
  BY <1>1 DEF Component
<1>2. CASE tax.kind # "FIXED"
  <2>1. PICK a \in Nat, b \in Nat : /\ a = IF tax.base = "RUNNING_TOTAL" THEN r ELSE x
                                    /\ b = IF tax.base = "RUNNING_TOTAL" THEN s ELSE y
                                    /\ a <= b
    OBVIOUS
  <2>2. tax.rate * a \in Nat /\ tax.rate * b \in Nat /\ tax.rate * a <= tax.rate * b
    BY <2>1, TimesGrows
  <2>3. PICK c \in Nat, d \in Nat : c = a * tax.rate /\ d = b * tax.rate /\ c <= d
    BY <2>2
  <2>4. Component(tax, r, x) = c \div 100 /\ Component(tax, s, y) = d \div 100
    BY <1>2, <2>1, <2>3 DEF Component
  <2>5. 100 \in Nat \ {0}
    OBVIOUS
  <2> QED BY <2>3, <2>4, <2>5, DivOf, DivGrows
<1> QED BY <1>1, <1>2

LEMMA TaxesOf ==
  ASSUME NEW p, RatePlan(p)
  PROVE  /\ Len(p.taxes) \in Nat /\ DOMAIN p.taxes = 1..Len(p.taxes)
         /\ \A i \in 1..Len(p.taxes) : p.taxes[i].rate \in Nat
<1> DEFINE R == [kind : {"PERCENTAGE", "FIXED"}, rate : Nat, base : {"SUBTOTAL", "RUNNING_TOTAL"}]
<1>1. p.taxes \in Seq(R)
  BY DEF RatePlan
<1>2. \A r \in R : r.rate \in Nat
  OBVIOUS
<1> HIDE DEF R
<1>3. /\ Len(p.taxes) \in Nat /\ DOMAIN p.taxes = 1..Len(p.taxes)
      /\ \A i \in 1..Len(p.taxes) : p.taxes[i] \in R
  BY <1>1
<1> QED BY <1>2, <1>3

TaxRun(p, base) ==
  (CHOOSE g : g = [s \in SUBSET DOMAIN p.taxes |->
                     IF s = {} THEN base
                     ELSE g[s \ {Max(s)}] + Component(p.taxes[Max(s)], g[s \ {Max(s)}], base)])
    [DOMAIN p.taxes]

LEMMA TaxIsRun ==
  \A p, x : TaxTotal(p, x) = (TaxRun(p, x * 10000) - x * 10000 + 5000) \div 10000
BY DEF TaxTotal, TaxRun, FoldLeft, MapThenFoldSet, Component

LEMMA RunIs ==
  ASSUME NEW p, RatePlan(p), NEW base \in Nat
  PROVE  \E w : Taxed(w, p, base) /\ TaxRun(p, base) = w[Len(p.taxes)]
<1> DEFINE n == Len(p.taxes)
           D == DOMAIN p.taxes
           O == [i \in 1..n |-> [v \in Nat |-> v + Component(p.taxes[i], v, base)]]
           Iter(g) == g = [s \in SUBSET D |->
                             IF s = {} THEN base
                             ELSE g[s \ {Max(s)}]
                                    + Component(p.taxes[Max(s)], g[s \ {Max(s)}], base)]
<1>1. n \in Nat /\ D = 1..n /\ \A i \in 1..n : p.taxes[i].rate \in Nat
  BY TaxesOf
<1>2. TaxRun(p, base) = (CHOOSE g : Iter(g))[D]
  BY DEF TaxRun
<1> HIDE DEF n, D
<1>3. ASSUME NEW v \in Nat, NEW i \in 1..n
      PROVE  O[i][v] \in Nat /\ O[i][v] = v + Component(p.taxes[i], v, base)
  <2>1. v <= v /\ base <= base
    OBVIOUS
  <2>2. Component(p.taxes[i], v, base) \in Nat
    BY <1>1, <2>1, ComponentGrows
  <2> QED BY <2>2
<1> HIDE DEF O
<1>4. PICK g \in [SUBSET D -> Nat] : Fold(g, base, O, D)
  <2>1. \A v \in Nat : \A i \in 1..n : O[i][v] \in Nat
    BY <1>3
  <2> QED BY <1>1, <2>1, SomeFold
<1>5. \A s \in SUBSET D : s # {} => Max(s) \in 1..n /\ s \ {Max(s)} \in SUBSET D
  BY <1>1, LastIn
<1>6. Iter(g)
  <2>1. ASSUME NEW s \in SUBSET D
        PROVE  g[s] = IF s = {} THEN base
                      ELSE g[s \ {Max(s)}] + Component(p.taxes[Max(s)], g[s \ {Max(s)}], base)
    BY <1>3, <1>4, <1>5 DEF Fold
  <2> QED BY <2>1
<1>7. PICK f : Iter(f) /\ TaxRun(p, base) = f[D]
  <2> HIDE DEF Iter
  <2> QED BY <1>2, <1>6
<1> DEFINE w == [k \in 0..n |-> f[1..k]]
<1>8. /\ f[1..0] = base
      /\ \A k \in 1..n : f[1..k] = f[1..(k - 1)] + Component(p.taxes[k], f[1..(k - 1)], base)
  <2>1. 1..0 = {} /\ {} \in SUBSET D
    OBVIOUS
  <2>2. f[1..0] = base
    BY <1>7, <2>1
  <2>3. ASSUME NEW k \in 1..n
        PROVE  f[1..k] = f[1..(k - 1)] + Component(p.taxes[k], f[1..(k - 1)], base)
    <3>1. 1..k \in SUBSET D /\ 1..k # {} /\ Max(1..k) = k /\ (1..k) \ {k} = 1..(k - 1)
      BY <1>1, Prefix
    <3> QED BY <1>7, <3>1
  <2> QED BY <2>2, <2>3
<1>9. \A k \in 0..n : f[1..k] \in Nat
  <2> DEFINE T == {k \in Nat : k <= n => f[1..k] \in Nat}
  <2>1. 0 \in T
    BY <1>1, <1>8
  <2>2. ASSUME NEW k \in T PROVE k + 1 \in T
    <3>1. ASSUME k + 1 <= n PROVE f[1..(k + 1)] \in Nat
      <4>1. k + 1 \in 1..n /\ (k + 1) - 1 = k /\ k <= n
        BY <1>1, <3>1
      <4>4. f[1..k] \in Nat
        BY <4>1
      <4>2. f[1..(k + 1)] = f[1..k] + Component(p.taxes[k + 1], f[1..k], base)
        BY <1>8, <4>1, <4>4
      <4>3. O[k + 1][f[1..k]] = f[1..(k + 1)]
        BY <1>3, <4>1, <4>2, <4>4
      <4> QED BY <1>3, <4>1, <4>3, <4>4
    <3> QED BY <3>1
  <2>3. T = Nat
    <3> HIDE DEF T
    <3>1. T \in SUBSET Nat
      BY DEF T
    <3> QED BY <2>1, <2>2, <3>1, NaturalsFrom
  <2> QED BY <1>1, <2>3
<1>10. w[n] = f[D] /\ w \in [0..n -> Nat] /\ w[0] = base
  BY <1>1, <1>8, <1>9
<1>11. \A k \in 1..n : w[k] = w[k - 1] + Component(p.taxes[k], w[k - 1], base)
  BY <1>1, <1>8
<1> HIDE DEF w
<1> QED BY <1>7, <1>10, <1>11 DEF Taxed, n

LEMMA RunGrows ==
  ASSUME NEW p, RatePlan(p), NEW x \in Nat, NEW y \in Nat, x <= y
  PROVE  /\ TaxRun(p, x) \in Nat /\ TaxRun(p, y) \in Nat
         /\ x <= TaxRun(p, x) /\ TaxRun(p, x) - x <= TaxRun(p, y) - y
<1> DEFINE n == Len(p.taxes)
<1>1. PICK v : Taxed(v, p, x) /\ TaxRun(p, x) = v[n]
  BY RunIs
<1>2. PICK w : Taxed(w, p, y) /\ TaxRun(p, y) = w[n]
  BY RunIs
<1>3. n \in Nat /\ \A i \in 1..n : p.taxes[i].rate \in Nat
  BY TaxesOf
<1> DEFINE Ahead(k) == x <= v[k] /\ v[k] - x <= w[k] - y
           T == {k \in Nat : k <= n => Ahead(k)}
<1>4. Ahead(0)
  BY <1>1, <1>2 DEF Taxed
<1>5. ASSUME NEW k \in Nat, k + 1 <= n, Ahead(k) PROVE Ahead(k + 1)
  <2>1. k + 1 \in 1..n /\ (k + 1) - 1 = k /\ k \in 0..n
    BY <1>3, <1>5
  <2>2. v[k] \in Nat /\ w[k] \in Nat
    BY <1>1, <1>2, <2>1 DEF Taxed
  <2>3. v[k] <= w[k]
    BY <1>5, <2>2
  <2> DEFINE c == Component(p.taxes[k + 1], v[k], x)
             d == Component(p.taxes[k + 1], w[k], y)
  <2>4. c \in Nat /\ d \in Nat /\ c <= d
    BY <1>3, <2>1, <2>2, <2>3, ComponentGrows
  <2>5. v[k + 1] = v[k] + c /\ w[k + 1] = w[k] + d
    BY <1>1, <1>2, <2>1 DEF Taxed
  <2> HIDE DEF c, d
  <2>6. PICK a \in Nat, b \in Nat, a2 \in Nat, b2 \in Nat :
          a = v[k] /\ b = w[k] /\ a2 = v[k + 1] /\ b2 = w[k + 1]
    BY <2>2, <2>4, <2>5
  <2>7. x <= a /\ a - x <= b - y /\ a2 = a + c /\ b2 = b + d
    BY <1>5, <2>5, <2>6
  <2>8. x <= a2 /\ a2 - x <= b2 - y
    BY <2>4, <2>6, <2>7
  <2> QED BY <2>6, <2>8
<1>6. T = Nat
  <2> HIDE DEF Ahead
  <2>1. T \in SUBSET Nat /\ 0 \in T /\ \A k \in T : k + 1 \in T
    BY <1>3, <1>4, <1>5
  <2> HIDE DEF T
  <2> QED BY <2>1, NaturalsFrom
<1>7. Ahead(n) /\ n \in 0..n
  <2>1. n \in T /\ n <= n /\ n \in 0..n
    <3> HIDE DEF T
    <3> QED BY <1>3, <1>6
  <2> QED BY <2>1
<1> QED BY <1>1, <1>2, <1>7 DEF Taxed

LEMMA TaxGrows ==
  ASSUME NEW p, RatePlan(p), NEW x \in Nat, NEW y \in Nat, x <= y
  PROVE  /\ TaxTotal(p, x) \in Nat /\ TaxTotal(p, y) \in Nat
         /\ TaxTotal(p, x) <= TaxTotal(p, y)
<1>1. PICK r \in Nat, s \in Nat : r = x * 10000 /\ s = y * 10000 /\ r <= s
  OBVIOUS
<1>2. /\ TaxRun(p, r) \in Nat /\ TaxRun(p, s) \in Nat
      /\ r <= TaxRun(p, r) /\ TaxRun(p, r) - r <= TaxRun(p, s) - s
  BY <1>1, RunGrows
<1>3. PICK a \in Nat, b \in Nat : a = TaxRun(p, r) - r + 5000 /\ b = TaxRun(p, s) - s + 5000 /\ a <= b
  BY <1>2
<1>4. TaxTotal(p, x) = a \div 10000 /\ TaxTotal(p, y) = b \div 10000
  BY <1>1, <1>3, TaxIsRun
<1>5. 10000 \in Nat \ {0}
  OBVIOUS
<1> QED BY <1>3, <1>4, <1>5, DivOf, DivGrows

------------------------------------------------------------------------------
(* The engine                                                              *)

(* Where on the ladder a stay is charged.                                  *)
LadderStart(p, f) == IF p.policy = "CONSUME_LADDER" THEN f + 1 ELSE 1
LadderEnd(p, u, f) == IF p.policy = "CONSUME_LADDER" THEN u ELSE u - f

Subtotal(p, raw, u, f) == ToppedUp(p, Capped(p, raw, LadderWalk(p, LadderStart(p, f), LadderEnd(p, u, f))))

LEMMA CalculateIs ==
  \A p, e, x :
    LET u == BillableUnits(p, e, x)
        f == Min({p.free, u})
        lo == LadderStart(p, f)
        hi == LadderEnd(p, u, f)
        s == Subtotal(p, x - e, u, f)
    IN Calculate(p, e, x) =
         IF ~ValidRatePlan(p) \/ x < e THEN Unpriced
         ELSE IF p.grace > 0 /\ x - e <= p.grace THEN Priced(0, 0, 0, 0)
         ELSE IF f = u THEN Priced(u, f, 0, 0)
         ELSE IF \A i \in DOMAIN p.slabs : Overlap(p.slabs[i], lo, hi) = 0 THEN Unpriced
         ELSE Priced(u, f, s, TaxTotal(p, s))
BY DEF Calculate, LadderStart, LadderEnd, Subtotal

(* What comes of it: an exception or amounts that are not negative.        *)
LEMMA PricedOr ==
  ASSUME NEW p, RatePlan(p), NEW e \in Nat, NEW x \in Nat
  PROVE  \/ Calculate(p, e, x) = Unpriced
         \/ \E u, f, s, t \in Nat : e <= x /\ Calculate(p, e, x) = Priced(u, f, s, t)
<1> DEFINE u == BillableUnits(p, e, x)
           f == Min({p.free, u})
           s == Subtotal(p, x - e, u, f)
<1>1. CASE e <= x
  <2>1. u \in Nat /\ p.free \in Nat
    BY <1>1, UnitsGrow, x <= x DEF RatePlan
  <2> HIDE DEF u
  <2>2. f = IF p.free <= u THEN p.free ELSE u
    BY <2>1, MinOf
  <2>3. f \in Nat /\ LadderStart(p, f) \in Nat /\ LadderEnd(p, u, f) \in Nat
    BY <2>1, <2>2 DEF LadderStart, LadderEnd
  <2> HIDE DEF f
  <2>4. LadderWalk(p, LadderStart(p, f), LadderEnd(p, u, f)) \in Nat
    BY <2>3, WalkGrows, LadderEnd(p, u, f) <= LadderEnd(p, u, f)
  <2>5. x - e \in Nat /\ x - e <= x - e
    BY <1>1
  <2>6. s \in Nat
    <3> DEFINE a == LadderWalk(p, LadderStart(p, f), LadderEnd(p, u, f))
               b == Capped(p, x - e, a)
    <3>1. a \in Nat /\ a <= a
      BY <2>4
    <3> HIDE DEF a
    <3>2. b \in Nat /\ b <= b
      BY <2>5, <3>1, CappedGrows
    <3> HIDE DEF b
    <3>3. ToppedUp(p, b) \in Nat
      BY <3>2, ToppedUpGrows
    <3> QED BY <3>3 DEF a, b, Subtotal
  <2> HIDE DEF s
  <2>7. TaxTotal(p, s) \in Nat
    BY <2>6, TaxGrows, s <= s
  <2>8. \/ Calculate(p, e, x) = Unpriced
        \/ Calculate(p, e, x) = Priced(0, 0, 0, 0)
        \/ Calculate(p, e, x) = Priced(u, f, 0, 0)
        \/ Calculate(p, e, x) = Priced(u, f, s, TaxTotal(p, s))
    BY CalculateIs DEF u, f, s
  <2> QED BY <1>1, <2>1, <2>3, <2>6, <2>7, <2>8
<1>2. CASE x < e
  BY <1>2 DEF Calculate
<1> QED BY <1>1, <1>2

(* A longer stay under the same plan never costs less, as long as the plan *)
(* prices it at all.                                                       *)
LEMMA ChargeGrows ==
  ASSUME NEW p, RatePlan(p), NEW e \in Nat, NEW x \in Nat, NEW y \in Nat, x <= y,
         Calculate(p, e, y) # Unpriced
  PROVE  Calculate(p, e, x).total <= Calculate(p, e, y).total
<1>1. PICK u2, f2, s2, t2 \in Nat : e <= y /\ Calculate(p, e, y) = Priced(u2, f2, s2, t2)
  BY PricedOr
<1>2. Calculate(p, e, y).total \in Nat
  BY <1>1 DEF Priced
<1>3. CASE Calculate(p, e, x) = Unpriced
  <2>1. Calculate(p, e, x).total = -1
    BY <1>3 DEF Unpriced
  <2> QED BY <1>2, <2>1
<1>4. CASE Calculate(p, e, x) # Unpriced
  <2> DEFINE u == BillableUnits(p, e, x)
             f == Min({p.free, u})
             s == Subtotal(p, x - e, u, f)
             v == BillableUnits(p, e, y)
             g == Min({p.free, v})
             r == Subtotal(p, y - e, v, g)
  <2>1. e <= x /\ e <= y
    BY <1>1, <1>4, PricedOr
  <2>2. u \in Nat /\ v \in Nat /\ u <= v /\ p.free \in Nat
    BY <2>1, UnitsGrow DEF RatePlan
  <2>3. /\ Calculate(p, e, x) = Priced(0, 0, 0, 0) \/ Calculate(p, e, x) = Priced(u, f, 0, 0)
           \/ /\ f # u /\ ~(p.grace > 0 /\ x - e <= p.grace)
              /\ Calculate(p, e, x) = Priced(u, f, s, TaxTotal(p, s))
    BY <1>4, CalculateIs
  <2>5. \/ p.grace > 0 /\ y - e <= p.grace
        \/ g = v
        \/ Calculate(p, e, y) = Priced(v, g, r, TaxTotal(p, r))
    BY <1>1, <1>2, CalculateIs, Calculate(p, e, y) # Unpriced
  <2> HIDE DEF u, v
  <2>6. f = (IF p.free <= u THEN p.free ELSE u) /\ g = IF p.free <= v THEN p.free ELSE v
    BY <2>2, MinOf
  <2>7. f \in Nat /\ g \in Nat
    BY <2>2, <2>6
  <2> HIDE DEF f, g
  <2>8. CASE Calculate(p, e, x) = Priced(0, 0, 0, 0) \/ Calculate(p, e, x) = Priced(u, f, 0, 0)
    <3>1. Calculate(p, e, x).total = 0 + 0
      BY <2>8 DEF Priced
    <3> QED BY <1>2, <3>1
  <2>9. CASE /\ f # u /\ ~(p.grace > 0 /\ x - e <= p.grace)
             /\ Calculate(p, e, x) = Priced(u, f, s, TaxTotal(p, s))
    <3>1. f = p.free /\ g = p.free /\ g # v
      BY <2>2, <2>6, <2>9
    <3>2. p.grace \in Nat /\ x - e \in Nat /\ y - e \in Nat /\ x - e <= y - e
      BY <2>1 DEF RatePlan
    <3>3. Calculate(p, e, y) = Priced(v, g, r, TaxTotal(p, r))
      BY <2>5, <2>9, <3>1, <3>2
    <3> DEFINE lo == LadderStart(p, f)
               h == LadderEnd(p, u, f)
               k == LadderEnd(p, v, g)
    <3>4. lo \in Nat /\ h \in Nat /\ k \in Nat /\ h <= k /\ lo = LadderStart(p, g)
      BY <2>2, <2>6, <2>7, <3>1 DEF LadderStart, LadderEnd
    <3> HIDE DEF lo, h, k
    <3> DEFINE a == LadderWalk(p, lo, h)
               b == LadderWalk(p, lo, k)
    <3>5. a \in Nat /\ b \in Nat /\ a <= b
      BY <3>4, WalkGrows
    <3> HIDE DEF a, b
    <3> DEFINE c == Capped(p, x - e, a)
               d == Capped(p, y - e, b)
    <3>6. c \in Nat /\ d \in Nat /\ c <= d
      BY <3>2, <3>5, CappedGrows
    <3> HIDE DEF c, d
    <3>7. ToppedUp(p, c) \in Nat /\ ToppedUp(p, d) \in Nat /\ ToppedUp(p, c) <= ToppedUp(p, d)
      BY <3>6, ToppedUpGrows
    <3>8. s = ToppedUp(p, c) /\ r = ToppedUp(p, d)
      BY <3>4 DEF Subtotal, a, b, c, d, lo, h, k
    <3> HIDE DEF s, r
    <3>9. s \in Nat /\ r \in Nat /\ s <= r
      BY <3>7, <3>8
    <3>10. TaxTotal(p, s) \in Nat /\ TaxTotal(p, r) \in Nat /\ TaxTotal(p, s) <= TaxTotal(p, r)
      BY <3>9, TaxGrows
    <3>11. Calculate(p, e, x).total = s + TaxTotal(p, s) /\ Calculate(p, e, y).total = r + TaxTotal(p, r)
      BY <2>9, <3>3 DEF Priced
    <3> QED BY <3>9, <3>10, <3>11
  <2> QED BY <2>3, <2>8, <2>9
<1> QED BY <1>3, <1>4

------------------------------------------------------------------------------
(* The charges of a stay                                                   *)

(* A stored calculation is priced by a plan of the book, and is what the   *)
(* engine makes of it; a FINAL one is stored as the stay closes.           *)
Stored(r, b, s) ==
  /\ DOMAIN r = {"type", "plan", "asOf", "current", "sum"}
  /\ r.plan \in b /\ r.asOf \in Nat
  /\ r.sum = Calculate(r.plan, s.entry, r.asOf) /\ r.sum # Unpriced
  /\ r.type = "FINAL" => s.status = "CLOSED"

(* What a transaction carries from its reads: a plan of the book that      *)
(* prices the stay as of the instant chosen.  One that closes the stay has *)
(* read a version; as long as that is the version of the row, the stay is  *)
(* open and its snapshot the one the transaction priced.                   *)
Computed(t, b, s) ==
  t.plan # None =>
    /\ t.plan \in b /\ t.at \in Nat
    /\ Calculate(t.plan, s.entry, t.at) # Unpriced

Carried(t, b, s) ==
  \/ t = NoWork
  \/ t.kind = "ACCRUAL" /\ DOMAIN t = {"kind", "asOf", "plan", "at"} /\ t.asOf \in Nat /\ Computed(t, b, s)
  \/ t.kind = "ESTIMATE" /\ Computed(t, b, s)
  \/ t.kind = "ATTACH" /\ t.plan \in b /\ t.financier \in {None, Fin}
  \/ /\ t.kind = "FINAL" /\ DOMAIN t = {"kind", "asOf", "version", "plan", "at"}
     /\ t.asOf \in Nat /\ Computed(t, b, s)
     /\ t.version \in Nat /\ t.version <= s.version
     /\ t.version = s.version =>
          /\ s.status = "OPEN"
          /\ t.plan # None => t.plan = s.plan /\ t.at = t.asOf

ChargesInv ==
  /\ book \in Books /\ now \in Nat /\ holder \in {None, Fin}
  /\ stay \in [status : {"OPEN", "CLOSED"}, entry : Nat, exit : Nat \cup {None}, version : Nat,
               financier : {None, Fin}, plan : book \cup {None}]
  /\ stay.status = "OPEN" => stay.exit = None
  /\ Len(charges) \in Nat /\ DOMAIN charges = 1..Len(charges)
  /\ \A i \in DOMAIN charges : Stored(charges[i], book, stay)
  /\ \A i, j \in DOMAIN charges : charges[i].current /\ charges[j].current => i = j
  /\ bill.row \in 0..Len(charges)
  /\ DOMAIN tx = Writers /\ \A w \in Writers : Carried(tx[w], book, stay)

LEMMA BookPlans ==
  ASSUME book \in Books
  PROVE  \A p \in book : RatePlan(p)
BY ChargesAssumption

LEMMA ResolvedInBook ==
  ASSUME book \in Books, NEW req
  PROVE  Resolve(book, req) \in book \cup {None}
<1>1. IsFiniteSet(book) /\ \A p \in book : RatePlan(p)
  BY ChargesAssumption
<1> QED BY <1>1, BestCandidate DEF Candidates

LEMMA ChargesBegins == ChargesInit => ChargesInv
<1> SUFFICES ASSUME ChargesInit PROVE ChargesInv
  OBVIOUS
<1>1. now \in Nat /\ book \in Books /\ holder \in {None, Fin}
  BY ChargesAssumption DEF ChargesInit
<1>2. Resolve(book, Request(holder, now)) \in book \cup {None}
  BY <1>1, ResolvedInBook
<1>3. Len(charges) = 0 /\ DOMAIN charges = {} /\ bill.row = 0
  BY DEF ChargesInit, NoInvoice
<1> QED BY <1>1, <1>2, <1>3 DEF ChargesInit, ChargesInv, Carried

(* Marking the stored rows and adding one keeps them a sequence of rows.   *)
LEMMA Superseded ==
  ASSUME NEW row, Len(charges) \in Nat, DOMAIN charges = 1..Len(charges),
         \A i \in DOMAIN charges : Stored(charges[i], book, stay)
  PROVE  /\ Len(Superseding(row)) = Len(charges) + 1
         /\ DOMAIN Superseding(row) = 1..(Len(charges) + 1)
         /\ Superseding(row)[Len(charges) + 1] = row
         /\ \A i \in DOMAIN charges :
              Superseding(row)[i] = [charges[i] EXCEPT !.current = FALSE]
<1> DEFINE n == Len(charges)
           old == [i \in DOMAIN charges |-> [charges[i] EXCEPT !.current = FALSE]]
           S == {old[i] : i \in 1..n} \cup {row}
<1>1. n \in Nat /\ DOMAIN charges = 1..n
  OBVIOUS
<1> HIDE DEF n
<1>2. old \in [1..n -> S]
  BY <1>1
<1>3. old \in Seq(S) /\ Len(old) = n
  <2> HIDE DEF old, S
  <2> QED BY <1>1, <1>2, SMT
<1>4. Superseding(row) = Append(old, row)
  BY DEF Superseding
<1>5. \A i \in 1..n : old[i] = [charges[i] EXCEPT !.current = FALSE]
  BY <1>1
<1>6. row \in S
  OBVIOUS
<1> HIDE DEF old, S
<1> QED BY <1>1, <1>3, <1>4, <1>5, <1>6 DEF n

LEMMA StoredStays ==
  ASSUME NEW r, NEW b, NEW s, NEW z, Stored(r, b, s), z.entry = s.entry,
         s.status = "CLOSED" => z.status = "CLOSED"
  PROVE  /\ Stored(r, b, z) /\ Stored([r EXCEPT !.current = FALSE], b, z)
         /\ ~[r EXCEPT !.current = FALSE].current
<1> DEFINE q == [r EXCEPT !.current = FALSE]
<1>1. DOMAIN q = DOMAIN r /\ \A x \in DOMAIN r : q[x] = IF x = "current" THEN FALSE ELSE r[x]
  OBVIOUS
<1> HIDE DEF q
<1>2. /\ q.type = r.type /\ q.plan = r.plan /\ q.asOf = r.asOf /\ q.sum = r.sum
      /\ q.current = FALSE
  BY <1>1 DEF Stored
<1>3. Stored(q, b, z) /\ Stored(r, b, z)
  BY <1>1, <1>2 DEF Stored
<1> QED BY <1>2, <1>3 DEF q

(* A row that is written once more has a version no transaction has read.  *)
LEMMA CarriedStays ==
  ASSUME NEW t, NEW b, NEW s, NEW z, Carried(t, b, s), z.entry = s.entry,
         s.version \in Nat, z = s \/ z.version = s.version + 1
  PROVE  Carried(t, b, z)
BY DEF Carried, Computed

LEMMA BeginCarries ==
  ASSUME ChargesInv, NEW w \in Writers, NEW rec, BeginWork(w, rec), Carried(rec, book, stay)
  PROVE  ChargesInv'
<1>1. \A v \in Writers : Carried(tx'[v], book, stay)
  BY DEF BeginWork, ChargesInv
<1>2. DOMAIN tx' = Writers
  BY DEF BeginWork, ChargesInv
<1> QED BY <1>1, <1>2 DEF BeginWork, ChargesInv

LEMMA Done ==
  ASSUME ChargesInv, NEW w \in Writers, tx' = [tx EXCEPT ![w] = NoWork], NEW z,
         z.entry = stay.entry, z = stay \/ z.version = stay.version + 1
  PROVE  DOMAIN tx' = Writers /\ \A v \in Writers : Carried(tx'[v], book, z)
<1>1. \A v \in Writers : Carried(tx[v], book, stay) /\ stay.version \in Nat
  BY DEF ChargesInv
<1>2. \A v \in Writers : Carried(tx[v], book, z)
  BY <1>1, CarriedStays
<1>3. Carried(NoWork, book, z)
  BY DEF Carried
<1> QED BY <1>2, <1>3 DEF ChargesInv

(* The stored rows, and a new one that is the current one.                 *)
LEMMA Adds ==
  ASSUME ChargesInv, NEW row, NEW z, Stored(row, book, z), row.current, z.entry = stay.entry,
         stay.status = "CLOSED" => z.status = "CLOSED"
  PROVE  LET s == Superseding(row)
         IN /\ Len(s) = Len(charges) + 1 /\ Len(s) \in Nat /\ DOMAIN s = 1..Len(s)
            /\ \A i \in DOMAIN s : Stored(s[i], book, z)
            /\ \A i, j \in DOMAIN s : s[i].current /\ s[j].current => i = j
            /\ bill.row \in 0..Len(s)
<1> DEFINE s == Superseding(row)
           n == Len(charges)
<1>1. /\ Len(s) = n + 1 /\ DOMAIN s = 1..(n + 1) /\ s[n + 1] = row
      /\ \A i \in DOMAIN charges : s[i] = [charges[i] EXCEPT !.current = FALSE]
  BY Superseded DEF ChargesInv
<1>2. /\ n \in Nat /\ DOMAIN charges = 1..n /\ bill.row \in 0..n
      /\ \A i \in DOMAIN charges : Stored(charges[i], book, stay)
  BY DEF ChargesInv
<1> HIDE DEF s, n
<1>3. \A i \in 1..n : Stored(s[i], book, z) /\ ~s[i].current
  <2> TAKE i \in 1..n
  <2>1. Stored(charges[i], book, stay) /\ s[i] = [charges[i] EXCEPT !.current = FALSE]
    BY <1>1, <1>2
  <2> QED BY <2>1, StoredStays
<1>4. \A i \in 1..(n + 1) : i = n + 1 \/ i \in 1..n
  BY <1>2
<1> QED BY <1>1, <1>2, <1>3, <1>4 DEF s, n

LEMMA RowStored ==
  ASSUME NEW type, NEW p, NEW x \in Nat, NEW z, ChargesInv, p \in book,
         Calculate(p, stay.entry, x) # Unpriced, z.entry = stay.entry,
         type = "FINAL" => z.status = "CLOSED"
  PROVE  Stored(Row(type, p, x), book, z) /\ Row(type, p, x).current
BY DEF Stored, Row

LEMMA CalculationAdds ==
  ASSUME ChargesInv, NEW type \in {"ACCRUAL", "ESTIMATE"}, NEW p \in book, NEW x \in Nat,
         Calculate(p, stay.entry, x) # Unpriced, NEW z, z.entry = stay.entry,
         z.status = stay.status
  PROVE  LET s == WithCalculation(type, p, x)
         IN /\ Len(s) \in Nat /\ DOMAIN s = 1..Len(s)
            /\ \A i \in DOMAIN s : Stored(s[i], book, z)
            /\ \A i, j \in DOMAIN s : s[i].current /\ s[j].current => i = j
            /\ bill.row \in 0..Len(s)
<1> DEFINE s == WithCalculation(type, p, x)
<1>1. CASE s = charges
  <2>1. /\ Len(charges) \in Nat /\ DOMAIN charges = 1..Len(charges) /\ bill.row \in 0..Len(charges)
        /\ \A i \in DOMAIN charges : Stored(charges[i], book, stay)
        /\ \A i, j \in DOMAIN charges : charges[i].current /\ charges[j].current => i = j
    BY DEF ChargesInv
  <2>2. \A i \in DOMAIN charges : Stored(charges[i], book, z)
    BY <2>1, StoredStays
  <2> HIDE DEF s
  <2> QED BY <1>1, <2>1, <2>2 DEF s
<1>2. CASE s = Superseding(Row(type, p, x))
  <2>1. Stored(Row(type, p, x), book, z) /\ Row(type, p, x).current
    BY RowStored
  <2> HIDE DEF s
  <2> QED BY <1>2, <2>1, Adds DEF s
<1> QED BY <1>1, <1>2 DEF WithCalculation

LEMMA ChargesStep == ChargesInv /\ [ChargesNext]_chargesVars => ChargesInv'
<1> SUFFICES ASSUME ChargesInv, [ChargesNext]_chargesVars PROVE ChargesInv'
  OBVIOUS
<1>1. /\ book \in Books /\ now \in Nat /\ stay.entry \in Nat /\ stay.version \in Nat
      /\ stay.plan \in book \cup {None} /\ holder \in {None, Fin}
      /\ \A v \in Writers : Carried(tx[v], book, stay)
  BY DEF ChargesInv
<1>2. CASE UNCHANGED chargesVars
  BY <1>2 DEF chargesVars, ChargesInv
<1>3. CASE Tick
  <2>1. now' \in Nat
    BY <1>1, <1>3, ChargesAssumption DEF Tick
  <2> QED BY <1>3, <2>1 DEF Tick, ChargesInv
<1>4. CASE MatchHolder
  BY <1>4 DEF MatchHolder, ChargesInv
<1>5. ASSUME NEW w \in Writers, ListForAccrual(w) PROVE ChargesInv'
  <2> DEFINE rec == [kind |-> "ACCRUAL", asOf |-> now, plan |-> None, at |-> None]
  <2>1. Carried(rec, book, stay)
    BY <1>1 DEF Carried, Computed
  <2>2. BeginWork(w, rec)
    BY <1>5 DEF ListForAccrual
  <2> HIDE DEF rec
  <2> QED BY <2>1, <2>2, BeginCarries
<1>6. ASSUME NEW w \in Writers, RequestRelease(w) PROVE ChargesInv'
  <2> DEFINE rec == [kind |-> "ESTIMATE", plan |-> stay.plan, at |-> now]
  <2>1. Carried(rec, book, stay)
    BY <1>1, <1>6 DEF Carried, Computed, RequestRelease
  <2>2. BeginWork(w, rec)
    BY <1>6 DEF RequestRelease
  <2> HIDE DEF rec
  <2> QED BY <2>1, <2>2, BeginCarries
<1>7. ASSUME NEW w \in Writers, AttachRate(w) PROVE ChargesInv'
  <2> DEFINE rec == [kind |-> "ATTACH", plan |-> PlanToAttach,
                     financier |-> IF stay.financier # None THEN stay.financier ELSE holder]
  <2>1. PlanToAttach \in book
    BY <1>1, <1>7, ResolvedInBook DEF AttachRate, PlanToAttach
  <2>2. stay.financier \in {None, Fin}
    BY DEF ChargesInv
  <2>3. Carried(rec, book, stay)
    BY <1>1, <2>1, <2>2 DEF Carried
  <2>4. BeginWork(w, rec)
    BY <1>7 DEF AttachRate
  <2> HIDE DEF rec
  <2> QED BY <2>3, <2>4, BeginCarries
<1>8. ASSUME NEW w \in Writers, BeginClose(w) PROVE ChargesInv'
  <2>1. PICK at \in {stay.entry + m : m \in Moments} \cap (0..now) :
          BeginWork(w, [kind |-> "FINAL", asOf |-> at, version |-> stay.version,
                     plan |-> None, at |-> None])
    BY <1>8 DEF BeginClose
  <2> DEFINE rec == [kind |-> "FINAL", asOf |-> at, version |-> stay.version,
                     plan |-> None, at |-> None]
  <2>2. stay.status = "OPEN"
    BY <2>1 DEF BeginWork
  <2>3. Carried(rec, book, stay)
    BY <1>1, <2>2 DEF Carried, Computed
  <2> HIDE DEF rec
  <2> QED BY <2>1, <2>3, BeginCarries DEF rec
<1>9. ASSUME NEW w \in Writers, Price(w) PROVE ChargesInv'
  <2> DEFINE at == AsOf(tx[w].asOf)
             t == [tx[w] EXCEPT !.plan = stay.plan, !.at = at]
             priced == stay.plan # None /\ Calculate(stay.plan, stay.entry, at) # Unpriced
  <2>1. Carried(tx[w], book, stay) /\ tx[w].asOf \in Nat /\ at \in Nat
    BY <1>1, <1>9 DEF Carried, Price, AsOf, ChargesInv, NoWork
  <2>2. tx' = [tx EXCEPT ![w] = IF priced THEN t ELSE NoWork]
    BY <1>9 DEF Price
  <2>3. stay.plan \in book /\ Calculate(stay.plan, stay.entry, at) # Unpriced => Carried(t, book, stay)
    <3>1. CASE tx[w].kind = "ACCRUAL"
      <4>1. DOMAIN tx[w] = {"kind", "asOf", "plan", "at"}
        BY <2>1, <3>1 DEF Carried, NoWork
      <4>2. /\ DOMAIN t = DOMAIN tx[w] /\ t.plan = stay.plan /\ t.at = at
            /\ t.kind = tx[w].kind /\ t.asOf = tx[w].asOf
        BY <4>1
      <4> HIDE DEF t, at
      <4> QED BY <2>1, <3>1, <4>1, <4>2 DEF Carried, Computed
    <3>2. CASE tx[w].kind = "FINAL"
      <4>1. /\ DOMAIN tx[w] = {"kind", "asOf", "version", "plan", "at"}
            /\ tx[w].version \in Nat /\ tx[w].version <= stay.version
            /\ tx[w].version = stay.version => stay.status = "OPEN"
        BY <2>1, <3>2 DEF Carried, NoWork
      <4>2. /\ DOMAIN t = DOMAIN tx[w] /\ t.plan = stay.plan /\ t.at = at
            /\ t.kind = tx[w].kind /\ t.asOf = tx[w].asOf /\ t.version = tx[w].version
        BY <4>1
      <4>3. stay.status = "OPEN" => at = tx[w].asOf
        BY DEF ChargesInv, AsOf
      <4> HIDE DEF t, at
      <4> QED BY <2>1, <3>2, <4>1, <4>2, <4>3 DEF Carried, Computed
    <3> QED BY <1>9, <3>1, <3>2 DEF Price
  <2> HIDE DEF t, at
  <2>4. Carried(NoWork, book, stay)
    BY DEF Carried
  <2>5. DOMAIN tx' = Writers /\ \A v \in Writers : Carried(tx'[v], book, stay)
    BY <1>1, <2>2, <2>3, <2>4 DEF ChargesInv
  <2> QED BY <1>9, <2>5 DEF Price, ChargesInv
<1>10. ASSUME NEW w \in Writers, Store(w) PROVE ChargesInv'
  <2>1. /\ tx[w].kind \in {"ACCRUAL", "ESTIMATE"} /\ tx[w].plan \in book /\ tx[w].at \in Nat
        /\ Calculate(tx[w].plan, stay.entry, tx[w].at) # Unpriced
    BY <1>1, <1>10 DEF Store, Carried, Computed, NoWork
  <2>2. DOMAIN tx' = Writers /\ \A v \in Writers : Carried(tx'[v], book, stay)
    BY <1>10, Done DEF Store
  <2>3. charges' = WithCalculation(tx[w].kind, tx[w].plan, tx[w].at) /\ UNCHANGED <<book, now, stay, holder, bill>>
    BY <1>10 DEF Store
  <2>4. /\ Len(charges') \in Nat /\ DOMAIN charges' = 1..Len(charges')
        /\ \A i \in DOMAIN charges' : Stored(charges'[i], book, stay)
        /\ \A i, j \in DOMAIN charges' : charges'[i].current /\ charges'[j].current => i = j
        /\ bill.row \in 0..Len(charges')
    BY <2>1, <2>3, CalculationAdds
  <2> QED BY <2>2, <2>3, <2>4 DEF ChargesInv
<1>11. ASSUME NEW w \in Writers, Attach(w) PROVE ChargesInv'
  <2> DEFINE x == AsOf(now)
  <2>1. tx[w].plan \in book /\ tx[w].financier \in {None, Fin} /\ x \in Nat
    BY <1>1, <1>11 DEF Attach, Carried, NoWork, AsOf, ChargesInv
  <2>2. /\ stay' = [stay EXCEPT !.plan = tx[w].plan, !.financier = tx[w].financier,
                                !.version = stay.version + 1]
        /\ Calculate(tx[w].plan, stay.entry, x) # Unpriced
        /\ charges' = WithCalculation("ACCRUAL", tx[w].plan, x)
        /\ tx' = [tx EXCEPT ![w] = NoWork] /\ UNCHANGED <<book, now, holder, bill>>
    BY <1>11 DEF Attach
  <2>3. /\ stay' \in [status : {"OPEN", "CLOSED"}, entry : Nat, exit : Nat \cup {None},
                      version : Nat, financier : {None, Fin}, plan : book \cup {None}]
        /\ stay'.status = stay.status /\ stay'.exit = stay.exit /\ stay'.entry = stay.entry
        /\ stay'.version = stay.version + 1
    <3> DEFINE p == tx[w].plan
               f == tx[w].financier
               v == stay.version + 1
    <3>1. /\ p \in book /\ f \in {None, Fin} /\ v \in Nat /\ v = stay.version + 1
          /\ stay' = [stay EXCEPT !.plan = p, !.financier = f, !.version = v]
      BY <1>1, <2>1, <2>2
    <3> HIDE DEF p, f, v
    <3>2. stay \in [status : {"OPEN", "CLOSED"}, entry : Nat, exit : Nat \cup {None},
                    version : Nat, financier : {None, Fin}, plan : book \cup {None}]
      BY DEF ChargesInv
    <3> QED BY <3>1, <3>2
  <2>4. DOMAIN tx' = Writers /\ \A v \in Writers : Carried(tx'[v], book, stay')
    BY <2>2, <2>3, Done
  <2> HIDE DEF x
  <2>5. /\ Len(charges') \in Nat /\ DOMAIN charges' = 1..Len(charges')
        /\ \A i \in DOMAIN charges' : Stored(charges'[i], book, stay')
        /\ \A i, j \in DOMAIN charges' : charges'[i].current /\ charges'[j].current => i = j
        /\ bill.row \in 0..Len(charges')
    BY <2>1, <2>2, <2>3, CalculationAdds
  <2> QED BY <2>2, <2>3, <2>4, <2>5 DEF ChargesInv
<1>12. ASSUME NEW w \in Writers, Close(w) PROVE ChargesInv'
  <2> DEFINE t == tx[w]
             row == Row("FINAL", t.plan, t.at)
  <2>1. /\ t.kind = "FINAL" /\ t.plan # None /\ t.version = stay.version
        /\ charges' = Superseding(row)
        /\ stay' = [stay EXCEPT !.status = "CLOSED", !.exit = t.asOf, !.version = stay.version + 1]
        /\ bill'.row = Len(charges) + 1
        /\ tx' = [tx EXCEPT ![w] = NoWork] /\ UNCHANGED <<book, now, holder>>
    BY <1>12 DEF Close, MayClose
  <2>2. /\ t.plan \in book /\ t.at \in Nat /\ t.asOf \in Nat
        /\ Calculate(t.plan, stay.entry, t.at) # Unpriced
    BY <1>1, <2>1 DEF Carried, Computed, NoWork
  <2>3. /\ stay' \in [status : {"OPEN", "CLOSED"}, entry : Nat, exit : Nat \cup {None},
                      version : Nat, financier : {None, Fin}, plan : book \cup {None}]
        /\ stay'.status = "CLOSED" /\ stay'.entry = stay.entry /\ stay'.version = stay.version + 1
    <3> DEFINE x == t.asOf
               v == stay.version + 1
    <3>1. /\ x \in Nat /\ v \in Nat /\ v = stay.version + 1
          /\ stay' = [stay EXCEPT !.status = "CLOSED", !.exit = x, !.version = v]
      BY <1>1, <2>1, <2>2
    <3> HIDE DEF x, v
    <3>2. stay \in [status : {"OPEN", "CLOSED"}, entry : Nat, exit : Nat \cup {None},
                    version : Nat, financier : {None, Fin}, plan : book \cup {None}]
      BY DEF ChargesInv
    <3> QED BY <3>1, <3>2
  <2>4. DOMAIN tx' = Writers /\ \A v \in Writers : Carried(tx'[v], book, stay')
    BY <2>1, <2>3, Done
  <2>5. Stored(row, book, stay') /\ row.current
    BY <2>2, <2>3, RowStored
  <2> HIDE DEF t, row
  <2>6. /\ Len(charges') = Len(charges) + 1 /\ Len(charges') \in Nat
        /\ DOMAIN charges' = 1..Len(charges')
        /\ \A i \in DOMAIN charges' : Stored(charges'[i], book, stay')
        /\ \A i, j \in DOMAIN charges' : charges'[i].current /\ charges'[j].current => i = j
    BY <2>1, <2>3, <2>5, Adds
  <2>7. bill'.row \in 0..Len(charges')
    BY <2>1, <2>6
  <2> QED BY <2>1, <2>3, <2>4, <2>6, <2>7 DEF ChargesInv
<1>13. ASSUME NEW w \in Writers, RollBack(w) PROVE ChargesInv'
  <2>1. DOMAIN tx' = Writers /\ \A v \in Writers : Carried(tx'[v], book, stay)
    BY <1>13, Done DEF RollBack
  <2> QED BY <1>13, <2>1 DEF RollBack, ChargesInv
<1> QED
  BY <1>2, <1>3, <1>4, <1>5, <1>6, <1>7, <1>8, <1>9, <1>10, <1>11, <1>12, <1>13 DEF ChargesNext

(* Each calculation is the only current one, the invoice names a stored    *)
(* calculation.                                                            *)
THEOREM ChargesType == ChargesSpec => []ChargesTyped
<1>1. ChargesInv => ChargesTyped
  BY DEF ChargesInv, ChargesTyped
<1> QED BY <1>1, ChargesBegins, ChargesStep, PTL DEF ChargesSpec

(* ExitBillsTheStay: the transaction that closes the stay has read the     *)
(* version the row still has, so the stay is open, no FINAL calculation is *)
(* stored, and the plan it priced is the one the stay carries; what had    *)
(* accrued under that plan by an earlier instant is not more, for the      *)
(* engine never charges less for a longer stay.                            *)
THEOREM ExitIsBilled == ChargesSpec => ExitBillsTheStay
<1> DEFINE Once ==
      bill' # bill =>
        LET r == charges'[bill'.row]
        IN /\ r.type = "FINAL" /\ r.current /\ r.asOf = stay'.exit /\ r.plan = stay'.plan
           /\ \A i \in DOMAIN charges :
                /\ charges[i].type # "FINAL"
                /\ charges[i].plan = r.plan /\ charges[i].asOf <= r.asOf =>
                     charges[i].sum.total <= r.sum.total
           /\ bill'.party = "FINANCIER" => stay'.financier # None
<1>1. ChargesInv /\ [ChargesNext]_chargesVars => [Once]_chargesVars
  <2> SUFFICES ASSUME ChargesInv, ChargesNext, bill' # bill PROVE Once
    BY DEF chargesVars
  <2>1. PICK w \in Writers : Close(w)
    BY DEF ChargesNext, Tick, MatchHolder, ListForAccrual, RequestRelease, AttachRate, BeginClose,
           BeginWork, Price, Store, Attach, RollBack
  <2> DEFINE t == tx[w]
             row == Row("FINAL", t.plan, t.at)
             d == Decision(row, t.at)
  <2>2. /\ t.kind = "FINAL" /\ t.plan # None /\ t.version = stay.version
        /\ \E customer \in BOOLEAN : Identified(d.party, stay.financier, customer)
        /\ charges' = Superseding(row)
        /\ stay' = [stay EXCEPT !.status = "CLOSED", !.exit = t.asOf, !.version = stay.version + 1]
        /\ bill'.row = Len(charges) + 1 /\ bill'.party = d.party
    BY <2>1 DEF Close, MayClose
  <2>3. /\ t.plan \in book /\ t.at \in Nat /\ t.plan = stay.plan /\ t.at = t.asOf
        /\ Calculate(t.plan, stay.entry, t.at) # Unpriced /\ stay.status = "OPEN"
    <3>1. Carried(t, book, stay)
      BY DEF ChargesInv
    <3> HIDE DEF t
    <3> QED BY <2>2, <3>1 DEF Carried, Computed, NoWork
  <2>4. /\ stay'.exit = t.asOf /\ stay'.plan = stay.plan /\ stay'.financier = stay.financier
    BY <2>2 DEF ChargesInv
  <2>5. d.party = "FINANCIER" => stay.financier # None
    BY <2>2 DEF Identified
  <2>6. /\ row.type = "FINAL" /\ row.current /\ row.plan = t.plan /\ row.asOf = t.at
        /\ row.sum = Calculate(t.plan, stay.entry, t.at)
    BY DEF Row
  <2> HIDE DEF row, d
  <2>7. charges'[bill'.row] = row
    BY <2>2, Superseded DEF ChargesInv
  <2>8. ASSUME NEW i \in DOMAIN charges
        PROVE  /\ charges[i].type # "FINAL"
               /\ charges[i].plan = row.plan /\ charges[i].asOf <= row.asOf =>
                    charges[i].sum.total <= row.sum.total
    <3>1. Stored(charges[i], book, stay) /\ stay.entry \in Nat
      BY DEF ChargesInv
    <3>2. RatePlan(t.plan)
      BY <2>3, BookPlans DEF ChargesInv
    <3> HIDE DEF t
    <3>3. charges[i].type # "FINAL"
      BY <2>3, <3>1 DEF Stored
    <3>4. ASSUME charges[i].plan = t.plan, charges[i].asOf <= t.at
          PROVE  charges[i].sum.total <= Calculate(t.plan, stay.entry, t.at).total
      BY <2>3, <3>1, <3>2, <3>4, ChargeGrows DEF Stored
    <3> QED BY <2>6, <3>3, <3>4
  <2> HIDE DEF t
  <2> QED BY <2>2, <2>3, <2>4, <2>5, <2>6, <2>7, <2>8
<1>2. ChargesSpec => [][Once]_chargesVars
  BY <1>1, ChargesBegins, ChargesStep, PTL DEF ChargesSpec
<1> QED BY <1>2 DEF ExitBillsTheStay

------------------------------------------------------------------------------
(* Sums over positions                                                     *)

LEMMA AddedNat ==
  ASSUME NEW f, NEW S, IsFiniteSet(S), Weighed(f, S)
  PROVE  Added(f, S) \in Nat
<1>1. PICK g : Added(f, S) = g[S] /\ Tally(g, f, S)
  BY AddedIs
<1> QED BY <1>1 DEF Tally

LEMMA AddedNext ==
  ASSUME NEW f, NEW lo \in Nat, NEW k \in Nat, lo <= k + 1, Weighed(f, lo..(k + 1))
  PROVE  /\ Added(f, lo..k) \in Nat
         /\ Added(f, lo..(k + 1)) = f[k + 1].amount + Added(f, lo..k)
<1>1. IsFiniteSet(lo..k) /\ IsFiniteSet(lo..(k + 1))
  BY FS_Interval
<1>2. (lo..(k + 1)) \ {k + 1} = lo..k /\ k + 1 \in lo..(k + 1) /\ lo..k \subseteq lo..(k + 1)
  OBVIOUS
<1>3. Weighed(f, lo..k)
  BY <1>2 DEF Weighed
<1> DEFINE S == lo..(k + 1)
<1>4. Added(f, S) = f[k + 1].amount + Added(f, S \ {k + 1})
  <2> HIDE DEF S
  <2> QED BY <1>1, <1>2, AddedOne DEF S
<1> QED BY <1>1, <1>2, <1>3, <1>4, AddedNat

LEMMA AddedBoth ==
  ASSUME NEW f, NEW g, NEW h, NEW n \in Nat,
         \A i \in 1..n : /\ f[i].amount \in Nat /\ g[i].amount \in Nat
                         /\ h[i].amount = f[i].amount + g[i].amount
  PROVE  Added(h, 1..n) = Added(f, 1..n) + Added(g, 1..n)
<1> DEFINE Both(k) == Added(h, 1..k) = Added(f, 1..k) + Added(g, 1..k)
           T == {k \in Nat : k <= n => Both(k)}
<1>1. Both(0)
  BY AddedEmpty, 1..0 = {}
<1>2. ASSUME NEW k \in Nat, k + 1 <= n, Both(k) PROVE Both(k + 1)
  <2>0. k + 1 \in 1..n /\ 1 <= k + 1 /\ \A i \in 1..(k + 1) : i \in 1..n
    BY <1>2
  <2>1. /\ Weighed(f, 1..(k + 1)) /\ Weighed(g, 1..(k + 1)) /\ Weighed(h, 1..(k + 1))
        /\ k + 1 \in 1..n /\ 1 <= k + 1
    <3>1. \A i \in 1..(k + 1) : /\ f[i].amount \in Nat /\ g[i].amount \in Nat
                                /\ h[i].amount = f[i].amount + g[i].amount
      BY <2>0
    <3> QED BY <2>0, <3>1 DEF Weighed
  <2>2. /\ Added(f, 1..k) \in Nat /\ Added(f, 1..(k + 1)) = f[k + 1].amount + Added(f, 1..k)
        /\ Added(g, 1..k) \in Nat /\ Added(g, 1..(k + 1)) = g[k + 1].amount + Added(g, 1..k)
        /\ Added(h, 1..k) \in Nat /\ Added(h, 1..(k + 1)) = h[k + 1].amount + Added(h, 1..k)
    BY <2>1, AddedNext
  <2> QED BY <1>2, <2>1, <2>2
<1>3. T = Nat
  <2> HIDE DEF Both
  <2>1. T \in SUBSET Nat /\ 0 \in T /\ \A k \in T : k + 1 \in T
    BY <1>1, <1>2
  <2> HIDE DEF T
  <2> QED BY <2>1, NaturalsFrom
<1>4. n \in T
  <2> HIDE DEF T
  <2> QED BY <1>3
<1> QED BY <1>4

(* Only the j-th counts, or none.                                          *)
LEMMA AddedLone ==
  ASSUME NEW f, NEW n \in Nat, NEW j \in Nat, j <= n,
         \A i \in 1..n : f[i].amount \in Nat /\ (i # j => f[i].amount = 0)
  PROVE  Added(f, 1..n) = IF j = 0 THEN 0 ELSE f[j].amount
<1> DEFINE Lone(k) == Added(f, 1..k) = IF 0 < j /\ j <= k THEN f[j].amount ELSE 0
           T == {k \in Nat : k <= n => Lone(k)}
<1>1. Lone(0)
  BY AddedEmpty, 1..0 = {}
<1>2. ASSUME NEW k \in Nat, k + 1 <= n, Lone(k) PROVE Lone(k + 1)
  <2>1. Weighed(f, 1..(k + 1)) /\ k + 1 \in 1..n /\ 1 <= k + 1
    BY <1>2 DEF Weighed
  <2>2. Added(f, 1..k) \in Nat /\ Added(f, 1..(k + 1)) = f[k + 1].amount + Added(f, 1..k)
    BY <2>1, AddedNext
  <2>3. CASE j = k + 1
    <3>1. Added(f, 1..k) = 0 /\ f[k + 1].amount \in Nat
      BY <1>2, <2>1, <2>3
    <3> QED BY <2>2, <2>3, <3>1
  <2>4. CASE j # k + 1
    <3>1. f[k + 1].amount = 0
      BY <2>1, <2>4
    <3>2. Added(f, 1..(k + 1)) = Added(f, 1..k)
      BY <2>2, <3>1
    <3>3. j <= k <=> j <= k + 1
      BY <2>4
    <3> QED BY <1>2, <3>2, <3>3
  <2> QED BY <2>3, <2>4
<1>3. T = Nat
  <2> HIDE DEF Lone
  <2>1. T \in SUBSET Nat /\ 0 \in T /\ \A k \in T : k + 1 \in T
    BY <1>1, <1>2
  <2> HIDE DEF T
  <2> QED BY <2>1, NaturalsFrom
<1>4. n \in T
  <2> HIDE DEF T
  <2> QED BY <1>3
<1> QED BY <1>4

(* The walk is the sum of what each slab costs.                            *)
Weights(p, lo, hi) == [i \in 1..Len(p.slabs) |-> [amount |-> SlabAmount(p.slabs[i], lo, hi)]]

LEMMA WalkIsSum ==
  ASSUME NEW p, RatePlan(p), NEW lo \in Nat, NEW hi \in Nat
  PROVE  LadderWalk(p, lo, hi) = Added(Weights(p, lo, hi), 1..Len(p.slabs))
<1> DEFINE n == Len(p.slabs)
           f == Weights(p, lo, hi)
<1>1. PICK w : Walked(w, p, lo, hi) /\ LadderWalk(p, lo, hi) = w[n]
  BY WalkIs
<1>2. n \in Nat /\ \A i \in 1..n : Slab(p.slabs[i])
  BY SlabsOf
<1>3. \A i \in 1..n : f[i].amount = SlabAmount(p.slabs[i], lo, hi) /\ f[i].amount \in Nat
  <2> TAKE i \in 1..n
  <2>1. SlabAmount(p.slabs[i], lo, hi) \in Nat
    BY <1>2, SlabAmountGrows, hi <= hi
  <2> QED BY <2>1 DEF Weights
<1> DEFINE Same(k) == w[k] = Added(f, 1..k)
           T == {k \in Nat : k <= n => Same(k)}
<1> HIDE DEF f
<1>4. Same(0)
  BY <1>1, AddedEmpty, 1..0 = {} DEF Walked
<1>5. ASSUME NEW k \in Nat, k + 1 <= n, Same(k) PROVE Same(k + 1)
  <2>0. (k + 1) - 1 = k
    OBVIOUS
  <2>1. Weighed(f, 1..(k + 1)) /\ k + 1 \in 1..n /\ 1 <= k + 1
    BY <1>2, <1>3, <1>5 DEF Weighed
  <2>2. Added(f, 1..k) \in Nat /\ Added(f, 1..(k + 1)) = f[k + 1].amount + Added(f, 1..k)
    <3> HIDE DEF n, Same, T
    <3> QED BY <2>1, AddedNext
  <2>3. w[k + 1] = w[k] + SlabAmount(p.slabs[k + 1], lo, hi)
    BY <1>1, <2>0, <2>1 DEF Walked
  <2> QED BY <1>3, <1>5, <2>1, <2>2, <2>3
<1>6. T = Nat
  <2> HIDE DEF Same
  <2>1. T \in SUBSET Nat /\ 0 \in T /\ \A k \in T : k + 1 \in T
    BY <1>2, <1>4, <1>5
  <2> HIDE DEF T
  <2> QED BY <2>1, NaturalsFrom
<1>7. n \in T
  <2> HIDE DEF T
  <2> QED BY <1>2, <1>6
<1> QED BY <1>1, <1>2, <1>7 DEF f

------------------------------------------------------------------------------
(* A ladder read position by position                                      *)

LEMMA SumOfNone == SumSet({}) = 0
<1> DEFINE Iter(g) == g = [s \in SUBSET {} |->
                             IF s = {} THEN 0
                             ELSE (CHOOSE x \in s : TRUE) + g[s \ {CHOOSE x \in s : TRUE}]]
<1>1. SumSet({}) = (CHOOSE g : Iter(g))[{}]
  BY DEF SumSet, FoldSet, MapThenFoldSet
<1>2. Iter([s \in SUBSET {} |-> 0])
  OBVIOUS
<1>3. PICK g : Iter(g) /\ SumSet({}) = g[{}]
  <2> HIDE DEF Iter
  <2> QED BY <1>1, <1>2
<1> QED BY <1>3

LEMMA SumOfOne == \A a \in Nat : SumSet({a}) = a
<1> TAKE a \in Nat
<1> DEFINE Iter(g) == g = [s \in SUBSET {a} |->
                             IF s = {} THEN 0
                             ELSE (CHOOSE x \in s : TRUE) + g[s \ {CHOOSE x \in s : TRUE}]]
<1>1. SumSet({a}) = (CHOOSE g : Iter(g))[{a}]
  BY DEF SumSet, FoldSet, MapThenFoldSet
<1>2. \A s \in SUBSET {a} : s # {} => s = {a} /\ (CHOOSE x \in s : TRUE) = a
  OBVIOUS
<1>3. {a} \ {a} = {} /\ {} \in SUBSET {a} /\ {a} \in SUBSET {a} /\ a + 0 = a /\ {a} # {}
  OBVIOUS
<1>4. Iter([s \in SUBSET {a} |-> IF s = {} THEN 0 ELSE a])
  <2> DEFINE h == [s \in SUBSET {a} |-> IF s = {} THEN 0 ELSE a]
  <2>1. ASSUME NEW s \in SUBSET {a}
        PROVE  h[s] = IF s = {} THEN 0
                      ELSE (CHOOSE x \in s : TRUE) + h[s \ {CHOOSE x \in s : TRUE}]
    <3>1. CASE s = {}
      BY <3>1
    <3>2. CASE s # {}
      <4>1. s = {a} /\ (CHOOSE x \in s : TRUE) = a /\ s \ {a} = {}
        BY <1>2, <3>2
      <4>2. h[{}] = 0 /\ h[s] = a
        BY <1>3, <4>1
      <4> HIDE DEF h
      <4> QED BY <1>3, <3>2, <4>1, <4>2
    <3> QED BY <3>1, <3>2
  <2> QED BY <2>1
<1>5. PICK g : Iter(g) /\ SumSet({a}) = g[{a}]
  <2> HIDE DEF Iter
  <2> QED BY <1>1, <1>4
<1>6. g[{}] = 0
  BY <1>3, <1>5
<1>7. g[{a}] = (CHOOSE x \in {a} : TRUE) + g[{a} \ {CHOOSE x \in {a} : TRUE}]
  BY <1>3, <1>5
<1>8. (CHOOSE x \in {a} : TRUE) = a
  BY <1>2, <1>3
<1> QED BY <1>3, <1>5, <1>6, <1>7, <1>8

(* What a position costs by the unit, and a slab once.                     *)
PerUnitAt(p, q) ==
  SumSet({p.slabs[i].amount : i \in {i \in DOMAIN p.slabs : /\ p.slabs[i].kind = "PER_UNIT"
                                                            /\ On(p.slabs[i], q)}})

FlatIn(p, i, S) ==
  IF p.slabs[i].kind = "FLAT" /\ \E q \in S : On(p.slabs[i], q) THEN p.slabs[i].amount ELSE 0

PositionSum(p, S) ==
  (CHOOSE g : g = [s \in SUBSET S |-> IF s = {} THEN 0
                                      ELSE PerUnitAt(p, Picked(s)) + g[s \ {Picked(s)}]])[S]

FlatSum(p, S) ==
  (CHOOSE g : g = [s \in SUBSET DOMAIN p.slabs |->
                     IF s = {} THEN 0 ELSE FlatIn(p, Picked(s), S) + g[s \ {Picked(s)}]])
    [DOMAIN p.slabs]

LEMMA OwedIs == \A p, S : OwedByPosition(p, S) = PositionSum(p, S) + FlatSum(p, S)
BY DEF OwedByPosition, MapThenSumSet, MapThenFoldSet, PositionSum, FlatSum, PerUnitAt, FlatIn,
       Picked

PositionRow(p) == [q \in Nat |-> [amount |-> PerUnitAt(p, q)]]
FlatRow(p, S) == [i \in 1..Len(p.slabs) |-> [amount |-> FlatIn(p, i, S)]]

LEMMA PositionsAdded ==
  ASSUME NEW p, NEW S \in SUBSET Nat
  PROVE  PositionSum(p, S) = Added(PositionRow(p), S)
<1> DEFINE P(g, s) == IF s = {} THEN 0 ELSE PerUnitAt(p, Picked(s)) + g[s \ {Picked(s)}]
           f == PositionRow(p)
<1>1. \A g : \A s \in SUBSET S : P(g, s) = AddUp(f, g, s)
  BY PickedIn DEF AddUp, PositionRow
<1> HIDE DEF P, f
<1>2. \A g : [s \in SUBSET S |-> P(g, s)] = [s \in SUBSET S |-> AddUp(f, g, s)]
  BY <1>1
<1>3. (CHOOSE g : g = [s \in SUBSET S |-> P(g, s)])
        = (CHOOSE g : g = [s \in SUBSET S |-> AddUp(f, g, s)])
  BY <1>2
<1> QED BY <1>3 DEF Added, PositionSum, P, f

LEMMA FlatAdded ==
  ASSUME NEW p, RatePlan(p), NEW S
  PROVE  FlatSum(p, S) = Added(FlatRow(p, S), 1..Len(p.slabs))
<1> DEFINE P(g, s) == IF s = {} THEN 0 ELSE FlatIn(p, Picked(s), S) + g[s \ {Picked(s)}]
           f == FlatRow(p, S)
           D == DOMAIN p.slabs
<1>0. D = 1..Len(p.slabs)
  BY SlabsOf
<1>1. \A g : \A s \in SUBSET D : P(g, s) = AddUp(f, g, s)
  BY <1>0, PickedIn DEF AddUp, FlatRow
<1> HIDE DEF P, f, D
<1>2. \A g : [s \in SUBSET D |-> P(g, s)] = [s \in SUBSET D |-> AddUp(f, g, s)]
  BY <1>1
<1>3. (CHOOSE g : g = [s \in SUBSET D |-> P(g, s)])
        = (CHOOSE g : g = [s \in SUBSET D |-> AddUp(f, g, s)])
  BY <1>2
<1>4. FlatSum(p, S) = (CHOOSE g : g = [s \in SUBSET D |-> P(g, s)])[D]
  BY DEF FlatSum, P, D
<1> QED BY <1>0, <1>3, <1>4 DEF Added, f

(* The slabs of a valid plan follow one another, ...                       *)
LEMMA SlabsFollow ==
  ASSUME NEW p, RatePlan(p), ValidRatePlan(p), NEW i \in 1..Len(p.slabs)
  PROVE  \A j \in 1..Len(p.slabs) :
           i < j => p.slabs[i].to \in Nat /\ p.slabs[i].to < p.slabs[j].from
<1> DEFINE n == Len(p.slabs)
           s == p.slabs
           T == {j \in Nat : j <= n /\ i < j => s[i].to \in Nat /\ s[i].to < s[j].from}
<1>1. /\ n \in Nat
      /\ \A k \in 1..n : s[k].from \in Nat /\ s[k].to \in Nat \cup {None}
      /\ \A k \in 1..n : s[k].to = None \/ s[k].to >= s[k].from
      /\ \A k \in 1..(n - 1) : s[k].to # None /\ s[k + 1].from = s[k].to + 1
  BY SlabsOf DEF Slab, ValidRatePlan
<1> HIDE DEF n, s
<1>2. 0 \in T
  BY <1>1
<1>3. ASSUME NEW j \in T PROVE j + 1 \in T
  <2>1. ASSUME j + 1 <= n, i < j + 1 PROVE s[i].to \in Nat /\ s[i].to < s[j + 1].from
    <3>1. j \in 1..(n - 1) /\ j \in 1..n /\ i \in Nat
      BY <1>1, <2>1, i \in 1..n DEF n
    <3>2. s[j].to \in Nat /\ s[j].to >= s[j].from /\ s[j + 1].from = s[j].to + 1 /\ s[j].from \in Nat
      BY <1>1, <3>1
    <3>3. CASE i = j
      BY <3>2, <3>3
    <3>4. CASE i # j
      <4>1. i < j /\ j <= n
        BY <2>1, <3>1, <3>4
      <4>2. s[i].to \in Nat /\ s[i].to < s[j].from
        BY <4>1
      <4> QED BY <3>2, <4>2
    <3> QED BY <3>3, <3>4
  <2> QED BY <2>1
<1>4. T = Nat
  <2>1. T \in SUBSET Nat
    OBVIOUS
  <2> HIDE DEF T
  <2> QED BY <1>2, <1>3, <2>1, NaturalsFrom
<1>5. \A j \in 1..n : j \in T /\ j <= n
  <2> HIDE DEF T
  <2> QED BY <1>1, <1>4
<1> QED BY <1>5 DEF n, s

(* ... so a position is on one of them at most.                            *)
LEMMA OneSlab ==
  ASSUME NEW p, RatePlan(p), ValidRatePlan(p), NEW q \in Nat
  PROVE  \E j \in 0..Len(p.slabs) : \A i \in 1..Len(p.slabs) : On(p.slabs[i], q) <=> i = j
<1> DEFINE n == Len(p.slabs)
<1>1. n \in Nat /\ \A k \in 1..n : p.slabs[k].from \in Nat
  BY SlabsOf DEF Slab
<1>2. ASSUME NEW i \in 1..n, NEW j \in 1..n, On(p.slabs[i], q), On(p.slabs[j], q), i < j PROVE FALSE
  <2>1. p.slabs[i].to \in Nat /\ p.slabs[i].to < p.slabs[j].from
    BY <1>2, SlabsFollow
  <2>2. p.slabs[i].to # None
    BY <2>1, PricingAssumption
  <2> QED BY <1>1, <1>2, <2>1, <2>2 DEF On
<1>3. CASE \E j \in 1..n : On(p.slabs[j], q)
  <2>1. PICK j \in 1..n : On(p.slabs[j], q)
    BY <1>3
  <2>2. \A i \in 1..n : On(p.slabs[i], q) <=> i = j
    BY <1>1, <1>2, <2>1
  <2> QED BY <1>1, <2>2
<1>4. CASE ~\E j \in 1..n : On(p.slabs[j], q)
  <2>1. \A i \in 1..n : On(p.slabs[i], q) <=> i = 0
    BY <1>1, <1>4
  <2> QED BY <1>1, <2>1
<1> QED BY <1>3, <1>4

LEMMA PerUnitIs ==
  ASSUME NEW p, RatePlan(p), ValidRatePlan(p), NEW q \in Nat, NEW j \in 0..Len(p.slabs),
         \A i \in 1..Len(p.slabs) : On(p.slabs[i], q) <=> i = j
  PROVE  /\ PerUnitAt(p, q) = IF j # 0 /\ p.slabs[j].kind = "PER_UNIT" THEN p.slabs[j].amount ELSE 0
         /\ PerUnitAt(p, q) \in Nat
<1> DEFINE n == Len(p.slabs)
           A == {p.slabs[i].amount : i \in {i \in DOMAIN p.slabs : /\ p.slabs[i].kind = "PER_UNIT"
                                                                    /\ On(p.slabs[i], q)}}
<1>1. n \in Nat /\ DOMAIN p.slabs = 1..n /\ \A i \in 1..n : p.slabs[i].amount \in Nat
  BY SlabsOf DEF Slab
<1>2. PerUnitAt(p, q) = SumSet(A)
  BY DEF PerUnitAt
<1>3. CASE j # 0 /\ p.slabs[j].kind = "PER_UNIT"
  <2>1. j \in 1..n /\ On(p.slabs[j], q)
    BY <1>1, <1>3
  <2>2. A = {p.slabs[j].amount} /\ p.slabs[j].amount \in Nat
    BY <1>1, <1>3, <2>1
  <2> HIDE DEF A
  <2> QED BY <1>2, <1>3, <2>2, SumOfOne
<1>4. CASE ~(j # 0 /\ p.slabs[j].kind = "PER_UNIT")
  <2>1. A = {}
    BY <1>1, <1>4
  <2> HIDE DEF A
  <2> QED BY <1>2, <1>4, <2>1, SumOfNone
<1> QED BY <1>3, <1>4

(* One position more is one unit more on the slab it lies on.              *)
LEMMA OverlapNext ==
  ASSUME NEW s, Slab(s), s.to = None \/ s.to >= s.from, NEW lo \in Nat, NEW h \in Nat,
         lo <= h + 1, h + 1 <= MaxLadderUnits
  PROVE  Overlap(s, lo, h + 1) = Overlap(s, lo, h) + (IF On(s, h + 1) THEN 1 ELSE 0)
<1>1. MaxLadderUnits \in Nat /\ None \notin Nat /\ s.from \in Nat
  BY PricingAssumption DEF Slab
<1>2. SlabEnd(s) = IF s.to = None THEN MaxLadderUnits ELSE s.to
  BY DEF SlabEnd
<1>3. On(s, h + 1) <=> s.from <= h + 1 /\ h + 1 <= SlabEnd(s)
  BY <1>1, <1>2 DEF On, Slab
<1>4. PICK e \in Nat : e = SlabEnd(s)
  BY OverlapIs, h \in Nat
<1>5. PICK a \in Nat : a = IF lo >= s.from THEN lo ELSE s.from
  BY <1>1
<1>6. /\ Overlap(s, lo, h) = (LET b == IF h <= e THEN h ELSE e
                              IN IF a <= b THEN b - a + 1 ELSE 0)
      /\ Overlap(s, lo, h + 1) = (LET b == IF h + 1 <= e THEN h + 1 ELSE e
                                  IN IF a <= b THEN b - a + 1 ELSE 0)
  BY <1>4, <1>5, OverlapIs, h + 1 \in Nat
<1> QED BY <1>1, <1>3, <1>4, <1>5, <1>6

LEMMA OverlapNone ==
  ASSUME NEW s, Slab(s), NEW h \in Nat
  PROVE  Overlap(s, h + 1, h) = 0
<1>1. s.from \in Nat /\ h + 1 \in Nat
  BY DEF Slab
<1>2. PICK e \in Nat : e = SlabEnd(s)
  BY OverlapIs, h \in Nat
<1>3. Overlap(s, h + 1, h) = (LET b == IF h <= e THEN h ELSE e
                                  a == IF h + 1 >= s.from THEN h + 1 ELSE s.from
                              IN IF a <= b THEN b - a + 1 ELSE 0)
  BY <1>1, <1>2, OverlapIs
<1> QED BY <1>1, <1>2, <1>3

(* A slab is touched exactly when one of the positions lies on it.         *)
LEMMA OverlapSome ==
  ASSUME NEW s, Slab(s), NEW lo \in Nat, NEW hi \in Nat, hi <= MaxLadderUnits
  PROVE  Overlap(s, lo, hi) # 0 <=> \E q \in lo..hi : On(s, q)
<1>1. MaxLadderUnits \in Nat /\ None \notin Nat /\ s.from \in Nat
  BY PricingAssumption DEF Slab
<1>2. SlabEnd(s) = IF s.to = None THEN MaxLadderUnits ELSE s.to
  BY DEF SlabEnd
<1>3. \A q \in lo..hi : On(s, q) <=> s.from <= q /\ q <= SlabEnd(s)
  BY <1>1, <1>2 DEF On, Slab
<1>4. PICK e \in Nat : e = SlabEnd(s)
  BY OverlapIs
<1>5. PICK a \in Nat : a = IF lo >= s.from THEN lo ELSE s.from
  BY <1>1
<1>6. Overlap(s, lo, hi) = (LET b == IF hi <= e THEN hi ELSE e
                            IN IF a <= b THEN b - a + 1 ELSE 0)
  BY <1>4, <1>5, OverlapIs
<1>7. Overlap(s, lo, hi) # 0 <=> a <= hi /\ a <= e
  BY <1>4, <1>5, <1>6
<1>8. a <= hi /\ a <= e => a \in lo..hi /\ s.from <= a /\ a <= e
  BY <1>1, <1>5
<1>9. \A q \in lo..hi : s.from <= q /\ q <= e => a <= hi /\ a <= e
  BY <1>1, <1>5
<1> QED BY <1>3, <1>4, <1>7, <1>8, <1>9

(* The walk, by what is charged for each unit and what is charged once.    *)
UnitRow(p, lo, hi) ==
  [i \in 1..Len(p.slabs) |->
     [amount |-> IF p.slabs[i].kind = "PER_UNIT" THEN p.slabs[i].amount * Overlap(p.slabs[i], lo, hi)
                 ELSE 0]]

LEMMA UnitRowNat ==
  ASSUME NEW p, RatePlan(p), NEW lo \in Nat, NEW hi \in Nat, NEW i \in 1..Len(p.slabs)
  PROVE  UnitRow(p, lo, hi)[i].amount \in Nat
<1>1. p.slabs[i].amount \in Nat /\ Overlap(p.slabs[i], lo, hi) \in Nat
  BY SlabsOf, OverlapGrows, hi <= hi DEF Slab
<1>2. p.slabs[i].amount * Overlap(p.slabs[i], lo, hi) \in Nat
  BY <1>1
<1> QED BY <1>2 DEF UnitRow

LEMMA WalkSplits ==
  ASSUME NEW p, RatePlan(p), NEW lo \in Nat, NEW hi \in Nat, hi <= MaxLadderUnits
  PROVE  LadderWalk(p, lo, hi) = Added(UnitRow(p, lo, hi), 1..Len(p.slabs)) + FlatSum(p, lo..hi)
<1> DEFINE n == Len(p.slabs)
           f == UnitRow(p, lo, hi)
           g == FlatRow(p, lo..hi)
           h == Weights(p, lo, hi)
<1>1. n \in Nat /\ \A i \in 1..n : Slab(p.slabs[i])
  BY SlabsOf
<1>2. ASSUME NEW i \in 1..n
      PROVE  f[i].amount \in Nat /\ g[i].amount \in Nat /\ h[i].amount = f[i].amount + g[i].amount
  <2>1. f[i].amount \in Nat
    BY UnitRowNat
  <2>2. /\ p.slabs[i].amount \in Nat /\ p.slabs[i].kind \in {"PER_UNIT", "FLAT"}
        /\ Overlap(p.slabs[i], lo, hi) \in Nat
        /\ Overlap(p.slabs[i], lo, hi) # 0 <=> \E q \in lo..hi : On(p.slabs[i], q)
    BY <1>1, OverlapSome, OverlapGrows, hi <= hi DEF Slab
  <2>3. /\ f[i].amount = IF p.slabs[i].kind = "PER_UNIT"
                         THEN p.slabs[i].amount * Overlap(p.slabs[i], lo, hi) ELSE 0
        /\ g[i].amount = FlatIn(p, i, lo..hi) /\ h[i].amount = SlabAmount(p.slabs[i], lo, hi)
    BY DEF UnitRow, FlatRow, Weights
  <2> HIDE DEF f, g, h
  <2>4. g[i].amount \in Nat
    BY <2>2, <2>3 DEF FlatIn
  <2>5. CASE p.slabs[i].kind = "FLAT"
    BY <2>2, <2>3, <2>5 DEF FlatIn, SlabAmount
  <2>6. CASE p.slabs[i].kind = "PER_UNIT"
    <3>1. g[i].amount = 0 /\ f[i].amount = p.slabs[i].amount * Overlap(p.slabs[i], lo, hi)
      BY <2>3, <2>6 DEF FlatIn
    <3>2. CASE Overlap(p.slabs[i], lo, hi) = 0
      BY <2>2, <2>3, <3>1, <3>2 DEF SlabAmount
    <3>3. CASE Overlap(p.slabs[i], lo, hi) # 0
      <4>1. h[i].amount = p.slabs[i].amount * Overlap(p.slabs[i], lo, hi)
        BY <2>3, <2>6, <3>3 DEF SlabAmount
      <4> QED BY <2>1, <3>1, <4>1
    <3> QED BY <3>2, <3>3
  <2> QED BY <2>1, <2>2, <2>4, <2>5, <2>6
<1>3. Added(h, 1..n) = Added(f, 1..n) + Added(g, 1..n)
  <2> HIDE DEF f, g, h, n
  <2> QED BY <1>1, <1>2, AddedBoth
<1> QED BY <1>3, WalkIsSum, FlatAdded

(* The units are those of the positions, one after the other.              *)
LEMMA UnitsNext ==
  ASSUME NEW p, RatePlan(p), ValidRatePlan(p), NEW lo \in Nat, NEW h \in Nat,
         lo <= h + 1, h + 1 <= MaxLadderUnits
  PROVE  /\ PerUnitAt(p, h + 1) \in Nat
         /\ Added(UnitRow(p, lo, h + 1), 1..Len(p.slabs))
              = Added(UnitRow(p, lo, h), 1..Len(p.slabs)) + PerUnitAt(p, h + 1)
<1> DEFINE n == Len(p.slabs)
           s == p.slabs
           q == h + 1
           f == UnitRow(p, lo, h)
           d == [i \in 1..n |-> [amount |-> IF s[i].kind = "PER_UNIT" /\ On(s[i], q) THEN s[i].amount
                                            ELSE 0]]
           g == UnitRow(p, lo, q)
<1>1. /\ n \in Nat /\ q \in Nat
      /\ \A i \in 1..n : Slab(s[i]) /\ s[i].amount \in Nat /\ (s[i].to = None \/ s[i].to >= s[i].from)
  BY SlabsOf DEF Slab, ValidRatePlan
<1>2. ASSUME NEW i \in 1..n
      PROVE  f[i].amount \in Nat /\ d[i].amount \in Nat /\ g[i].amount = f[i].amount + d[i].amount
  <2>1. f[i].amount \in Nat
    BY UnitRowNat
  <2>2. Overlap(s[i], lo, h + 1) = Overlap(s[i], lo, h) + (IF On(s[i], h + 1) THEN 1 ELSE 0)
    BY <1>1, OverlapNext
  <2>3. PICK a \in Nat, x \in Nat : a = s[i].amount /\ x = Overlap(s[i], lo, h)
    BY <1>1, OverlapGrows, h <= h
  <2>4. /\ f[i].amount = IF s[i].kind = "PER_UNIT" THEN a * x ELSE 0
        /\ d[i].amount = IF s[i].kind = "PER_UNIT" /\ On(s[i], q) THEN a ELSE 0
        /\ g[i].amount = IF s[i].kind = "PER_UNIT" THEN a * Overlap(s[i], lo, q) ELSE 0
    BY <2>3 DEF UnitRow
  <2>5. a * (x + 1) = a * x + a /\ a * (x + 0) = a * x /\ a * x \in Nat
    OBVIOUS
  <2> HIDE DEF f, d, g
  <2> QED BY <2>1, <2>2, <2>3, <2>4, <2>5
<1>3. Added(g, 1..n) = Added(f, 1..n) + Added(d, 1..n)
  <2> HIDE DEF f, d, g, n
  <2> QED BY <1>1, <1>2, AddedBoth
<1>4. PICK j \in 0..n : \A i \in 1..n : On(s[i], q) <=> i = j
  BY <1>1, OneSlab
<1>5. /\ PerUnitAt(p, q) = IF j # 0 /\ s[j].kind = "PER_UNIT" THEN s[j].amount ELSE 0
      /\ PerUnitAt(p, q) \in Nat
  BY <1>1, <1>4, PerUnitIs
<1>6. Added(d, 1..n) = IF j = 0 THEN 0 ELSE d[j].amount
  <2>1. \A i \in 1..n : d[i].amount \in Nat /\ (i # j => d[i].amount = 0)
    BY <1>1, <1>4
  <2>2. j \in Nat /\ j <= n
    BY <1>1
  <2> HIDE DEF d, n
  <2> QED BY <1>1, <2>1, <2>2, AddedLone
<1>7. j # 0 => d[j].amount = IF s[j].kind = "PER_UNIT" THEN s[j].amount ELSE 0
  BY <1>1, <1>4
<1> HIDE DEF d, f, g
<1> QED BY <1>3, <1>5, <1>6, <1>7 DEF f, g

LEMMA PerUnitNat ==
  ASSUME NEW p, RatePlan(p), ValidRatePlan(p)
  PROVE  \A q \in Nat : PerUnitAt(p, q) \in Nat
<1> TAKE q \in Nat
<1>1. PICK j \in 0..Len(p.slabs) : \A i \in 1..Len(p.slabs) : On(p.slabs[i], q) <=> i = j
  BY OneSlab
<1> QED BY <1>1, PerUnitIs

LEMMA UnitsAdded ==
  ASSUME NEW p, RatePlan(p), ValidRatePlan(p), NEW lo \in Nat, lo # 0, NEW hi \in Nat,
         lo <= hi + 1, hi <= MaxLadderUnits
  PROVE  Added(UnitRow(p, lo, hi), 1..Len(p.slabs)) = Added(PositionRow(p), lo..hi)
<1> DEFINE n == Len(p.slabs)
           r == PositionRow(p)
           Same(h) == Added(UnitRow(p, lo, h), 1..n) = Added(r, lo..h)
           T == {h \in Nat : lo <= h + 1 /\ h <= hi => Same(h)}
<1>1. n \in Nat /\ \A i \in 1..n : Slab(p.slabs[i])
  BY SlabsOf
<1>2. ASSUME NEW h \in Nat, lo = h + 1 PROVE Same(h)
  <2> DEFINE f == UnitRow(p, lo, h)
  <2>1. \A i \in 1..n : f[i].amount = 0
    <3> TAKE i \in 1..n
    <3>1. Overlap(p.slabs[i], lo, h) = 0 /\ p.slabs[i].amount \in Nat
      BY <1>1, <1>2, OverlapNone DEF Slab
    <3> QED BY <3>1 DEF UnitRow
  <2>2. 0 \in Nat /\ 0 <= n /\ \A i \in 1..n : f[i].amount \in Nat /\ (i # 0 => f[i].amount = 0)
    BY <1>1, <2>1
  <2>3. Added(f, 1..n) = 0
    <3> HIDE DEF f, n
    <3> QED BY <1>1, <2>2, AddedLone
  <2>4. lo..h = {}
    BY <1>2
  <2> QED BY <2>3, <2>4, AddedEmpty
<1>3. ASSUME NEW h \in Nat, h + 1 <= hi, lo <= h + 1, Same(h) PROVE Same(h + 1)
  <2>1. /\ PerUnitAt(p, h + 1) \in Nat
        /\ Added(UnitRow(p, lo, h + 1), 1..n) = Added(UnitRow(p, lo, h), 1..n) + PerUnitAt(p, h + 1)
    <3>1. h + 1 <= MaxLadderUnits
      BY <1>3, PricingAssumption
    <3> QED BY <1>3, <3>1, UnitsNext
  <2>2. \A q \in lo..(h + 1) : q \in Nat /\ r[q].amount = PerUnitAt(p, q) /\ PerUnitAt(p, q) \in Nat
    <3> TAKE q \in lo..(h + 1)
    <3>1. q \in Nat
      OBVIOUS
    <3>3. PerUnitAt(p, q) \in Nat
      BY <3>1, PerUnitNat
    <3> QED BY <3>1, <3>3 DEF PositionRow
  <2> HIDE DEF r
  <2>3. Weighed(r, lo..(h + 1))
    BY <2>2 DEF Weighed
  <2>4. Added(r, lo..h) \in Nat /\ Added(r, lo..(h + 1)) = r[h + 1].amount + Added(r, lo..h)
    <3> HIDE DEF Same, T
    <3> QED BY <1>3, <2>3, AddedNext
  <2>5. r[h + 1].amount = PerUnitAt(p, h + 1)
    BY <1>3, <2>2
  <2> QED BY <1>3, <2>1, <2>4, <2>5
<1>4. T = Nat
  <2>1. T \in SUBSET Nat /\ 0 \in T
    <3>1. lo <= 0 + 1 => lo = 0 + 1
      OBVIOUS
    <3>2. lo <= 0 + 1 => Same(0)
      BY <1>2, <3>1
    <3> HIDE DEF Same
    <3> QED BY <3>2
  <2>2. ASSUME NEW h \in T PROVE h + 1 \in T
    <3>1. CASE lo = (h + 1) + 1
      <4>1. Same(h + 1)
        BY <1>2, <3>1, h + 1 \in Nat
      <4> HIDE DEF Same
      <4> QED BY <4>1
    <3>2. CASE lo # (h + 1) + 1
      <4>1. lo <= (h + 1) + 1 /\ h + 1 <= hi => lo <= h + 1 /\ h <= hi
        BY <3>2
      <4>2. lo <= (h + 1) + 1 /\ h + 1 <= hi => Same(h + 1)
        <5> HIDE DEF Same
        <5> QED BY <1>3, <4>1
      <4> HIDE DEF Same
      <4> QED BY <4>2
    <3> QED BY <3>1, <3>2
  <2> HIDE DEF T
  <2> QED BY <2>1, <2>2, NaturalsFrom
<1>5. hi \in T
  <2> HIDE DEF T
  <2> QED BY <1>4
<1>6. Same(hi)
  <2> HIDE DEF Same
  <2> QED BY <1>5
<1> QED BY <1>6

(* The walk over the slabs is the price read position by position.         *)
LEMMA WalkIsOwed ==
  ASSUME NEW p, RatePlan(p), ValidRatePlan(p), NEW lo \in Nat, lo # 0, NEW hi \in Nat,
         lo <= hi + 1, hi <= MaxLadderUnits
  PROVE  LadderWalk(p, lo, hi) = OwedByPosition(p, lo..hi)
<1>1. LadderWalk(p, lo, hi) = Added(UnitRow(p, lo, hi), 1..Len(p.slabs)) + FlatSum(p, lo..hi)
  BY WalkSplits
<1>2. Added(UnitRow(p, lo, hi), 1..Len(p.slabs)) = Added(PositionRow(p), lo..hi)
  BY UnitsAdded
<1>3. lo..hi \in SUBSET Nat
  OBVIOUS
<1>4. PositionSum(p, lo..hi) = Added(PositionRow(p), lo..hi)
  BY <1>3, PositionsAdded
<1> QED BY <1>1, <1>2, <1>4, OwedIs

LEMMA DivIs ==
  ASSUME NEW a \in Nat, NEW u \in Nat \ {0}, NEW k \in Nat, u * k <= a, a < u * k + u
  PROVE  a \div u = k
<1>1. PICK d \in Nat : d = a \div u /\ u * d <= a /\ a < u * d + u
  BY DivOf
<1>2. d + 1 <= k => u * (d + 1) <= u * k
  BY TimesGrows, d + 1 \in Nat
<1>3. k + 1 <= d => u * (k + 1) <= u * d
  BY TimesGrows, k + 1 \in Nat
<1>4. u * (d + 1) = u * d + u /\ u * (k + 1) = u * k + u
  OBVIOUS
<1>5. PICK x \in Nat, y \in Nat : x = u * d /\ y = u * k
  OBVIOUS
<1> QED BY <1>1, <1>2, <1>3, <1>4, <1>5

(* The days begun, counted one by one.                                     *)
LEMMA DaysBegun ==
  ASSUME NEW raw \in Nat
  PROVE  Cardinality({(m - 1) \div DayMinutes : m \in 1..raw} \cup {0})
           = Max({1, (raw + DayMinutes - 1) \div DayMinutes})
<1> DEFINE A == {(m - 1) \div DayMinutes : m \in 1..raw} \cup {0}
           c == (raw + DayMinutes - 1) \div DayMinutes
<1>1. PICK D \in Nat \ {0} : D = DayMinutes
  BY PricingAssumption
<1>2. CASE raw = 0
  <2>1. A = {0}
    BY <1>2
  <2>2. D - 1 \in Nat /\ D * 0 <= D - 1 /\ D - 1 < D * 0 + D /\ raw + DayMinutes - 1 = D - 1
    BY <1>1, <1>2
  <2>3. c = 0
    BY <1>1, <2>2, DivIs
  <2>4. Cardinality(A) = 1
    <3> HIDE DEF A
    <3> QED BY <2>1, FS_Singleton
  <2>5. Max({1, c}) = 1
    <3> HIDE DEF c
    <3> QED BY <2>3, MaxOf
  <2> QED BY <2>4, <2>5
<1>3. CASE raw # 0
  <2>1. raw - 1 \in Nat
    BY <1>3
  <2>2. PICK d \in Nat : d = (raw - 1) \div D /\ D * d <= raw - 1 /\ raw - 1 < D * d + D
    BY <1>1, <2>1, DivOf
  <2>3. c = d + 1
    <3>1. D * (d + 1) = D * d + D
      OBVIOUS
    <3>2. PICK x \in Nat : x = D * d
      OBVIOUS
    <3>3. raw + D - 1 \in Nat /\ D * (d + 1) <= raw + D - 1 /\ raw + D - 1 < D * (d + 1) + D
      BY <1>1, <2>2, <3>1, <3>2
    <3>4. (raw + D - 1) \div D = d + 1
      BY <1>1, <3>3, DivIs, d + 1 \in Nat
    <3> QED BY <1>1, <3>4
  <2>4. ASSUME NEW k \in 0..d PROVE k \in A
    <3>1. k \in Nat /\ D * k \in Nat /\ D * k <= D * d
      BY TimesGrows
    <3>2. PICK x \in Nat : x = D * k /\ x <= raw - 1
      BY <2>1, <2>2, <3>1
    <3>3. x + 1 \in 1..raw /\ (x + 1) - 1 = x /\ x < x + D
      BY <1>1, <2>1, <3>2
    <3>4. x \div D = k
      BY <1>1, <3>1, <3>2, <3>3, DivIs
    <3> QED BY <1>1, <3>3, <3>4
  <2>5. ASSUME NEW k \in A PROVE k \in 0..d
    <3>1. CASE k = 0
      BY <3>1
    <3>2. CASE k # 0
      <4>1. PICK m \in 1..raw : k = (m - 1) \div D
        BY <1>1, <3>2
      <4>2. m - 1 \in Nat /\ m - 1 <= raw - 1
        BY <4>1
      <4>3. (m - 1) \div D <= (raw - 1) \div D /\ (m - 1) \div D \in Nat
        BY <1>1, <2>1, <4>2, DivGrows, DivOf
      <4> QED BY <2>2, <4>1, <4>3
    <3> QED BY <3>1, <3>2
  <2>6. A = 0..d
    <3> HIDE DEF A
    <3> QED BY <2>4, <2>5
  <2>7. Cardinality(A) = d + 1
    <3>1. Cardinality(0..d) = d - 0 + 1
      BY FS_Interval, d \in Int, 0 \in Int, 0 <= d
    <3> HIDE DEF A
    <3> QED BY <2>6, <3>1
  <2>8. Max({1, c}) = d + 1
    <3> HIDE DEF c
    <3> QED BY <2>3, MaxOf, 1 \in Int, d + 1 \in Int
  <2> QED BY <2>7, <2>8
<1> QED BY <1>2, <1>3

------------------------------------------------------------------------------
(* What a stored calculation charges                                       *)

LEMMA DivBelow ==
  ASSUME NEW a \in Nat, NEW u \in Nat \ {0}, NEW k \in Nat, a < u * k
  PROVE  a \div u < k
<1>1. PICK d \in Nat : d = a \div u /\ u * d <= a
  BY DivOf
<1>2. k <= d => u * k <= u * d
  BY TimesGrows
<1>3. PICK x \in Nat, y \in Nat : x = u * d /\ y = u * k
  OBVIOUS
<1> QED BY <1>1, <1>2, <1>3

(* A stay has no more units than minutes begun, whatever the unit.         *)
LEMMA UnitsBound ==
  ASSUME NEW p, RatePlan(p), NEW e \in Nat, NEW x \in Nat, e <= x, x - e < MaxLadderUnits
  PROVE  BillableUnits(p, e, x) \in Nat /\ BillableUnits(p, e, x) <= MaxLadderUnits
<1>0. BillableUnits(p, e, x) \in Nat
  BY UnitsGrow, x <= x
<1>1. PICK M \in Nat \ {0} : M = MaxLadderUnits
  BY PricingAssumption
<1>2. PICK a \in Nat : a = x - e /\ a + 1 <= M
  BY <1>1
<1>3. CASE p.unit = "CALENDAR_DAY"
  <2>1. PICK D \in Nat \ {0}, Z \in Nat : D = DayMinutes /\ Z = ZoneOffset
    BY PricingAssumption
  <2>2. PICK d \in Nat : d = DateOf(e) /\ D * d <= e + Z /\ e + Z < D * d + D
    BY <2>1, DivOf, e + Z \in Nat DEF DateOf
  <2>3. DateOf(x) \in Nat /\ DateOf(x) = (x + Z) \div D /\ x + Z \in Nat
    BY <2>1, DivOf, x + Z \in Nat DEF DateOf
  <2>4. x + Z < D * (d + a + 1)
    <3>1. D * (d + a + 1) = D * d + D * a + D
      OBVIOUS
    <3>2. a <= D * a
      <4>1. 1 <= D /\ a * 1 <= a * D
        BY TimesGrows, 1 \in Nat, D \in Nat, 1 <= D
      <4> QED BY <4>1
    <3>3. PICK v \in Nat, w \in Nat : v = D * d /\ w = D * a
      OBVIOUS
    <3> QED BY <1>2, <2>2, <3>1, <3>2, <3>3
  <2>5. DateOf(x) < d + a + 1
    BY <2>3, <2>4, DivBelow, d + a + 1 \in Nat
  <2>6. BillableUnits(p, e, x) = Max({1, DateOf(x) - DateOf(e) + 1})
    BY <1>3 DEF BillableUnits
  <2> DEFINE i == DateOf(x) - DateOf(e) + 1
  <2>7. i \in Int /\ i <= a + 1
    BY <2>2, <2>3, <2>5
  <2> HIDE DEF i
  <2>8. Max({1, i}) = IF 1 >= i THEN 1 ELSE i
    BY <2>7, MaxOf
  <2> QED BY <1>0, <1>1, <1>2, <2>6, <2>7, <2>8 DEF i
<1>4. CASE p.unit # "CALENDAR_DAY"
  <2>1. PICK u \in Nat \ {0} : u = UnitMinutes[p.unit]
    BY <1>4, PricingAssumption DEF RatePlan, UnitMinutes
  <2>2. a <= u * a
    <3>1. a * 1 <= a * u
      BY TimesGrows, 1 \in Nat, u \in Nat, 1 <= u
    <3> QED BY <3>1
  <2>3. u * (a + 1) = u * a + u /\ (2 * u) * (a + 1) = 2 * (u * a) + 2 * u /\ a + 1 \in Nat
    OBVIOUS
  <2>4. PICK v \in Nat : v = u * a
    OBVIOUS
  <2>5. CASE p.rounding = "CEIL"
    <3>1. a + u - 1 \in Nat /\ a + u - 1 < u * (a + 1)
      BY <2>2, <2>3, <2>4
    <3>2. BillableUnits(p, e, x) = (a + u - 1) \div u
      BY <1>2, <1>4, <2>1, <2>5 DEF BillableUnits
    <3>3. (a + u - 1) \div u < a + 1
      BY <2>3, <3>1, DivBelow
    <3> QED BY <1>0, <1>1, <1>2, <3>2, <3>3
  <2>6. CASE p.rounding = "FLOOR"
    <3>1. a < u * (a + 1)
      BY <2>2, <2>3, <2>4
    <3>2. BillableUnits(p, e, x) = a \div u
      BY <1>2, <1>4, <2>1, <2>6 DEF BillableUnits
    <3>3. a \div u < a + 1
      BY <2>3, <3>1, DivBelow
    <3> QED BY <1>0, <1>1, <1>2, <3>2, <3>3
  <2>7. CASE p.rounding = "NEAREST"
    <3>1. 2 * a + u \in Nat /\ 2 * u \in Nat \ {0} /\ 2 * a + u < (2 * u) * (a + 1)
      BY <2>2, <2>3, <2>4
    <3>2. BillableUnits(p, e, x) = (2 * a + u) \div (2 * u)
      BY <1>2, <1>4, <2>1, <2>7 DEF BillableUnits
    <3>3. (2 * a + u) \div (2 * u) < a + 1
      BY <2>3, <3>1, DivBelow
    <3> QED BY <1>0, <1>1, <1>2, <3>2, <3>3
  <2> QED BY <2>5, <2>6, <2>7 DEF RatePlan
<1> QED BY <1>3, <1>4

(* What the contract says of so many minutes and so many units.            *)
OwedFor(p, raw, units) ==
  LET positions == ChargedPositions(p, units)
      days == Cardinality({(m - 1) \div DayMinutes : m \in 1..raw} \cup {0})
      owed == OwedByPosition(p, positions)
      capped == IF p.cap # None /\ owed > days * p.cap THEN days * p.cap ELSE owed
  IN IF (p.grace > 0 /\ raw <= p.grace) \/ positions = {} THEN 0
     ELSE IF p.minimum # None /\ capped < p.minimum THEN p.minimum ELSE capped

LEMMA OwedAfterCap ==
  ASSUME NEW p, RatePlan(p), NEW raw \in Nat, NEW units, NEW owed \in Nat,
         owed = OwedByPosition(p, ChargedPositions(p, units)),
         ChargedPositions(p, units) # {}, ~(p.grace > 0 /\ raw <= p.grace)
  PROVE  OwedFor(p, raw, units) = ToppedUp(p, Capped(p, raw, owed))
<1> DEFINE days == Cardinality({(m - 1) \div DayMinutes : m \in 1..raw} \cup {0})
           c == (raw + DayMinutes - 1) \div DayMinutes
           capped == IF p.cap # None /\ owed > days * p.cap THEN days * p.cap ELSE owed
<1>1. PICK a \in Nat : a = Max({1, c})
  <2>1. raw + DayMinutes - 1 \in Nat /\ DayMinutes \in Nat \ {0}
    BY PricingAssumption
  <2>2. c \in Nat
    BY <2>1, DivOf
  <2> HIDE DEF c
  <2>3. Max({1, c}) = IF 1 >= c THEN 1 ELSE c
    BY <2>2, MaxOf
  <2> QED BY <2>2, <2>3
<1>2. days = a
  BY <1>1, DaysBegun
<1>3. OwedFor(p, raw, units)
        = IF p.minimum # None /\ capped < p.minimum THEN p.minimum ELSE capped
  BY DEF OwedFor
<1> HIDE DEF days
<1>4. Capped(p, raw, owed) = capped /\ capped \in Nat
  <2>1. CASE p.cap = None
    BY <2>1 DEF Capped
  <2>2. CASE p.cap # None
    <3>1. PICK m \in Nat : m = p.cap * a /\ m = a * p.cap
      BY <2>2 DEF RatePlan
    <3>2. Capped(p, raw, owed) = Min({owed, m})
      BY <1>1, <2>2, <3>1 DEF Capped
    <3>3. Min({owed, m}) = IF owed <= m THEN owed ELSE m
      BY MinOf
    <3> QED BY <1>2, <2>2, <3>1, <3>2, <3>3
  <2> QED BY <2>1, <2>2
<1> HIDE DEF capped
<1>5. ToppedUp(p, capped) = IF p.minimum # None /\ capped < p.minimum THEN p.minimum ELSE capped
  <2>1. CASE p.minimum = None
    BY <2>1 DEF ToppedUp
  <2>2. CASE p.minimum # None
    <3>1. PICK m \in Nat : m = p.minimum
      BY <2>2 DEF RatePlan
    <3>2. Max({capped, m}) = IF capped >= m THEN capped ELSE m
      BY <1>4, MaxOf
    <3> QED BY <1>4, <2>2, <3>1, <3>2 DEF ToppedUp
  <2> QED BY <2>1, <2>2
<1> QED BY <1>3, <1>4, <1>5

LEMMA ByPosition ==
  ASSUME NEW p, RatePlan(p), NEW e \in Nat, NEW x \in Nat, BillableUnits(p, e, x) <= MaxLadderUnits,
         Calculate(p, e, x) # Unpriced
  PROVE  Calculate(p, e, x).subtotal = OwedFor(p, x - e, Calculate(p, e, x).units)
<1> DEFINE u == BillableUnits(p, e, x)
           f == Min({p.free, u})
           lo == LadderStart(p, f)
           hi == LadderEnd(p, u, f)
           s == Subtotal(p, x - e, u, f)
<1>1. e <= x /\ x - e \in Nat
  BY PricedOr
<1>2. u \in Nat /\ u <= MaxLadderUnits /\ p.free \in Nat
  BY <1>1, UnitsGrow, x <= x DEF RatePlan
<1>9. Calculate(p, e, x) =
        IF ~ValidRatePlan(p) \/ x < e THEN Unpriced
        ELSE IF p.grace > 0 /\ x - e <= p.grace THEN Priced(0, 0, 0, 0)
        ELSE IF f = u THEN Priced(u, f, 0, 0)
        ELSE IF \A i \in DOMAIN p.slabs : Overlap(p.slabs[i], lo, hi) = 0 THEN Unpriced
        ELSE Priced(u, f, s, TaxTotal(p, s))
  BY CalculateIs
<1>3. /\ ValidRatePlan(p)
      /\ \/ p.grace > 0 /\ x - e <= p.grace /\ Calculate(p, e, x) = Priced(0, 0, 0, 0)
         \/ f = u /\ Calculate(p, e, x) = Priced(u, f, 0, 0)
         \/ /\ ~(p.grace > 0 /\ x - e <= p.grace) /\ f # u
            /\ Calculate(p, e, x) = Priced(u, f, s, TaxTotal(p, s))
  <2> HIDE DEF u, f, lo, hi, s
  <2> QED BY <1>9
<1> HIDE DEF u
<1>4. f = IF p.free <= u THEN p.free ELSE u
  BY <1>2, MinOf
<1> HIDE DEF f
<1>5. ChargedPositions(p, u) = IF p.policy = "CONSUME_LADDER" THEN (p.free + 1)..u ELSE 1..(u - p.free)
  BY DEF ChargedPositions
<1>6. CASE p.grace > 0 /\ x - e <= p.grace /\ Calculate(p, e, x) = Priced(0, 0, 0, 0)
  <2>1. Calculate(p, e, x).subtotal = 0
    BY <1>6 DEF Priced
  <2> QED BY <1>6, <2>1 DEF OwedFor
<1>7. CASE f = u /\ Calculate(p, e, x) = Priced(u, f, 0, 0)
  <2>1. Calculate(p, e, x).subtotal = 0 /\ Calculate(p, e, x).units = u
    BY <1>7 DEF Priced
  <2>2. u <= p.free
    BY <1>2, <1>4, <1>7
  <2>3. ChargedPositions(p, u) = {}
    BY <1>2, <1>5, <2>2
  <2> QED BY <2>1, <2>3 DEF OwedFor
<1>8. CASE /\ ~(p.grace > 0 /\ x - e <= p.grace) /\ f # u
           /\ Calculate(p, e, x) = Priced(u, f, s, TaxTotal(p, s))
  <2>1. Calculate(p, e, x).subtotal = s /\ Calculate(p, e, x).units = u
    BY <1>8 DEF Priced
  <2>2. f = p.free /\ p.free < u
    BY <1>2, <1>4, <1>8
  <2>3. /\ lo \in Nat /\ lo # 0 /\ hi \in Nat /\ lo <= hi /\ lo <= hi + 1 /\ hi <= MaxLadderUnits
        /\ ChargedPositions(p, u) = lo..hi /\ lo..hi # {}
    <3>1. MaxLadderUnits \in Nat
      BY PricingAssumption
    <3>2. CASE p.policy = "CONSUME_LADDER"
      <4>1. lo = p.free + 1 /\ hi = u /\ ChargedPositions(p, u) = (p.free + 1)..u
        BY <1>5, <2>2, <3>2 DEF LadderStart, LadderEnd
      <4> HIDE DEF lo, hi
      <4>2. lo \in Nat /\ lo # 0 /\ hi \in Nat /\ lo <= hi /\ lo <= hi + 1 /\ hi <= MaxLadderUnits
        BY <1>2, <2>2, <3>1, <4>1
      <4>3. lo \in lo..hi
        BY <4>2
      <4> QED BY <4>1, <4>2, <4>3
    <3>3. CASE p.policy # "CONSUME_LADDER"
      <4>1. lo = 1 /\ hi = u - p.free /\ ChargedPositions(p, u) = 1..(u - p.free)
        BY <1>5, <2>2, <3>3 DEF LadderStart, LadderEnd
      <4> HIDE DEF lo, hi
      <4>2. lo \in Nat /\ lo # 0 /\ hi \in Nat /\ lo <= hi /\ lo <= hi + 1 /\ hi <= MaxLadderUnits
        BY <1>2, <2>2, <3>1, <4>1
      <4>3. lo \in lo..hi
        BY <4>2
      <4> QED BY <4>1, <4>2, <4>3
    <3> QED BY <3>2, <3>3
  <2> HIDE DEF lo, hi
  <2> DEFINE w == LadderWalk(p, lo, hi)
  <2>4. w \in Nat /\ w = OwedByPosition(p, ChargedPositions(p, u))
    BY <1>3, <2>3, WalkGrows, WalkIsOwed, hi <= hi
  <2>5. s = ToppedUp(p, Capped(p, x - e, w))
    BY DEF Subtotal, lo, hi
  <2> HIDE DEF w, s
  <2>6. OwedFor(p, x - e, u) = ToppedUp(p, Capped(p, x - e, w))
    BY <1>1, <1>8, <2>3, <2>4, OwedAfterCap
  <2> QED BY <2>1, <2>5, <2>6
<1> QED BY <1>3, <1>6, <1>7, <1>8

(* Every instant a calculation is made for is the entry or a moment after  *)
(* it at which something happens.                                          *)
Instants(entry) == {entry + m : m \in Moments \cup {0}}

Ages ==
  /\ stay.entry \in Entries /\ now \in Instants(stay.entry)
  /\ stay.exit \in Instants(stay.entry) \cup {None}
  /\ \A i \in DOMAIN charges : charges[i].asOf \in Instants(stay.entry)
  /\ \A w \in Writers :
       /\ tx[w].kind \in {"ACCRUAL", "FINAL"} => tx[w].asOf \in Instants(stay.entry)
       /\ tx[w].kind \in {"ACCRUAL", "FINAL", "ESTIMATE"} /\ tx[w].plan # None =>
            tx[w].at \in Instants(stay.entry)

LEMMA AgesAdd ==
  ASSUME ChargesInv, Ages, NEW type, NEW p, NEW x, x \in Instants(stay.entry),
         NEW s, s = charges \/ s = Superseding(Row(type, p, x))
  PROVE  \A i \in DOMAIN s : s[i].asOf \in Instants(stay.entry)
<1>1. CASE s = charges
  BY <1>1 DEF Ages
<1>2. CASE s = Superseding(Row(type, p, x))
  <2> DEFINE n == Len(charges)
             row == Row(type, p, x)
  <2>1. n \in Nat /\ DOMAIN charges = 1..n /\ \A i \in DOMAIN charges : Stored(charges[i], book, stay)
    BY DEF ChargesInv
  <2> HIDE DEF n, row
  <2>2. /\ DOMAIN s = 1..(n + 1) /\ s[n + 1] = row
        /\ \A i \in DOMAIN charges : s[i] = [charges[i] EXCEPT !.current = FALSE]
    BY <1>2, <2>1, Superseded DEF n, row
  <2>3. ASSUME NEW i \in 1..n PROVE s[i].asOf \in Instants(stay.entry)
    <3>1. Stored(charges[i], book, stay) /\ charges[i].asOf \in Instants(stay.entry)
      BY <2>1 DEF Ages
    <3>2. s[i].asOf = charges[i].asOf
      BY <2>1, <2>2, <3>1 DEF Stored
    <3> QED BY <3>1, <3>2
  <2>4. row.asOf = x
    BY DEF Row, row
  <2>5. \A i \in 1..(n + 1) : i = n + 1 \/ i \in 1..n
    BY <2>1
  <2> QED BY <2>2, <2>3, <2>4, <2>5
<1> QED BY <1>1, <1>2

LEMMA AgesBegin ==
  ASSUME ChargesInit
  PROVE  Ages
<1>1. /\ now \in Nat /\ now \in Entries /\ stay.entry = now /\ stay.exit = None
      /\ DOMAIN charges = {} /\ \A w \in Writers : tx[w] = NoWork
  BY ChargesAssumption DEF ChargesInit
<1>2. now \in Instants(now)
  BY <1>1, now = now + 0 DEF Instants
<1> QED BY <1>1, <1>2 DEF Ages, NoWork

LEMMA AgesStep ==
  ASSUME ChargesInv, Ages, [ChargesNext]_chargesVars
  PROVE  Ages'
<1> DEFINE reach == Instants(stay.entry)
           Fresh(t) == /\ t.kind \in {"ACCRUAL", "FINAL"} => t.asOf \in reach
                       /\ t.kind \in {"ACCRUAL", "FINAL", "ESTIMATE"} /\ t.plan # None => t.at \in reach
<1>1. /\ now \in Nat /\ now \in reach /\ stay.entry \in Entries /\ stay.entry \in Nat
      /\ stay.exit \in reach \cup {None}
      /\ \A w \in Writers : Fresh(tx[w]) /\ Carried(tx[w], book, stay)
  BY DEF ChargesInv, Ages
<1>2. ASSUME NEW w \in Writers, NEW t, tx' = [tx EXCEPT ![w] = t], Fresh(t)
      PROVE  \A v \in Writers : Fresh(tx'[v])
  BY <1>1, <1>2 DEF ChargesInv
<1>3. Fresh(NoWork)
  BY DEF NoWork
<1>4. ASSUME NEW w \in Writers, NEW rec, BeginWork(w, rec), Fresh(rec) PROVE Ages'
  <2>1. \A v \in Writers : Fresh(tx'[v])
    BY <1>2, <1>4 DEF BeginWork
  <2> QED BY <1>4, <2>1 DEF BeginWork, Ages
<1>5. ASSUME NEW w \in Writers, tx' = [tx EXCEPT ![w] = NoWork], now' = now,
             stay'.entry = stay.entry, stay'.exit \in reach \cup {None},
             NEW type, NEW p, NEW x, x \in reach,
             charges' = charges \/ charges' = Superseding(Row(type, p, x))
      PROVE  Ages'
  <2>1. \A v \in Writers : Fresh(tx'[v])
    BY <1>2, <1>3, <1>5
  <2>2. \A i \in DOMAIN charges' : charges'[i].asOf \in reach
    BY <1>5, AgesAdd
  <2> QED BY <1>1, <1>5, <2>1, <2>2 DEF Ages
<1>6. ASSUME NEW t \in Nat, t \in reach PROVE AsOf(t) \in Nat /\ AsOf(t) \in reach
  BY <1>1, <1>6 DEF AsOf, ChargesInv
<1>7. CASE UNCHANGED chargesVars
  BY <1>7 DEF chargesVars, Ages
<1>8. CASE Tick
  <2>1. PICK m \in Moments : now' = stay.entry + m
    BY <1>8 DEF Tick
  <2>2. now' \in reach
    BY <2>1 DEF Instants
  <2> QED BY <1>8, <2>2 DEF Tick, Ages
<1>9. CASE MatchHolder
  BY <1>9 DEF MatchHolder, Ages
<1>10. ASSUME NEW w \in Writers, ListForAccrual(w) PROVE Ages'
  <2> DEFINE rec == [kind |-> "ACCRUAL", asOf |-> now, plan |-> None, at |-> None]
  <2>1. Fresh(rec) /\ BeginWork(w, rec)
    BY <1>1, <1>10 DEF ListForAccrual
  <2> HIDE DEF rec, Fresh
  <2> QED BY <1>4, <2>1
<1>11. ASSUME NEW w \in Writers, RequestRelease(w) PROVE Ages'
  <2> DEFINE rec == [kind |-> "ESTIMATE", plan |-> stay.plan, at |-> now]
  <2>1. Fresh(rec) /\ BeginWork(w, rec)
    BY <1>1, <1>11 DEF RequestRelease
  <2> HIDE DEF rec, Fresh
  <2> QED BY <1>4, <2>1
<1>12. ASSUME NEW w \in Writers, AttachRate(w) PROVE Ages'
  <2> DEFINE rec == [kind |-> "ATTACH", plan |-> PlanToAttach,
                     financier |-> IF stay.financier # None THEN stay.financier ELSE holder]
  <2>1. Fresh(rec) /\ BeginWork(w, rec)
    BY <1>12 DEF AttachRate
  <2> HIDE DEF rec, Fresh
  <2> QED BY <1>4, <2>1
<1>13. ASSUME NEW w \in Writers, BeginClose(w) PROVE Ages'
  <2>1. PICK at \in {stay.entry + m : m \in Moments} \cap (0..now) :
          BeginWork(w, [kind |-> "FINAL", asOf |-> at, version |-> stay.version,
                        plan |-> None, at |-> None])
    BY <1>13 DEF BeginClose
  <2> DEFINE rec == [kind |-> "FINAL", asOf |-> at, version |-> stay.version,
                     plan |-> None, at |-> None]
  <2>2. Fresh(rec)
    BY <2>1 DEF Instants
  <2> HIDE DEF Fresh
  <2> QED BY <1>4, <2>1, <2>2
<1>14. ASSUME NEW w \in Writers, Price(w) PROVE Ages'
  <2> DEFINE at == AsOf(tx[w].asOf)
             t == [tx[w] EXCEPT !.plan = stay.plan, !.at = at]
             priced == stay.plan # None /\ Calculate(stay.plan, stay.entry, at) # Unpriced
             r == IF priced THEN t ELSE NoWork
  <2>1. tx' = [tx EXCEPT ![w] = r] /\ UNCHANGED <<book, now, stay, holder, charges, bill>>
    BY <1>14 DEF Price
  <2>2. Carried(tx[w], book, stay) /\ tx[w].asOf \in Nat /\ tx[w].kind \in {"ACCRUAL", "FINAL"}
    BY <1>1, <1>14 DEF Carried, Price, NoWork
  <2>3. at \in reach /\ tx[w].asOf \in reach
    <3>1. tx[w].asOf \in reach
      BY <1>1, <2>2
    <3> QED BY <1>6, <2>2, <3>1
  <2>4. Fresh(t)
    <3>1. {"kind", "asOf", "plan", "at"} \subseteq DOMAIN tx[w]
      BY <2>2 DEF Carried, NoWork
    <3>2. t.kind = tx[w].kind /\ t.asOf = tx[w].asOf /\ t.at = at
      BY <3>1
    <3> HIDE DEF t, at
    <3> QED BY <2>3, <3>2
  <2>5. Fresh(r)
    <3> HIDE DEF t, Fresh
    <3> QED BY <1>3, <2>4
  <2> HIDE DEF r
  <2>6. \A v \in Writers : Fresh(tx'[v])
    <3> HIDE DEF Fresh
    <3> QED BY <1>2, <2>1, <2>5
  <2> QED BY <2>1, <2>6 DEF Ages
<1>15. ASSUME NEW w \in Writers, Store(w) PROVE Ages'
  <2>1. tx[w].at \in reach
    BY <1>1, <1>15 DEF Store
  <2>2. charges' = charges \/ charges' = Superseding(Row(tx[w].kind, tx[w].plan, tx[w].at))
    BY <1>15 DEF Store, WithCalculation
  <2> HIDE DEF reach
  <2>3. /\ tx' = [tx EXCEPT ![w] = NoWork] /\ now' = now
        /\ stay'.entry = stay.entry /\ stay'.exit = stay.exit
    BY <1>15 DEF Store
  <2> QED BY <1>1, <1>5, <2>1, <2>2, <2>3
<1>16. ASSUME NEW w \in Writers, Attach(w) PROVE Ages'
  <2>1. AsOf(now) \in reach
    BY <1>1, <1>6
  <2>2. charges' = charges \/ charges' = Superseding(Row("ACCRUAL", tx[w].plan, AsOf(now)))
    BY <1>16 DEF Attach, WithCalculation
  <2>3. /\ tx' = [tx EXCEPT ![w] = NoWork] /\ now' = now
        /\ stay'.entry = stay.entry /\ stay'.exit = stay.exit
    BY <1>16 DEF Attach, ChargesInv
  <2> HIDE DEF reach
  <2> QED BY <1>1, <1>5, <2>1, <2>2, <2>3
<1>17. ASSUME NEW w \in Writers, Close(w) PROVE Ages'
  <2>1. tx[w].at \in reach
    BY <1>1, <1>17 DEF Close
  <2>2. charges' = Superseding(Row("FINAL", tx[w].plan, tx[w].at))
    BY <1>17 DEF Close
  <2>3. /\ tx' = [tx EXCEPT ![w] = NoWork] /\ now' = now
        /\ stay'.entry = stay.entry /\ stay'.exit = tx[w].asOf
    BY <1>17 DEF Close, ChargesInv
  <2>4. stay'.exit \in reach
    BY <1>1, <1>17, <2>3 DEF Close
  <2> HIDE DEF reach
  <2> QED BY <1>5, <2>1, <2>2, <2>3, <2>4
<1>18. ASSUME NEW w \in Writers, RollBack(w) PROVE Ages'
  <2>1. \A v \in Writers : Fresh(tx'[v])
    BY <1>2, <1>3, <1>18 DEF RollBack
  <2> QED BY <1>18, <2>1 DEF RollBack, Ages
<1> QED
  BY <1>7, <1>8, <1>9, <1>10, <1>11, <1>12, <1>13, <1>14, <1>15, <1>16, <1>17, <1>18 DEF ChargesNext

(* ChargedByPosition: every stored calculation charges what the contract   *)
(* says position by position, for every plan the database can hold, as     *)
(* long as no stay outlasts the ladder: an open-ended slab ends at         *)
(* MAX_LADDER_UNITS, beyond which the engine charges nothing more.         *)
THEOREM ContractIsCharged ==
  ASSUME \A b \in Books : \A p \in b : \A e \in Entries, m \in Moments :
           BillableUnits(p, e, e + m) <= MaxLadderUnits
  PROVE  ChargesSpec => []ChargedByPosition
<1>1. ChargesInv /\ Ages => ChargedByPosition
  <2> SUFFICES ASSUME ChargesInv, Ages, NEW i \in DOMAIN charges
               PROVE  charges[i].sum.subtotal
                        = OwedFor(charges[i].plan, charges[i].asOf - stay.entry, charges[i].sum.units)
    BY DEF ChargedByPosition, OwedFor
  <2>1. Stored(charges[i], book, stay) /\ book \in Books /\ stay.entry \in Entries /\ stay.entry \in Nat
    BY ChargesAssumption DEF ChargesInv, Ages
  <2>2. charges[i].plan \in book /\ RatePlan(charges[i].plan)
    BY <2>1, BookPlans DEF Stored
  <2>3. /\ charges[i].asOf \in Nat
        /\ charges[i].sum = Calculate(charges[i].plan, stay.entry, charges[i].asOf)
        /\ charges[i].sum # Unpriced
    BY <2>1 DEF Stored
  <2>4. PICK m \in Moments \cup {0} : charges[i].asOf = stay.entry + m
    BY DEF Ages, Instants
  <2>5. BillableUnits(charges[i].plan, stay.entry, stay.entry + m) <= MaxLadderUnits
    <3>1. CASE m \in Moments
      BY <2>1, <2>2, <3>1
    <3>2. CASE m = 0
      <4>1. MaxLadderUnits \in Nat \ {0}
        BY PricingAssumption
      <4>2. stay.entry <= stay.entry /\ stay.entry - stay.entry < MaxLadderUnits /\ stay.entry + m = stay.entry
        BY <2>1, <3>2, <4>1
      <4> QED BY <2>1, <2>2, <4>2, UnitsBound
    <3> QED BY <3>1, <3>2
  <2> QED BY <2>1, <2>2, <2>3, <2>4, <2>5, ByPosition
<1>2. ChargesInit => Ages
  BY AgesBegin
<1>3. ChargesInv /\ Ages /\ [ChargesNext]_chargesVars => Ages'
  BY AgesStep
<1> QED BY <1>1, <1>2, <1>3, ChargesBegins, ChargesStep, PTL DEF ChargesSpec

(* In particular, of every stay that is shorter, in minutes, than the      *)
(* ladder is long: a unit is a minute at least.                            *)
COROLLARY ShortStaysAreCharged ==
  ASSUME \A m \in Moments : m < MaxLadderUnits
  PROVE  ChargesSpec => []ChargedByPosition
<1>1. ASSUME NEW b \in Books, NEW p \in b, NEW e \in Entries, NEW m \in Moments
      PROVE  BillableUnits(p, e, e + m) <= MaxLadderUnits
  <2>1. e \in Nat /\ m \in Nat /\ RatePlan(p)
    BY ChargesAssumption
  <2>2. e + m \in Nat /\ e <= e + m /\ (e + m) - e < MaxLadderUnits
    BY <2>1
  <2> QED BY <2>1, <2>2, UnitsBound
<1> QED BY <1>1, ContractIsCharged
===============================================================================
