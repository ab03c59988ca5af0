-------------------------------- MODULE Ledger --------------------------------
(***************************************************************************)
(* Invoices, credit notes, payments and gateway callbacks: the handlers of *)
(* InvoiceService and PaymentService that change a row.                    *)
(*                                                                         *)
(* A handler that writes under the version it read (issue, voidInvoice)    *)
(* behaves as if it ran at its commit and is one action.  applyPayment     *)
(* reads the invoice and writes back an absolute amountPaid and status     *)
(* without a version; a callback reads the payment, then updates it, which *)
(* locks its row until the end, and only then reads the invoice.  These    *)
(* reads are steps of their own.  The gateway simulator is the provider:   *)
(* an intent is always PENDING until a callback decides it.                *)
(*                                                                         *)
(* An invoice and its credit note are named by the release they bill, a    *)
(* payment by its idempotency key and a callback by the provider's event   *)
(* id: each is unique in its table.  No endpoint validates, sends or       *)
(* cancels an invoice.  Amounts are integral.                              *)
(***************************************************************************)
EXTENDS Lifecycles, Integers, FiniteSetsExt

CONSTANTS
  Releases,   \* completed releases: each is billed by one invoice
  Payments,   \* idempotency keys of payments
  Events,     \* event ids that the gateway may send
  Outcomes,   \* what they may say of a payment
  Totals,     \* what a stay may cost
  Amounts,    \* what may be paid at once
  Clients,    \* requests in progress
  Nobody      \* stands for a NULL foreign key

ASSUME MoneyAssumption ==
  /\ Totals \subseteq Nat             \* invoices_amounts_sign
  /\ Amounts \subseteq Nat \ {0}      \* payments_amount_positive

ASSUME NobodyAssumption == Nobody \notin Releases \cup Payments \cup Events

VARIABLES
  invoice,    \* parking invoices: status, total, amountPaid, number
  note,       \* the credit note of each invoice: status, number
  series,     \* invoice_series.nextSequence of the two series
  payment,    \* payments: status, invoice, amount, and how it was recorded
  intents,    \* the payments the gateway has been told of
  event,      \* payment_webhook_events: status, and what the callback says
  txn,        \* what the request of each client has read
  raced       \* history: the invoices of which a read has gone stale

rows == <<invoice, note, series, payment, intents, event>>
vars == <<rows, txn, raced>>

Absent == "ABSENT"          \* a row that has not been inserted
Idle == [op |-> "idle"]

(* What a callback may say of a payment.  DIFFERS carries another amount.   *)
Outcome == {"SUCCESS", "FAILED", "REFUNDED", "PENDING", "DIFFERS"}

ASSUME OutcomesAssumption == Outcomes \subseteq Outcome

Txn ==
  {Idle}
    \cup [op: {"generate"}, invoice: Releases, total: Totals, number: Nat]
    \cup [op: {"initiate"}, payment: Payments, invoice: Releases, amount: Amounts]
    \cup [op: {"callback", "apply"}, event: Events]
    \cup [op: {"credit"}, payment: Payments, invoice: Releases, amount: Amounts,
          paid: Nat, event: Events \cup {Nobody}]

TypeOK ==
  /\ invoice \in [Releases -> [status: InvoiceStatus \cup {Absent}, total: Nat,
                               paid: Nat, number: Nat]]
  /\ note \in [Releases -> [status: InvoiceStatus \cup {Absent}, number: Nat]]
  /\ series \in [parking: Nat, credit: Nat]
  /\ payment \in [Payments -> [status: PaymentStatus \cup {Absent},
                               invoice: Releases \cup {Nobody}, amount: Nat,
                               via: {"hand", "gateway"}]]
  /\ intents \subseteq Payments
  /\ event \in [Events -> [status: {Absent, "STORED", "PROCESSED"},
                           payment: Payments \cup {Nobody}, outcome: Outcome]]
  /\ txn \in [Clients -> Txn]
  /\ raced \subseteq Releases

Init ==
  /\ invoice = [i \in Releases |-> [status |-> Absent, total |-> 0, paid |-> 0,
                                    number |-> 0]]
  /\ note = [i \in Releases |-> [status |-> Absent, number |-> 0]]
  /\ series = [parking |-> 1, credit |-> 1]
  /\ payment = [p \in Payments |-> [status |-> Absent, invoice |-> Nobody, amount |-> 0,
                                    via |-> "gateway"]]
  /\ intents = {}
  /\ event = [e \in Events |-> [status |-> Absent, payment |-> Nobody,
                                outcome |-> "PENDING"]]
  /\ txn = [c \in Clients |-> Idle]
  /\ raced = {}

Begin(c, t) ==
  /\ txn[c] = Idle
  /\ txn' = [txn EXCEPT ![c] = t]

Finish(c) == txn' = [txn EXCEPT ![c] = Idle]

------------------------------------------------------------------------------
(* Invoices                                                                *)

(* InvoiceService.generateForSession inside completeRelease: allocateNumber *)
(* locks the row of the series (SELECT ... FOR UPDATE) until the commit.    *)
BeginGenerate_Burns(c, i, total) ==   \* mutant: the number is taken at once
  /\ invoice[i].status = Absent
  /\ \A d \in Clients : txn[d].op # "generate"
  /\ Begin(c, [op |-> "generate", invoice |-> i, total |-> total,
               number |-> series.parking])
  /\ series' = [series EXCEPT !.parking = @ + 1]
  /\ UNCHANGED <<invoice, note, payment, intents, event>>

BeginGenerate(c, i, total) ==
  /\ invoice[i].status = Absent
  /\ \A d \in Clients : txn[d].op # "generate"
  /\ Begin(c, [op |-> "generate", invoice |-> i, total |-> total,
               number |-> series.parking])
  /\ UNCHANGED <<invoice, note, series, payment, intents, event>>

CommitGenerate(c) ==
  /\ txn[c].op = "generate"
  /\ LET t == txn[c]
     IN  /\ invoice[t.invoice].status = Absent
         /\ invoice' = [invoice EXCEPT ![t.invoice] =
                          [status |-> "GENERATED", total |-> t.total, paid |-> 0,
                           number |-> t.number]]
         /\ series' = [series EXCEPT !.parking = t.number + 1]
  /\ Finish(c)
  /\ UNCHANGED <<note, payment, intents, event>>

(* InvoiceService.issue *)
Issue(c, i) ==
  /\ txn[c] = Idle
  /\ invoice[i].status = "GENERATED"
  /\ invoice' = [invoice EXCEPT ![i].status = "ISSUED"]
  /\ UNCHANGED <<note, series, payment, intents, event, txn>>

(* The credit note of an invoice that carried value; the key credit-note:i *)
(* is unique.                                                              *)
RaiseNote(i) ==
  IF invoice[i].total > 0
    THEN /\ note[i].status = Absent
         /\ note' = [note EXCEPT ![i] = [status |-> "ISSUED", number |-> series.credit]]
         /\ series' = [series EXCEPT !.credit = @ + 1]
    ELSE UNCHANGED <<note, series>>

(* InvoiceService.voidInvoice.  What was paid stays on the invoice.        *)
VoidInvoice_NoTrail(c, i) ==       \* mutant: no credit note once money was paid
  /\ txn[c] = Idle
  /\ InvoiceMay(invoice[i].status, "VOID")
  /\ invoice' = [invoice EXCEPT ![i].status = "VOID"]
  /\ IF invoice[i].paid > 0 THEN UNCHANGED <<note, series>> ELSE RaiseNote(i)
  /\ UNCHANGED <<payment, intents, event, txn>>

VoidInvoice(c, i) ==
  /\ txn[c] = Idle
  /\ InvoiceMay(invoice[i].status, "VOID")
  /\ invoice' = [invoice EXCEPT ![i].status = "VOID"]
  /\ RaiseNote(i)
  /\ UNCHANGED <<payment, intents, event, txn>>

(* The same endpoint with the id of a credit note, whose total is negative. *)
VoidNote(c, i) ==
  /\ txn[c] = Idle
  /\ InvoiceMay(note[i].status, "VOID")
  /\ note' = [note EXCEPT ![i].status = "VOID"]
  /\ UNCHANGED <<invoice, series, payment, intents, event, txn>>

------------------------------------------------------------------------------
(* Credit                                                                  *)

StatusWhenPaid(i, paid) == IF paid >= invoice[i].total THEN "PAID" ELSE "PARTIALLY_PAID"

(* The checks of InvoiceService.applyPayment on the invoice it reads.      *)
Takes_Unchecked(i, amount) ==      \* mutant: the total is not looked at
  LET paid == invoice[i].paid + amount
  IN  \/ invoice[i].status = StatusWhenPaid(i, paid)
      \/ InvoiceMay(invoice[i].status, StatusWhenPaid(i, paid))

Takes(i, amount) ==
  LET paid == invoice[i].paid + amount
  IN  /\ paid <= invoice[i].total
      /\ \/ invoice[i].status = StatusWhenPaid(i, paid)
         \/ InvoiceMay(invoice[i].status, StatusWhenPaid(i, paid))

Credit(p, i, amount, e) ==
  [op |-> "credit", payment |-> p, invoice |-> i, amount |-> amount,
   paid |-> invoice[i].paid + amount, event |-> e]

(* PaymentService.recordManualPayment: the key is new and the invoice takes *)
(* the amount ...                                                          *)
BeginManualPayment(c, p, i, amount) ==
  /\ payment[p].status = Absent
  /\ Takes(i, amount)
  /\ Begin(c, Credit(p, i, amount, Nobody))
  /\ UNCHANGED <<invoice, note, series, payment, intents, event>>

Processed_Later(e) == event        \* mutant: the callback is marked elsewhere

Processed(e) ==
  IF e = Nobody THEN event ELSE [event EXCEPT ![e].status = "PROCESSED"]

Succeeded(t) == [status |-> "SUCCESS", invoice |-> t.invoice, amount |-> t.amount,
                 via |-> IF t.event = Nobody THEN "hand" ELSE "gateway"]

CommitCredit_Forgets(c) ==         \* mutant: a callback does not reach the invoice
  /\ txn[c].op = "credit"
  /\ LET t == txn[c]
     IN  /\ t.event = Nobody => payment[t.payment].status = Absent
         /\ payment' = [payment EXCEPT ![t.payment] = Succeeded(t)]
         /\ invoice' = IF t.event # Nobody THEN invoice
                       ELSE [invoice EXCEPT ![t.invoice].paid = t.paid,
                               ![t.invoice].status = StatusWhenPaid(t.invoice, t.paid)]
         /\ event' = Processed(t.event)
  /\ Finish(c)
  /\ UNCHANGED <<note, series, intents>>

(* ... and here the payment succeeds and the invoice is overwritten, for a *)
(* manual payment (whose key must still be new) and for a callback alike.  *)
CommitCredit(c) ==
  /\ txn[c].op = "credit"
  /\ LET t == txn[c]
     IN  /\ t.event = Nobody => payment[t.payment].status = Absent
         /\ payment' = [payment EXCEPT ![t.payment] = Succeeded(t)]
         /\ invoice' = [invoice EXCEPT ![t.invoice].paid = t.paid,
                          ![t.invoice].status = StatusWhenPaid(t.invoice, t.paid)]
         /\ event' = Processed(t.event)
  /\ Finish(c)
  /\ UNCHANGED <<note, series, intents>>

------------------------------------------------------------------------------
(* The gateway                                                             *)

(* PaymentService.initiateGatewayPayment, which runs in no transaction:    *)
(* the gateway knows the payment before its row is inserted.               *)
BeginInitiate(c, p, i, amount) ==
  /\ invoice[i].status \in PayableInvoice
  /\ amount <= invoice[i].total - invoice[i].paid
  /\ payment[p].status = Absent
  /\ Begin(c, [op |-> "initiate", payment |-> p, invoice |-> i, amount |-> amount])
  /\ intents' = intents \cup {p}
  /\ UNCHANGED <<invoice, note, series, payment, event>>

CommitInitiate(c) ==
  /\ txn[c].op = "initiate"
  /\ payment[txn[c].payment].status = Absent
  /\ payment' = [payment EXCEPT ![txn[c].payment] =
                   [status |-> "PENDING", invoice |-> txn[c].invoice,
                    amount |-> txn[c].amount, via |-> "gateway"]]
  /\ Finish(c)
  /\ UNCHANGED <<invoice, note, series, intents, event>>

(* PaymentService.handleWebhook.  First the callback is stored, in a       *)
(* transaction of its own.  A repeat delivery collides with the row and    *)
(* changes nothing, whatever became of the first: a stuttering step.       *)
StoreCallback(c, e, p, outcome) ==
  /\ p \in intents
  /\ event[e].status = Absent
  /\ event' = [event EXCEPT ![e] = [status |-> "STORED", payment |-> p,
                                    outcome |-> outcome]]
  /\ Begin(c, [op |-> "callback", event |-> e])
  /\ UNCHANGED <<invoice, note, series, payment, intents>>

About(c) == event[txn[c].event]

(* NO_MATCHING_PAYMENT, AMOUNT_MISMATCH, or a payment that has succeeded:  *)
(* the callback is marked processed and not applied.                       *)
Disregard(c) ==
  /\ txn[c].op = "callback"
  /\ \/ payment[About(c).payment].status \in {Absent, "SUCCESS", "REFUNDED"}
     \/ About(c).outcome = "DIFFERS"
  /\ event' = Processed(txn[c].event)
  /\ Finish(c)
  /\ UNCHANGED <<invoice, note, series, payment, intents>>

(* The payment is read and its status is checked against the table.        *)
ReadPayment_Terminal(c) ==         \* mutant: a settled payment is read like another
  /\ txn[c].op = "callback"
  /\ About(c).outcome # "DIFFERS"
  /\ LET now == payment[About(c).payment].status
     IN  /\ now # Absent
         /\ now = About(c).outcome \/ PaymentMay(now, About(c).outcome)
  /\ txn' = [txn EXCEPT ![c].op = "apply"]
  /\ UNCHANGED <<invoice, note, series, payment, intents, event>>

ReadPayment(c) ==
  /\ txn[c].op = "callback"
  /\ About(c).outcome # "DIFFERS"
  /\ LET now == payment[About(c).payment].status
     IN  /\ now \notin {Absent, "SUCCESS", "REFUNDED"}
         /\ now = About(c).outcome \/ PaymentMay(now, About(c).outcome)
  /\ txn' = [txn EXCEPT ![c].op = "apply"]
  /\ UNCHANGED <<invoice, note, series, payment, intents, event>>

(* The row of a payment is locked from its update to the end of the        *)
(* transaction.                                                            *)
Locked(p) == \E c \in Clients :
  txn[c].op = "credit" /\ txn[c].payment = p /\ txn[c].event # Nobody

(* The payment is updated without its version; a success then reads the    *)
(* invoice and goes on as a credit.                                        *)
WritePayment(c) ==
  /\ txn[c].op = "apply"
  /\ LET p == About(c).payment
     IN  /\ ~Locked(p)
         /\ \/ /\ About(c).outcome = "SUCCESS"
               /\ Takes(payment[p].invoice, payment[p].amount)
               /\ txn' = [txn EXCEPT ![c] = Credit(p, payment[p].invoice,
                                                   payment[p].amount, txn[c].event)]
               /\ UNCHANGED <<payment, event>>
            \/ /\ About(c).outcome # "SUCCESS"
               /\ payment' = [payment EXCEPT ![p].status = About(c).outcome]
               /\ event' = Processed(txn[c].event)
               /\ Finish(c)
  /\ UNCHANGED <<invoice, note, series, intents>>

(* An exception, a crash or the transaction timeout.                       *)
Rollback(c) ==
  /\ txn[c] # Idle
  /\ Finish(c)
  /\ UNCHANGED <<invoice, note, series, payment, intents, event>>

Invoicing ==
  \/ \E c \in Clients, i \in Releases, total \in Totals : BeginGenerate(c, i, total)
  \/ \E c \in Clients : CommitGenerate(c)
  \/ \E c \in Clients, i \in Releases :
       Issue(c, i) \/ VoidInvoice(c, i) \/ VoidNote(c, i)

Paying ==
  \/ \E c \in Clients, p \in Payments, i \in Releases, amount \in Amounts :
       BeginManualPayment(c, p, i, amount) \/ BeginInitiate(c, p, i, amount)
  \/ \E c \in Clients : CommitCredit(c) \/ CommitInitiate(c)
  \/ \E c \in Clients, e \in Events, p \in Payments, outcome \in Outcomes :
       StoreCallback(c, e, p, outcome)
  \/ \E c \in Clients : Disregard(c) \/ ReadPayment(c) \/ WritePayment(c)

(* What the request of c has read of invoice i, and will act upon, is      *)
(* changed by the step of another: the amount paid, under a request that   *)
(* will write it back, or the payment, which succeeds under a callback     *)
(* that has found it open.                                                 *)
ReadGoesStale(c, i) ==
  /\ txn'[c] = txn[c]
  /\ \/ txn[c].op = "credit" /\ txn[c].invoice = i /\ invoice'[i].paid # invoice[i].paid
     \/ /\ txn[c].op = "apply" /\ payment[About(c).payment].invoice = i
        /\ payment[About(c).payment].status # "SUCCESS"
        /\ payment'[About(c).payment].status = "SUCCESS"

Next ==
  /\ Invoicing \/ Paying \/ \E c \in Clients : Rollback(c)
  /\ raced' = raced \cup {i \in Releases : \E c \in Clients : ReadGoesStale(c, i)}

Spec == Init /\ [][Next]_vars

------------------------------------------------------------------------------
(* Safety, whatever runs at the same time                                  *)

(* What is paid never exceeds the total, and the status says how much is   *)
(* paid, although the two are written from a stale read.                   *)
StatusSaysPaid ==
  \A i \in Releases :
    LET inv == invoice[i]
    IN  /\ inv.paid <= inv.total
        /\ inv.status \in {"GENERATED", "ISSUED"} => inv.paid = 0
        /\ inv.status = "PARTIALLY_PAID" => inv.paid \in 1..(inv.total - 1)
        /\ inv.status = "PAID" => inv.paid = inv.total /\ inv.total > 0

(* Numbers are gap-free: each series has handed out exactly 1 .. next - 1, *)
(* each number once, whatever was rolled back.                             *)
NumbersGapFree ==
  LET billed == {i \in Releases : invoice[i].status # Absent}
      credited == {i \in Releases : note[i].status # Absent}
  IN  /\ {invoice[i].number : i \in billed} = 1..(series.parking - 1)
      /\ {note[i].number : i \in credited} = 1..(series.credit - 1)
      /\ \A i, j \in billed : i # j => invoice[i].number # invoice[j].number
      /\ \A i, j \in credited : i # j => note[i].number # note[j].number

(* An invoice that carried value is never voided without a credit note, and*)
(* only an invoice that was issued ever has one.                           *)
VoidLeavesTrail ==
  \A i \in Releases :
    /\ invoice[i].status = "VOID" /\ invoice[i].total > 0 => note[i].status # Absent
    /\ note[i].status # Absent => invoice[i].status \notin {Absent, "GENERATED", "ISSUED"}

(* A payment row changes only in the step that consumes a stored callback, *)
(* to what that callback says; a consumed callback is never used again.    *)
ChangedByCallback ==
  [][/\ \A e \in Events : event[e].status = "PROCESSED" => event'[e] = event[e]
     /\ \A p \in Payments :
          payment[p].status # Absent /\ payment'[p] # payment[p] =>
            \E e \in Events : /\ event[e].status = "STORED"
                              /\ event'[e].status = "PROCESSED"
                              /\ event[e].payment = p
                              /\ event[e].outcome = payment'[p].status]_vars

------------------------------------------------------------------------------
(* What the balance of an invoice says of its payments                     *)

Total(ps) == MapThenSumSet(LAMBDA p : payment[p].amount, ps)

Received(i) ==
  Total({p \in Payments : payment[p].invoice = i /\ payment[p].status = "SUCCESS"})

(* The balance is derived from the payments: every successful payment is on*)
(* its invoice, whatever requests overlap, unless another wrote the amount *)
(* that one had read and was to write back.  Even then the invoice never   *)
(* reads as unpaid once a payment has succeeded.                           *)
EveryPaymentCounts ==
  /\ \A i \in Releases \ raced : Received(i) <= invoice[i].paid
  /\ \A p \in Payments :
       payment[p].status = "SUCCESS" => invoice[payment[p].invoice].paid > 0

(* The callbacks of payments of i that have been consumed as a success.    *)
Told(i) ==
  {e \in Events : /\ event[e].status = "PROCESSED" /\ event[e].outcome = "SUCCESS"
                  /\ payment[event[e].payment].invoice = i}

(* What was recorded by hand, and what each such callback announced.       *)
Backing(i) ==
  Total({p \in Payments : payment[p].invoice = i /\ payment[p].via = "hand"})
    + MapThenSumSet(LAMBDA e : payment[event[e].payment].amount, Told(i))

(* Callbacks are idempotent: however many of them tell of one payment, in  *)
(* any order, an invoice is credited with no more than the payments that   *)
(* succeeded, unless the payment changed between a callback's check of its *)
(* status and its write.  Even then each callback credits once at most,    *)
(* though two callbacks of one payment may each credit it.                 *)
NothingCountsTwice ==
  \A i \in Releases : /\ i \notin raced => invoice[i].paid <= Received(i)
                      /\ invoice[i].paid <= Backing(i)

===============================================================================
