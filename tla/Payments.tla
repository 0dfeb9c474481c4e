------------------------------ MODULE Payments ------------------------------
(***************************************************************************)
(* Paying the invoices of ONE team: the two payment services charge a card *)
(* at Stripe, record the transaction, update the invoice and the team's    *)
(* payment status, each in a database call of its own and none of it in a  *)
(* transaction.  Several requests may be under way, for one invoice too.   *)
(*                                                                         *)
(* Money is counted in units; what is printed on an invoice is left out.   *)
(***************************************************************************)
EXTENDS Integers, FiniteSets

CONSTANTS
    Invoice,      \* the team's invoices, positive numbers
    Bill,         \* billAmount of each invoice
    Payer,        \* bound: payment requests the server works on at the same time
    Amounts,      \* amounts a user may enter for a manual payment; bound: three digits
    Cards,        \* cards the team has at Stripe
    MaxRequests,  \* bound: payment requests made
    MaxCrashes    \* bound: requests the server drops half way (a restart, a failed database call)

ASSUME ConstantsAssumption ==
    /\ Invoice \subseteq Nat \ {0} /\ IsFiniteSet(Invoice)
    /\ Bill \in [Invoice -> Nat]
    /\ Amounts \subseteq 1..999
    /\ Cards \in Nat /\ MaxRequests \in Nat /\ MaxCrashes \in Nat

InvoiceStatus == {"CREATED", "SUBMITTED", "PAID", "PARTIALLY_PAID", "REJECTED"}
TeamPaymentStatus == {"HEALTHY", "DELINQUENT"}

VARIABLES
    invoice,      \* the Invoice documents: status and paidAmount
    team,         \* the team's paymentStatus
    recorded,     \* per invoice: what its PaymentTransaction documents say was captured
    captured,     \* per invoice: what Stripe has taken from the customer's cards
    pc, frame,    \* per request
    requests, crashes,
    overlapped,   \* history: invoices with two requests under way at once
    dropped,      \* history: invoices with a charge whose request was dropped or got no answer
    appended,     \* history: invoices whose paidAmount was written as other than a sum
    disturbed     \* history: what else happened to the team's payments

vars == <<invoice, team, recorded, captured, pc, frame, requests, crashes,
          overlapped, dropped, appended, disturbed>>

Disturbance == {"overlap", "crash", "manual", "unsent"}
Steps == {"idle", "team", "invoice", "charge", "record", "find", "write", "send", "standing", "rejected", "heal", "blame"}

\* The locals of a request.
\*   team       paymentStatus as read; the manual service reads none
\*   amount     what is charged, `paid' the paidAmount it read before
\*   result     the answer of Stripe
\*   entered    the amount in the body of a manual request
\*   update     the fields of the invoice to be written; KEEP: paidAmount is not one
KEEP == -1
NoUpdate == [status |-> "CREATED", paid |-> KEEP]
EmptyFrame == [kind |-> "auto", invoice |-> 0, entered |-> 0, team |-> "undefined", paid |-> 0,
               amount |-> 0, result |-> "none", update |-> NoUpdate]

Busy(i) == {p \in Payer : frame[p].invoice = i}

Go(p, next, f) ==
    /\ pc' = [pc EXCEPT ![p] = next]
    /\ frame' = [frame EXCEPT ![p] = IF next = "idle" THEN EmptyFrame ELSE f]

\* The request ends, with an answer or with an exception.
Done(p) == Go(p, "idle", EmptyFrame)

Stores == <<invoice, team, recorded, captured>>
Counters == <<requests, crashes, overlapped, dropped, appended>>

-----------------------------------------------------------------------------
(***************************************************************************)
(* Rules                                                                   *)
(***************************************************************************)
\* An invoice in one of these statuses is not paid.
Closed == {"SUBMITTED", "PAID"}

Lesser(a, b) == IF a < b THEN a ELSE b

\* Mutant: the amount a user enters is charged as it is.
AsEntered(kind, bill, paid, entered) == IF kind = "manual" THEN entered ELSE bill - paid

\* Mutant: what is due is taken the wrong way round.
PaidLessBill(kind, bill, paid, entered) ==
    IF kind = "manual" THEN Lesser(entered, paid - bill) ELSE paid - bill

\* What a request charges: all that is due, or less if the user says so.  The user's
\* amount is a text, which the comparison and Stripe read as a number.
Due(kind, bill, paid, entered) ==
    IF kind = "manual" THEN Lesser(entered, bill - paid) ELSE bill - paid

\* The number whose digits are those of `paid' followed by those of `amount'.
Appended(paid, amount) ==
    amount + paid * (IF amount < 10 THEN 10 ELSE IF amount < 100 THEN 100 ELSE 1000)

\* The paidAmount after a charge, invoice.paidAmount + amount: the amount due is a number
\* and is added, but a lesser amount is still the text the user entered and is appended.
PaidAfter(kind, bill, paid, amount) ==
    IF kind = "manual" /\ amount < bill - paid THEN Appended(paid, amount) ELSE paid + amount

\* Mutant: a manual payment settles the invoice, whatever it was.
AlwaysPaid(kind, bill, paid) == "PAID"

\* The invoice's status after a charge; the automatic service pays in full.
StatusPaid(kind, bill, paid) ==
    IF kind = "auto" \/ paid >= bill THEN "PAID" ELSE "PARTIALLY_PAID"

\* Mutant: every failure is handled as a declined card.
AllDeclined(result) == "record"

\* Where an exception in the try block leads.  A declined card has a payment_intent,
\* which the handler records; any other error (the same catch takes one that comes
\* after a successful charge) has none: the handler throws a TypeError itself and
\* the request is over.
AfterThrow(result) == IF result = "declined" THEN "record" ELSE "idle"

-----------------------------------------------------------------------------
(***************************************************************************)
(* A payment request                                                       *)
(***************************************************************************)
\* POST /payinvoiceauto or /payinvoicemanual.
Request(p) ==
    /\ pc[p] = "idle" /\ requests < MaxRequests
    /\ \E i \in Invoice, kind \in {"auto", "manual"} : \E entered \in IF kind = "manual" THEN Amounts ELSE {0} :
          /\ Go(p, "team", [EmptyFrame EXCEPT !.kind = kind, !.invoice = i, !.entered = entered])
          /\ overlapped' = IF Busy(i) # {} THEN overlapped \cup {i} ELSE overlapped
    /\ disturbed' = IF \A q \in Payer : pc[q] = "idle" THEN disturbed ELSE disturbed \cup {"overlap"}
    /\ requests' = requests + 1
    /\ UNCHANGED <<Stores, crashes, dropped, appended>>

\* The automatic service selects 'paymentStatus billing_email ...'; the manual one
\* 'paymentStatus, billing_email', where the comma is part of the first field's name.
ReadTeam(p) ==
    /\ pc[p] = "team"
    /\ Go(p, "invoice", [frame[p] EXCEPT !.team = IF frame[p].kind = "auto" THEN team ELSE "undefined"])
    /\ UNCHANGED <<Stores, Counters, disturbed>>

\* The invoice must be open.  If nothing is due it only has to be marked; a team
\* without cards leaves the loop of the automatic service at once.
ReadInvoice(p) ==
    LET f == frame[p]
        i == f.invoice
        paid == invoice[i].paid
    IN  /\ pc[p] = "invoice"
        /\ \/ invoice[i].status \in Closed /\ Done(p)
           \/ /\ invoice[i].status \notin Closed /\ Bill[i] <= paid
              /\ Go(p, "find", [f EXCEPT !.update = [status |-> "PAID", paid |-> KEEP]])
           \/ /\ invoice[i].status \notin Closed /\ Bill[i] > paid
              /\ IF f.kind = "auto" /\ Cards = 0 THEN Done(p)
                 ELSE Go(p, "charge", [f EXCEPT !.paid = paid, !.amount = Due(f.kind, Bill[i], paid, f.entered)])
        /\ UNCHANGED <<Stores, Counters, disturbed>>

\* An exception thrown in the try block.
Throw(p, f) ==
    Go(p, AfterThrow(f.result), [f EXCEPT !.result = "declined", !.update = [status |-> "REJECTED", paid |-> KEEP]])

\* stripe.paymentIntents.create, without an idempotency key.  A declined card ends
\* the loop over the cards: the first one decides.  The answer may also be lost after
\* the card was charged, which is an error like any other.
Charge(p) ==
    LET f == frame[p]
        i == f.invoice
        after == PaidAfter(f.kind, Bill[i], f.paid, f.amount)
        taken == [captured EXCEPT ![i] = @ + f.amount]
    IN  /\ pc[p] = "charge"
        /\ \/ /\ captured' = taken
              /\ Go(p, "record", [f EXCEPT !.result = "captured",
                    !.update = [status |-> StatusPaid(f.kind, Bill[i], after), paid |-> after]])
              /\ UNCHANGED dropped
           \/ /\ captured' = taken
              /\ Throw(p, [f EXCEPT !.result = "error"])
              /\ dropped' = dropped \cup {i}
           \/ /\ \E result \in {"declined", "error"} : Throw(p, [f EXCEPT !.result = result])
              /\ UNCHANGED <<captured, dropped>>
        /\ UNCHANGED <<invoice, team, recorded, requests, crashes, overlapped, appended, disturbed>>

\* createPaymentTransaction; a declined charge is recorded with nothing captured.
Record(p) ==
    LET f == frame[p] IN
    /\ pc[p] = "record"
    /\ recorded' = IF f.result = "captured" THEN [recorded EXCEPT ![f.invoice] = @ + f.amount] ELSE recorded
    /\ Go(p, "find", f)
    /\ UNCHANGED <<invoice, team, captured, Counters, disturbed>>

\* updateInvoice, first call: it throws if the invoice is PAID.
FindInvoice(p) ==
    LET f == frame[p] IN
    /\ pc[p] = "find"
    /\ \/ invoice[f.invoice].status # "PAID" /\ Go(p, "write", f)
       \/ invoice[f.invoice].status = "PAID" /\ f.result = "captured" /\ Throw(p, f)
       \/ invoice[f.invoice].status = "PAID" /\ f.result # "captured" /\ Done(p)
    /\ UNCHANGED <<Stores, Counters, disturbed>>

\* updateInvoice, second call: findOneAndUpdate by the invoice's id alone.  If nothing
\* was due, CreateAndSendInvoice gets no charges and throws.
WriteInvoice(p) ==
    LET f == frame[p]
        i == f.invoice
        unseen == f.kind = "manual" /\ "REJECTED" \in {invoice[i].status, f.update.status}
    IN  /\ pc[p] = "write"
        /\ invoice' = [invoice EXCEPT ![i] = [status |-> f.update.status,
                                              paid |-> IF f.update.paid = KEEP THEN @.paid ELSE f.update.paid]]
        /\ \/ f.result = "captured" /\ Go(p, "send", f)
           \/ f.result = "declined" /\ Go(p, "blame", f)
           \/ f.result = "none" /\ Done(p)
        /\ disturbed' = IF unseen THEN disturbed \cup {"manual"} ELSE disturbed
        /\ appended' = IF f.update.paid \in {KEEP, f.paid + f.amount} THEN appended ELSE appended \cup {i}
        /\ UNCHANGED <<team, recorded, captured, requests, crashes, overlapped, dropped>>

\* CreateAndSendInvoice: the PDF, S3 and the mail may fail.  Then, if the request has
\* read that the team is delinquent, its rejected invoices are looked for.
SendInvoice(p) ==
    LET f == frame[p]
        settled == f.kind = "auto" \/ f.update.status = "PAID"
    IN  /\ pc[p] = "send"
        /\ \/ /\ IF settled /\ f.team = "DELINQUENT" THEN Go(p, "rejected", f) ELSE Done(p)
              /\ UNCHANGED disturbed
           \/ Throw(p, f) /\ disturbed' = disturbed \cup {"unsent"}
        /\ UNCHANGED <<Stores, Counters>>

\* Mutant: the team is healthy again after any successful payment.
AnyPayment(invoices) == TRUE

Healthy(invoices) == {i \in Invoice : invoices[i].status = "REJECTED"} = {}

FindRejected(p) ==
    /\ pc[p] = "rejected"
    /\ IF Healthy(invoice) THEN Go(p, "heal", frame[p]) ELSE Done(p)
    /\ UNCHANGED <<Stores, Counters, disturbed>>

Heal(p) ==
    /\ pc[p] = "heal"
    /\ team' = "HEALTHY" /\ Done(p)
    /\ UNCHANGED <<invoice, recorded, captured, Counters, disturbed>>

\* After a declined card: a team read as healthy becomes delinquent.
Blame(p) ==
    /\ pc[p] = "blame"
    /\ team' = IF frame[p].team = "HEALTHY" THEN "DELINQUENT" ELSE team
    /\ Done(p)
    /\ UNCHANGED <<invoice, recorded, captured, Counters, disturbed>>

\* The server stops, or a database call fails: the rest of the request is lost.
Crash(p) ==
    /\ pc[p] # "idle" /\ crashes < MaxCrashes
    /\ crashes' = crashes + 1
    /\ dropped' = IF frame[p].result = "captured" /\ pc[p] \in {"record", "find", "write"}
                  THEN dropped \cup {frame[p].invoice} ELSE dropped
    /\ disturbed' = disturbed \cup {"crash"}
    /\ Done(p)
    /\ UNCHANGED <<Stores, requests, overlapped, appended>>

Pay(p) ==
    \/ Request(p) \/ ReadTeam(p) \/ ReadInvoice(p) \/ Charge(p) \/ Record(p)
    \/ FindInvoice(p) \/ WriteInvoice(p) \/ SendInvoice(p)
    \/ FindRejected(p) \/ Heal(p) \/ Blame(p) \/ Crash(p)

Init ==
    /\ invoice = [i \in Invoice |-> [status |-> "CREATED", paid |-> 0]]
    /\ team = "HEALTHY"
    /\ recorded = [i \in Invoice |-> 0] /\ captured = recorded
    /\ pc = [p \in Payer |-> "idle"] /\ frame = [p \in Payer |-> EmptyFrame]
    /\ requests = 0 /\ crashes = 0
    /\ overlapped = {} /\ dropped = {} /\ appended = {} /\ disturbed = {}

Next == \E p \in Payer : Pay(p)
Spec == Init /\ [][Next]_vars

-----------------------------------------------------------------------------
(***************************************************************************)
(* Properties                                                              *)
(***************************************************************************)
\* Documents and locals are what the code can make them.
TypeOK ==
    /\ \A i \in Invoice : invoice[i].status \in InvoiceStatus /\ invoice[i].paid \in Nat
    /\ team \in TeamPaymentStatus
    /\ recorded \in [Invoice -> Nat] /\ captured \in [Invoice -> Nat]
    /\ pc \in [Payer -> Steps]
    /\ \A p \in Payer : /\ frame[p].invoice \in Invoice \cup {0} /\ frame[p].amount \in Nat
                         /\ frame[p].result \in {"none", "captured", "declined"}
                         /\ frame[p].update.status \in InvoiceStatus
    /\ requests \in 0..MaxRequests /\ crashes \in 0..MaxCrashes
    /\ overlapped \cup dropped \cup appended \subseteq Invoice /\ disturbed \subseteq Disturbance

\* However requests for it overlap and wherever they stop, an invoice is PAID only
\* when the transactions on record cover its bill, and its paidAmount never says
\* more than they do, unless an entered amount was appended to an earlier payment.
PaidIsCovered == \A i \in Invoice \ appended :
    /\ invoice[i].status = "PAID" => recorded[i] >= Bill[i]
    /\ invoice[i].paid <= recorded[i]

\* Unless two requests overlapped, or one was dropped between the charge and the write
\* or got no answer from Stripe, an invoice is never charged more than its bill, and with
\* no request under way its transactions are what the cards were charged.  Its paidAmount
\* is so too, or more after an appended amount: never less, which would charge twice.
BooksBalance == \A i \in Invoice \ (overlapped \cup dropped) :
    /\ captured[i] <= Bill[i]
    /\ Busy(i) = {} => /\ recorded[i] = captured[i]
                       /\ captured[i] <= invoice[i].paid
                       /\ i \notin appended => captured[i] = invoice[i].paid

\* With automatic payments one at a time, none dropped, the team is delinquent exactly
\* while one of its invoices is rejected.
TeamStanding == (disturbed = {} /\ \A p \in Payer : pc[p] = "idle") =>
    (team = "DELINQUENT" <=> \E i \in Invoice : invoice[i].status = "REJECTED")

\* A request whose charge succeeded never rejects the invoice, whatever fails after
\* the charge: only a declined card does.
ChargedNeverRejects == [][\A p \in Payer :
    pc[p] # "idle" /\ frame[p].result = "captured" => frame'[p].update.status # "REJECTED"]_vars

\* InvoiceService.ts:102: an invoice that is PAID is not updated any more.
PaidIsFinal == [][\A i \in Invoice : invoice[i].status = "PAID" => invoice'[i] = invoice[i]]_vars

\* PayInvoiceManualService.ts:126 marks an invoice PAID "if (invoice.paidAmount + amount >=
\* invoice.billAmount)": what is PAID was paid, in however many parts.
PaidInFull == \A i \in Invoice : invoice[i].status = "PAID" => recorded[i] >= Bill[i]
=============================================================================
