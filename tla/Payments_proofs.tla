--------------------------- MODULE Payments_proofs ---------------------------
(***************************************************************************)
(* Theorems about Payments, for any invoices and bills, any requests at a  *)
(* time and any number of crashes.                                         *)
(*                                                                         *)
(* The invariant has three parts.  PayInv: the types, and for each request *)
(* what it carries at each point (`Fits').  BooksInv: how the accounts of  *)
(* an invoice differ while the one request for it is under way             *)
(* (`Account'), and how far an appended amount can put paidAmount off.     *)
(* StandInv: what an undisturbed request has to do with the team's         *)
(* standing (`Stands').                                                    *)
(***************************************************************************)
EXTENDS Payments, TLAPS

Documents == [status : InvoiceStatus, paid : Nat]
Updates == [status : InvoiceStatus, paid : Nat \cup {KEEP}]
Frames == [kind : {"auto", "manual"}, invoice : Invoice \cup {0}, entered : Nat,
           team : TeamPaymentStatus \cup {"undefined"}, paid : Nat, amount : Nat,
           result : {"none", "captured", "declined"}, update : Updates]

StoresOK ==
    /\ invoice \in [Invoice -> Documents]
    /\ team \in TeamPaymentStatus
    /\ recorded \in [Invoice -> Nat] /\ captured \in [Invoice -> Nat]

RequestsOK ==
    /\ pc \in [Payer -> Steps] /\ frame \in [Payer -> Frames]
    /\ requests \in 0..MaxRequests /\ crashes \in 0..MaxCrashes
    /\ overlapped \cup dropped \cup appended \subseteq Invoice /\ disturbed \subseteq Disturbance

\* After a charge the update says at least what was paid; if it says just that, and no amount
\* was appended before, the transactions say it too, but for the one still to be recorded.
Charged(at, f, rec, app) ==
    LET sum == f.paid + f.amount
    IN  /\ f.update.status \in {"PAID", "PARTIALLY_PAID"}
        /\ f.update.paid \in Nat /\ sum <= f.update.paid
        /\ f.update.status = "PAID" => Bill[f.invoice] <= f.update.paid
        /\ f.update.paid = sum /\ f.invoice \notin app
             => sum <= rec[f.invoice] + (IF at = "record" THEN f.amount ELSE 0)

\* What a request carries at each point, given the transactions on record and the invoices
\* with an appended amount.
Fits(at, f, rec, app) ==
    IF at = "idle" THEN f = EmptyFrame
    ELSE /\ f.invoice \in Invoice
         /\ at \in {"team", "invoice", "charge"} => f.result = "none"
         /\ at = "charge" => /\ f.paid + f.amount <= Bill[f.invoice]
                             /\ f.invoice \notin app => f.paid <= rec[f.invoice]
                             /\ f.kind = "auto" => f.paid + f.amount = Bill[f.invoice]
         /\ at = "record" => f.result # "none"
         /\ at \in {"send", "rejected", "heal"} => f.result = "captured"
         /\ at = "blame" => f.result = "declined"
         /\ f.result = "captured" => Charged(at, f, rec, app)
         /\ f.result = "declined" => f.update = [status |-> "REJECTED", paid |-> KEEP]
         /\ at \in {"find", "write"} /\ f.result = "none"
              => /\ f.update = [status |-> "PAID", paid |-> KEEP]
                 /\ f.invoice \notin app => Bill[f.invoice] <= rec[f.invoice]

PayInv ==
    /\ StoresOK /\ RequestsOK
    /\ \A p \in Payer : Fits(pc[p], frame[p], recorded, appended)
    /\ PaidIsCovered

\* The assumption on the constants, in the form the proofs need.
LEMMA ConstantTypes ==
    /\ Invoice \subseteq Nat \ {0} /\ IsFiniteSet(Invoice)
    /\ Bill \in [Invoice -> Nat]
    /\ Amounts \subseteq Nat
    /\ Cards \in Nat /\ MaxRequests \in Nat /\ MaxCrashes \in Nat
BY ConstantsAssumption

USE ConstantTypes

-----------------------------------------------------------------------------
(***************************************************************************)
(* Lemmas                                                                  *)
(***************************************************************************)
LEMMA EmptyFrameType == EmptyFrame \in Frames /\ EmptyFrame.invoice = 0 /\ EmptyFrame.result = "none"
BY DEF EmptyFrame, Frames, Updates, NoUpdate, InvoiceStatus, KEEP

LEMMA FrameFields ==
    ASSUME NEW f \in Frames
    PROVE  /\ f.kind \in {"auto", "manual"} /\ f.invoice \in Invoice \cup {0} /\ f.entered \in Nat
           /\ f.team \in TeamPaymentStatus \cup {"undefined"} /\ f.paid \in Nat /\ f.amount \in Nat
           /\ f.result \in {"none", "captured", "declined"} /\ f.update \in Updates
BY DEF Frames

\* An amount is added to what was paid, or appended, which makes more of it.
LEMMA PaidAfterGrows ==
    ASSUME NEW kind, NEW bill \in Nat, NEW paid \in Nat, NEW amount \in Nat
    PROVE  /\ PaidAfter(kind, bill, paid, amount) \in Nat
           /\ paid + amount <= PaidAfter(kind, bill, paid, amount)
           /\ kind = "auto" => PaidAfter(kind, bill, paid, amount) = paid + amount
<1>1. Appended(paid, amount) \in Nat /\ paid + amount <= Appended(paid, amount)
  <2>1. CASE amount < 10
    BY <2>1 DEF Appended
  <2>2. CASE ~ (amount < 10) /\ amount < 100
    BY <2>2 DEF Appended
  <2>3. CASE ~ (amount < 10) /\ ~ (amount < 100)
    BY <2>3 DEF Appended
  <2>. QED BY <2>1, <2>2, <2>3
<1>. QED BY <1>1 DEF PaidAfter

\* More transactions on record, and more appended amounts, disturb no request.
LEMMA FitsGrows ==
    ASSUME NEW at, NEW f \in Frames, NEW old \in [Invoice -> Nat], NEW new \in [Invoice -> Nat],
           NEW app, NEW more, app \subseteq more,
           \A i \in Invoice : old[i] <= new[i], Fits(at, f, old, app)
    PROVE  Fits(at, f, new, more)
<1>1. CASE at = "idle"
  BY <1>1 DEF Fits
<1>2. CASE at # "idle"
  <2>. DEFINE i == f.invoice
              x == IF at = "record" THEN f.amount ELSE 0
  <2>1. i \in Invoice /\ old[i] \in Nat /\ new[i] \in Nat /\ old[i] <= new[i] /\ Bill[i] \in Nat
    BY <1>2 DEF Fits
  <2>2. f.paid \in Nat /\ f.amount \in Nat /\ x \in Nat
    BY FrameFields
  <2>3. f.result = "captured" => Charged(at, f, old, app)
    BY <1>2 DEF Fits
  <2>4. f.result = "captured" => Charged(at, f, new, more)
    <3>. SUFFICES ASSUME f.result = "captured" PROVE Charged(at, f, new, more)
      OBVIOUS
    <3>1. ASSUME f.update.paid = f.paid + f.amount, i \notin more
          PROVE  f.paid + f.amount <= new[i] + x
      <4>1. f.paid + f.amount <= old[i] + x
        BY <2>3, <3>1 DEF Charged
      <4>. QED BY <2>1, <2>2, <4>1
    <3>. QED BY <2>3, <3>1 DEF Charged
  <2>. QED BY <1>2, <2>1, <2>2, <2>4 DEF Fits
<1>. QED BY <1>1, <1>2

\* A request goes on: what it carries fits the next point, and the others' does still.
LEMMA GoFits ==
    ASSUME PayInv, NEW p \in Payer, NEW next \in Steps, NEW f \in Frames, Go(p, next, f),
           recorded' \in [Invoice -> Nat], \A i \in Invoice : recorded[i] <= recorded'[i],
           appended \subseteq appended',
           next # "idle" => Fits(next, f, recorded', appended')
    PROVE  /\ pc' \in [Payer -> Steps] /\ frame' \in [Payer -> Frames]
           /\ \A q \in Payer : Fits(pc'[q], frame'[q], recorded', appended')
<1>. DEFINE g == IF next = "idle" THEN EmptyFrame ELSE f
<1>1. pc' = [pc EXCEPT ![p] = next] /\ frame' = [frame EXCEPT ![p] = g] /\ g \in Frames
  BY EmptyFrameType DEF Go
<1>2. pc' \in [Payer -> Steps] /\ frame' \in [Payer -> Frames]
  BY <1>1 DEF PayInv, RequestsOK
<1>3. Fits(next, g, recorded', appended')
  BY DEF Fits
<1>4. ASSUME NEW q \in Payer, q # p PROVE Fits(pc'[q], frame'[q], recorded', appended')
  <2>1. pc'[q] = pc[q] /\ frame'[q] = frame[q] /\ frame[q] \in Frames
    BY <1>1, <1>4 DEF PayInv, RequestsOK
  <2>2. Fits(pc[q], frame[q], recorded, appended) /\ recorded \in [Invoice -> Nat]
    BY DEF PayInv, StoresOK
  <2>. QED BY <2>1, <2>2, FitsGrows
<1>5. Fits(pc'[p], frame'[p], recorded', appended')
  BY <1>1, <1>3 DEF PayInv, RequestsOK
<1>. QED BY <1>2, <1>4, <1>5

\* Steps that touch neither the invoices nor the accounts.
LEMMA KeepsStores ==
    ASSUME PayInv, invoice' = invoice, recorded' = recorded, appended' = appended, captured' \in [Invoice -> Nat],
           team' \in TeamPaymentStatus
    PROVE  StoresOK' /\ PaidIsCovered'
BY DEF PayInv, StoresOK, PaidIsCovered

LEMMA DoneFits ==
    ASSUME PayInv, NEW p \in Payer, NEW f, Go(p, "idle", f), recorded' = recorded, appended' = appended
    PROVE  /\ pc' \in [Payer -> Steps] /\ frame' \in [Payer -> Frames]
           /\ \A q \in Payer : Fits(pc'[q], frame'[q], recorded', appended')
<1>1. Go(p, "idle", EmptyFrame)
  BY DEF Go
<1>2. recorded' \in [Invoice -> Nat] /\ \A i \in Invoice : recorded[i] <= recorded'[i]
  BY DEF PayInv, StoresOK
<1>. QED BY <1>1, <1>2, EmptyFrameType, GoFits DEF Steps

\* What is known of a request that is under way.
LEMMA UnderWay ==
    ASSUME PayInv, NEW p \in Payer, pc[p] # "idle"
    PROVE  /\ frame[p] \in Frames /\ frame[p].invoice \in Invoice
           /\ Fits(pc[p], frame[p], recorded, appended)
           /\ invoice[frame[p].invoice] \in Documents
           /\ frame[p].invoice \notin appended
                => invoice[frame[p].invoice].paid <= recorded[frame[p].invoice]
           /\ recorded[frame[p].invoice] \in Nat /\ Bill[frame[p].invoice] \in Nat
           /\ recorded \in [Invoice -> Nat] /\ \A i \in Invoice : recorded[i] <= recorded[i]
           /\ pc \in [Payer -> Steps]
<1>1. frame[p] \in Frames /\ Fits(pc[p], frame[p], recorded, appended) /\ pc \in [Payer -> Steps]
  BY DEF PayInv, RequestsOK
<1>2. frame[p].invoice \in Invoice
  BY <1>1 DEF Fits
<1>3. recorded \in [Invoice -> Nat] /\ \A i \in Invoice : Bill[i] \in Nat
  BY DEF PayInv, StoresOK
<1>4. \A i \in Invoice : recorded[i] <= recorded[i]
  BY <1>3
<1>5. \A i \in Invoice : /\ invoice[i] \in Documents
                         /\ i \notin appended => invoice[i].paid <= recorded[i]
  BY DEF PayInv, StoresOK, PaidIsCovered
<1>6. /\ invoice[frame[p].invoice] \in Documents /\ Bill[frame[p].invoice] \in Nat
      /\ recorded[frame[p].invoice] \in Nat
      /\ frame[p].invoice \notin appended
           => invoice[frame[p].invoice].paid <= recorded[frame[p].invoice]
  BY <1>2, <1>3, <1>5
<1>. QED BY <1>1, <1>2, <1>3, <1>4, <1>6

-----------------------------------------------------------------------------
(***************************************************************************)
(* PayInv is kept by each step                                             *)
(***************************************************************************)
LEMMA RequestPay == ASSUME PayInv, NEW p \in Payer, Request(p) PROVE PayInv'
<1>1. PICK i \in Invoice, kind \in {"auto", "manual"} :
      \E entered \in IF kind = "manual" THEN Amounts ELSE {0} :
        /\ Go(p, "team", [EmptyFrame EXCEPT !.kind = kind, !.invoice = i, !.entered = entered])
        /\ overlapped' = IF Busy(i) # {} THEN overlapped \cup {i} ELSE overlapped
  BY DEF Request
<1>2. PICK entered \in IF kind = "manual" THEN Amounts ELSE {0} :
        Go(p, "team", [EmptyFrame EXCEPT !.kind = kind, !.invoice = i, !.entered = entered])
  BY <1>1
<1>. DEFINE f == [EmptyFrame EXCEPT !.kind = kind, !.invoice = i, !.entered = entered]
<1>3. f \in Frames /\ f.invoice = i /\ f.result = "none"
  BY EmptyFrameType DEF Frames, EmptyFrame
<1>4. recorded' = recorded /\ appended' = appended /\ StoresOK' /\ PaidIsCovered'
  BY KeepsStores DEF Request, Stores, PayInv, StoresOK
<1>5. Fits("team", f, recorded', appended')
  BY <1>3 DEF Fits
<1>8. Go(p, "team", f)
  BY <1>2
<1>. HIDE DEF f
<1>6. /\ pc' \in [Payer -> Steps] /\ frame' \in [Payer -> Frames]
      /\ \A q \in Payer : Fits(pc'[q], frame'[q], recorded', appended')
  <2>0. recorded \in [Invoice -> Nat] /\ recorded' = recorded
    BY <1>4 DEF PayInv, StoresOK
  <2>1. recorded' \in [Invoice -> Nat] /\ \A j \in Invoice : recorded[j] <= recorded'[j]
    BY <2>0
  <2>. QED BY <1>3, <1>4, <1>5, <1>8, <2>1, GoFits DEF Steps
<1>7. /\ requests' \in 0..MaxRequests /\ crashes' \in 0..MaxCrashes
      /\ (overlapped \cup dropped \cup appended)' \subseteq Invoice /\ disturbed' \subseteq Disturbance
  BY <1>1 DEF Request, PayInv, RequestsOK, Disturbance
<1>. QED BY <1>4, <1>6, <1>7 DEF PayInv, RequestsOK

LEMMA ReadTeamPay == ASSUME PayInv, NEW p \in Payer, ReadTeam(p) PROVE PayInv'
<1>. DEFINE f == [frame[p] EXCEPT !.team = IF frame[p].kind = "auto" THEN team ELSE "undefined"]
<1>1. pc[p] = "team" /\ Go(p, "invoice", f)
  BY DEF ReadTeam
<1>2. f \in Frames /\ f.invoice = frame[p].invoice /\ f.result = frame[p].result
  BY <1>1, UnderWay DEF Frames, PayInv, StoresOK
<1>3. recorded' = recorded /\ appended' = appended /\ StoresOK' /\ PaidIsCovered'
  BY KeepsStores DEF Counters, ReadTeam, Stores, PayInv, StoresOK
<1>4. Fits("invoice", f, recorded', appended')
  BY <1>1, <1>2, UnderWay DEF Fits
<1>5. /\ pc' \in [Payer -> Steps] /\ frame' \in [Payer -> Frames]
      /\ \A q \in Payer : Fits(pc'[q], frame'[q], recorded', appended')
  BY <1>1, <1>2, <1>3, <1>4, UnderWay, GoFits DEF Steps
<1>. QED BY <1>3, <1>5 DEF PayInv, RequestsOK, ReadTeam, Counters

LEMMA ReadInvoicePay == ASSUME PayInv, NEW p \in Payer, ReadInvoice(p) PROVE PayInv'
<1>. DEFINE f == frame[p]
            i == f.invoice
            due == Due(f.kind, Bill[i], invoice[i].paid, f.entered)
<1>1. pc[p] = "invoice" /\ recorded' = recorded /\ appended' = appended /\ StoresOK' /\ PaidIsCovered'
  BY KeepsStores DEF Counters, ReadInvoice, Stores, PayInv, StoresOK
<1>2. /\ f \in Frames /\ i \in Invoice /\ f.result = "none" /\ invoice[i].paid \in Nat
      /\ Bill[i] \in Nat /\ recorded[i] \in Nat
      /\ i \notin appended => invoice[i].paid <= recorded[i]
  BY <1>1, UnderWay DEF Fits, Documents
<1>3. CASE Done(p)
  BY <1>1, <1>3, DoneFits DEF PayInv, RequestsOK, ReadInvoice, Counters, Done
<1>4. CASE Bill[i] <= invoice[i].paid /\ Go(p, "find", [f EXCEPT !.update = [status |-> "PAID", paid |-> KEEP]])
  <2>. DEFINE g == [f EXCEPT !.update = [status |-> "PAID", paid |-> KEEP]]
  <2>1. /\ g \in Frames /\ g.invoice = i /\ g.result = "none"
        /\ g.update = [status |-> "PAID", paid |-> KEEP]
    BY <1>2 DEF Frames, Updates, InvoiceStatus
  <2>2. i \notin appended => Bill[i] <= recorded[i]
    BY <1>2, <1>4
  <2>3. Fits("find", g, recorded', appended')
    BY <1>1, <1>2, <2>1, <2>2 DEF Fits
  <2>4. /\ pc' \in [Payer -> Steps] /\ frame' \in [Payer -> Frames]
        /\ \A q \in Payer : Fits(pc'[q], frame'[q], recorded', appended')
    BY <1>1, <1>4, <2>1, <2>3, UnderWay, GoFits DEF Steps
  <2>. QED BY <1>1, <2>4 DEF PayInv, RequestsOK, ReadInvoice, Counters
<1>5. CASE Bill[i] > invoice[i].paid /\ Go(p, "charge", [f EXCEPT !.paid = invoice[i].paid, !.amount = due])
  <2>. DEFINE g == [f EXCEPT !.paid = invoice[i].paid, !.amount = due]
  <2>1. /\ due \in Nat /\ invoice[i].paid + due <= Bill[i]
        /\ f.kind = "auto" => invoice[i].paid + due = Bill[i]
    <3>1. f.entered \in Nat /\ f.kind \in {"auto", "manual"}
      BY <1>2, FrameFields
    <3>2. CASE f.kind = "manual"
      BY <1>2, <1>5, <3>1, <3>2 DEF Due, Lesser
    <3>3. CASE f.kind = "auto"
      BY <1>2, <1>5, <3>1, <3>3 DEF Due
    <3>. QED BY <3>1, <3>2, <3>3
  <2>2. /\ g \in Frames /\ g.invoice = i /\ g.result = "none" /\ g.kind = f.kind
        /\ g.paid = invoice[i].paid /\ g.amount = due
    BY <1>2, <2>1 DEF Frames
  <2>3. Fits("charge", g, recorded', appended')
    BY <1>1, <1>2, <2>1, <2>2 DEF Fits
  <2>4. /\ pc' \in [Payer -> Steps] /\ frame' \in [Payer -> Frames]
        /\ \A q \in Payer : Fits(pc'[q], frame'[q], recorded', appended')
    BY <1>1, <1>5, <2>2, <2>3, UnderWay, GoFits DEF Steps
  <2>. QED BY <1>1, <2>4 DEF PayInv, RequestsOK, ReadInvoice, Counters
<1>. QED BY <1>3, <1>4, <1>5 DEF ReadInvoice

\* An exception ends the request if the charge succeeded, and rejects the invoice if the
\* card was declined.
LEMMA ThrowFits ==
    ASSUME PayInv, NEW p \in Payer, NEW f, f.result \in {"none", "captured", "declined", "error"},
           f.result = "declined" => f \in Frames /\ f.invoice \in Invoice,
           Throw(p, f), recorded' = recorded, appended' = appended
    PROVE  /\ pc' \in [Payer -> Steps] /\ frame' \in [Payer -> Frames]
           /\ \A q \in Payer : Fits(pc'[q], frame'[q], recorded', appended')
<1>. DEFINE g == [f EXCEPT !.result = "declined", !.update = [status |-> "REJECTED", paid |-> KEEP]]
<1>1. CASE f.result # "declined"
  <2>1. Go(p, "idle", g)
    BY <1>1 DEF Throw, AfterThrow
  <2>. QED BY <2>1, DoneFits
<1>2. CASE f.result = "declined"
  <2>1. Go(p, "record", g)
    BY <1>2 DEF Throw, AfterThrow
  <2>2. /\ g \in Frames /\ g.invoice \in Invoice /\ g.result = "declined"
        /\ g.update = [status |-> "REJECTED", paid |-> KEEP]
    BY <1>2 DEF Frames, Updates, InvoiceStatus
  <2>3. Fits("record", g, recorded', appended')
    BY <2>2 DEF Fits
  <2>4. recorded' \in [Invoice -> Nat] /\ \A i \in Invoice : recorded[i] <= recorded'[i]
    BY DEF PayInv, StoresOK
  <2>. QED BY <2>1, <2>2, <2>3, <2>4, GoFits DEF Steps
<1>. QED BY <1>1, <1>2

LEMMA ChargePay == ASSUME PayInv, NEW p \in Payer, Charge(p) PROVE PayInv'
<1>. DEFINE f == frame[p]
            i == f.invoice
            sum == f.paid + f.amount
            after == PaidAfter(f.kind, Bill[i], f.paid, f.amount)
            u == [status |-> StatusPaid(f.kind, Bill[i], after), paid |-> after]
<1>1. /\ pc[p] = "charge" /\ f \in Frames /\ i \in Invoice /\ f.result = "none"
      /\ f.paid \in Nat /\ f.amount \in Nat /\ Bill[i] \in Nat /\ recorded[i] \in Nat
      /\ i \notin appended => f.paid <= recorded[i]
      /\ f.kind = "auto" => sum = Bill[i]
      /\ f.kind \in {"auto", "manual"}
  BY UnderWay, FrameFields DEF Charge, Fits
<1>2. captured' \in [Invoice -> Nat]
  BY <1>1 DEF Charge, PayInv, StoresOK
<1>3. recorded' = recorded /\ appended' = appended /\ StoresOK' /\ PaidIsCovered'
  BY <1>2, KeepsStores DEF Charge, PayInv, StoresOK
<1>0. /\ requests' \in 0..MaxRequests /\ crashes' \in 0..MaxCrashes
      /\ (overlapped \cup dropped \cup appended)' \subseteq Invoice /\ disturbed' \subseteq Disturbance
  BY <1>1 DEF PayInv, RequestsOK, Charge
<1>6. after \in Nat /\ sum <= after /\ (f.kind = "auto" => after = sum)
  BY <1>1, PaidAfterGrows
<1>. HIDE DEF after
<1>4. CASE Go(p, "record", [f EXCEPT !.result = "captured", !.update = u])
  <2>. DEFINE g == [f EXCEPT !.result = "captured", !.update = u]
  <2>1. u.status \in {"PAID", "PARTIALLY_PAID"} /\ u.paid = after
    BY DEF StatusPaid
  <2>2. u.status = "PAID" => Bill[i] <= after
    BY <1>1, <1>6 DEF StatusPaid
  <2>3. u \in Updates
    BY <1>6, <2>1 DEF Updates, InvoiceStatus
  <2>4. /\ g \in Frames /\ g.invoice = i /\ g.result = "captured" /\ g.update = u
        /\ g.paid = f.paid /\ g.amount = f.amount
    BY <1>1, <2>3 DEF Frames
  <2>5. i \notin appended => sum <= recorded[i] + f.amount
    BY <1>1
  <2>6. Charged("record", g, recorded', appended')
    BY <1>1, <1>3, <1>6, <2>1, <2>2, <2>4, <2>5 DEF Charged
  <2>7. Fits("record", g, recorded', appended')
    BY <1>1, <2>4, <2>6 DEF Fits
  <2>8. /\ pc' \in [Payer -> Steps] /\ frame' \in [Payer -> Frames]
        /\ \A q \in Payer : Fits(pc'[q], frame'[q], recorded', appended')
    BY <1>1, <1>3, <1>4, <2>4, <2>7, UnderWay, GoFits DEF Steps
  <2>. QED BY <1>0, <1>3, <2>8 DEF PayInv, RequestsOK
<1>5. ASSUME NEW result \in {"declined", "error"}, Throw(p, [f EXCEPT !.result = result])
      PROVE  PayInv'
  <2>. DEFINE g == [f EXCEPT !.result = result]
  <2>1. g.result = result /\ g.invoice = i /\ (result = "declined" => g \in Frames)
    BY <1>1 DEF Frames
  <2>2. /\ g.result \in {"none", "captured", "declined", "error"} /\ Throw(p, g)
        /\ g.result = "declined" => g \in Frames /\ g.invoice \in Invoice
        /\ recorded' = recorded /\ appended' = appended
    BY <1>1, <1>3, <1>5, <2>1
  <2>. HIDE DEF g
  <2>3. /\ pc' \in [Payer -> Steps] /\ frame' \in [Payer -> Frames]
        /\ \A q \in Payer : Fits(pc'[q], frame'[q], recorded', appended')
    BY <2>2, ThrowFits
  <2>. QED BY <1>0, <1>3, <2>3 DEF PayInv, RequestsOK
<1>. QED BY <1>4, <1>5 DEF Charge, after

LEMMA RecordPay == ASSUME PayInv, NEW p \in Payer, Record(p) PROVE PayInv'
<1>. DEFINE f == frame[p]
            i == f.invoice
<1>1. /\ pc[p] = "record" /\ f \in Frames /\ i \in Invoice /\ f.result # "none"
      /\ f.amount \in Nat /\ recorded \in [Invoice -> Nat] /\ recorded[i] \in Nat
      /\ f.result = "captured" => Charged("record", f, recorded, appended)
      /\ Fits("record", f, recorded, appended)
  BY UnderWay, FrameFields DEF Record, Fits
<1>2. /\ recorded' \in [Invoice -> Nat]
      /\ f.result = "captured" => recorded'[i] = recorded[i] + f.amount
      /\ f.result # "captured" => recorded' = recorded
      /\ \A j \in Invoice : recorded[j] <= recorded'[j]
      /\ appended' = appended
  BY <1>1 DEF Record, Counters
<1>3. Go(p, "find", f)
  BY DEF Record
<1>4. f.result = "captured" => Charged("find", f, recorded', appended')
  BY <1>1, <1>2 DEF Charged
<1>5. Fits("find", f, recorded', appended')
  BY <1>1, <1>4 DEF Fits
<1>6. /\ pc' \in [Payer -> Steps] /\ frame' \in [Payer -> Frames]
      /\ \A q \in Payer : Fits(pc'[q], frame'[q], recorded', appended')
  BY <1>1, <1>2, <1>3, <1>5, GoFits DEF Steps
<1>7. StoresOK'
  BY <1>2 DEF Record, PayInv, StoresOK
<1>8. PaidIsCovered'
  <2>. SUFFICES ASSUME NEW j \in Invoice \ appended
                PROVE  /\ invoice[j].status = "PAID" => recorded'[j] >= Bill[j]
                       /\ invoice[j].paid <= recorded'[j]
    BY <1>2 DEF PaidIsCovered, Record
  <2>1. /\ invoice[j].status = "PAID" => recorded[j] >= Bill[j]
        /\ invoice[j].paid <= recorded[j] /\ invoice[j].paid \in Nat
    BY DEF PayInv, PaidIsCovered, StoresOK, Documents
  <2>2. recorded[j] \in Nat /\ recorded'[j] \in Nat /\ Bill[j] \in Nat /\ recorded[j] <= recorded'[j]
    BY <1>1, <1>2
  <2>. QED BY <2>1, <2>2
<1>. QED BY <1>6, <1>7, <1>8 DEF PayInv, RequestsOK, Record, Counters

LEMMA FindInvoicePay == ASSUME PayInv, NEW p \in Payer, FindInvoice(p) PROVE PayInv'
<1>. DEFINE f == frame[p]
<1>1. /\ pc[p] = "find" /\ f \in Frames /\ f.invoice \in Invoice /\ Fits("find", f, recorded, appended)
  BY UnderWay DEF FindInvoice
<1>2. recorded' = recorded /\ appended' = appended /\ StoresOK' /\ PaidIsCovered'
  BY KeepsStores DEF Counters, FindInvoice, Stores, PayInv, StoresOK
<1>3. CASE Go(p, "write", f)
  <2>1. Fits("write", f, recorded', appended')
    BY <1>1, <1>2 DEF Fits, Charged
  <2>2. /\ pc' \in [Payer -> Steps] /\ frame' \in [Payer -> Frames]
        /\ \A q \in Payer : Fits(pc'[q], frame'[q], recorded', appended')
    BY <1>1, <1>2, <1>3, <2>1, UnderWay, GoFits DEF Steps
  <2>. QED BY <1>2, <2>2 DEF PayInv, RequestsOK, FindInvoice, Counters
<1>4. CASE f.result = "captured" /\ Throw(p, f)
  BY <1>2, <1>4, ThrowFits DEF PayInv, RequestsOK, FindInvoice, Counters
<1>5. CASE Done(p)
  BY <1>2, <1>5, DoneFits DEF PayInv, RequestsOK, FindInvoice, Counters, Done
<1>. QED BY <1>3, <1>4, <1>5 DEF FindInvoice

\* The write of the invoice, by its id alone: whatever it overwrites, what it says is
\* covered by the transactions recorded before.
LEMMA WriteInvoicePay == ASSUME PayInv, NEW p \in Payer, WriteInvoice(p) PROVE PayInv'
<1>. DEFINE f == frame[p]
            i == f.invoice
            paid == IF f.update.paid = KEEP THEN invoice[i].paid ELSE f.update.paid
            doc == [status |-> f.update.status, paid |-> paid]
<1>1. /\ pc[p] = "write" /\ f \in Frames /\ i \in Invoice /\ Fits("write", f, recorded, appended)
      /\ recorded[i] \in Nat /\ Bill[i] \in Nat
      /\ invoice[i] \in Documents /\ (i \notin appended => invoice[i].paid <= recorded[i])
  BY UnderWay DEF WriteInvoice
<1>2. /\ recorded' = recorded /\ invoice' = [invoice EXCEPT ![i] = doc]
      /\ appended \subseteq appended' /\ appended' \subseteq appended \cup {i}
      /\ i \notin appended' => f.update.paid \in {KEEP, f.paid + f.amount}
  BY DEF WriteInvoice
<1>3. doc \in Documents
  BY <1>1, FrameFields DEF Documents, Updates
<1>4. ASSUME i \notin appended'
      PROVE  paid <= recorded[i] /\ (f.update.status = "PAID" => Bill[i] <= recorded[i])
  <2>0. i \notin appended /\ f.update.paid \in {KEEP, f.paid + f.amount}
    BY <1>2, <1>4
  <2>1. CASE f.result = "captured"
    <3>1. Charged("write", f, recorded, appended) /\ f.paid \in Nat /\ f.amount \in Nat
      BY <1>1, <2>1, FrameFields DEF Fits
    <3>2. f.update.paid = f.paid + f.amount /\ f.update.paid <= recorded[i]
      BY <1>1, <2>0, <3>1 DEF Charged, KEEP
    <3>3. paid = f.update.paid
      BY <3>1, <3>2 DEF KEEP
    <3>4. f.update.status = "PAID" => Bill[i] <= f.update.paid
      BY <3>1 DEF Charged
    <3>. QED BY <1>1, <3>1, <3>2, <3>3, <3>4
  <2>2. CASE f.result = "declined"
    BY <1>1, <2>0, <2>2 DEF Fits
  <2>3. CASE f.result = "none"
    BY <1>1, <2>0, <2>3 DEF Fits
  <2>. QED BY <1>1, <2>1, <2>2, <2>3, FrameFields
<1>5. StoresOK'
  BY <1>1, <1>2, <1>3, <1>4 DEF PayInv, StoresOK, WriteInvoice
<1>6. PaidIsCovered'
  <2>. SUFFICES ASSUME NEW j \in Invoice, j \notin appended'
                PROVE  /\ invoice'[j].status = "PAID" => recorded[j] >= Bill[j]
                       /\ invoice'[j].paid <= recorded[j]
    BY <1>2 DEF PaidIsCovered
  <2>1. CASE j = i
    <3>1. invoice'[j] = doc
      BY <1>2, <2>1 DEF PayInv, StoresOK
    <3>. QED BY <1>1, <1>4, <2>1, <3>1
  <2>2. CASE j # i
    <3>1. invoice'[j] = invoice[j] /\ j \notin appended
      BY <1>2, <2>2 DEF PayInv, StoresOK
    <3>. QED BY <3>1 DEF PayInv, PaidIsCovered
  <2>. QED BY <2>1, <2>2
<1>7. ASSUME NEW next \in {"send", "blame"}, Go(p, next, f),
             next = "send" => f.result = "captured", next = "blame" => f.result = "declined"
      PROVE  /\ pc' \in [Payer -> Steps] /\ frame' \in [Payer -> Frames]
             /\ \A q \in Payer : Fits(pc'[q], frame'[q], recorded', appended')
  <2>1. Fits(next, f, recorded, appended)
    BY <1>1, <1>7 DEF Fits, Charged
  <2>2. /\ recorded' \in [Invoice -> Nat] /\ recorded \in [Invoice -> Nat]
        /\ \A j \in Invoice : recorded[j] <= recorded'[j]
    BY <1>1, <1>2, UnderWay
  <2>3. Fits(next, f, recorded', appended')
    BY <1>1, <1>2, <2>1, <2>2, FitsGrows
  <2>. QED BY <1>1, <1>2, <1>7, <2>2, <2>3, GoFits DEF Steps
<1>8. ASSUME Done(p), f.result = "none"
      PROVE  /\ pc' \in [Payer -> Steps] /\ frame' \in [Payer -> Frames]
             /\ \A q \in Payer : Fits(pc'[q], frame'[q], recorded', appended')
  <2>1. /\ recorded' \in [Invoice -> Nat] /\ \A j \in Invoice : recorded[j] <= recorded'[j]
    BY <1>1, <1>2, UnderWay
  <2>. QED BY <1>2, <1>8, <2>1, EmptyFrameType, GoFits DEF Steps, Done
<1>9. disturbed' \subseteq Disturbance /\ appended' \subseteq Invoice
  BY <1>1, <1>2 DEF WriteInvoice, PayInv, RequestsOK, Disturbance
<1>. QED BY <1>5, <1>6, <1>7, <1>8, <1>9 DEF PayInv, RequestsOK, WriteInvoice

LEMMA SendInvoicePay == ASSUME PayInv, NEW p \in Payer, SendInvoice(p) PROVE PayInv'
<1>. DEFINE f == frame[p]
<1>1. /\ pc[p] = "send" /\ f \in Frames /\ f.invoice \in Invoice /\ Fits("send", f, recorded, appended)
      /\ f.result = "captured"
  BY UnderWay DEF SendInvoice, Fits
<1>2. recorded' = recorded /\ appended' = appended /\ StoresOK' /\ PaidIsCovered'
  BY KeepsStores DEF Counters, SendInvoice, Stores, PayInv, StoresOK
<1>3. /\ pc' \in [Payer -> Steps] /\ frame' \in [Payer -> Frames]
      /\ \A q \in Payer : Fits(pc'[q], frame'[q], recorded', appended')
  <2>1. CASE Go(p, "rejected", f)
    <3>1. Fits("rejected", f, recorded', appended')
      BY <1>1, <1>2 DEF Fits, Charged
    <3>. QED BY <1>1, <1>2, <2>1, <3>1, UnderWay, GoFits DEF Steps
  <2>2. CASE Done(p)
    BY <1>2, <2>2, DoneFits DEF Done
  <2>3. CASE Throw(p, f)
    BY <1>1, <1>2, <2>3, ThrowFits
  <2>. QED BY <2>1, <2>2, <2>3 DEF SendInvoice
<1>4. disturbed' \subseteq Disturbance
  BY DEF SendInvoice, PayInv, RequestsOK, Disturbance
<1>. QED BY <1>2, <1>3, <1>4 DEF PayInv, RequestsOK, SendInvoice, Counters

LEMMA FindRejectedPay == ASSUME PayInv, NEW p \in Payer, FindRejected(p) PROVE PayInv'
<1>. DEFINE f == frame[p]
<1>1. /\ pc[p] = "rejected" /\ f \in Frames /\ f.invoice \in Invoice /\ Fits("rejected", f, recorded, appended)
  BY UnderWay DEF FindRejected
<1>2. recorded' = recorded /\ appended' = appended /\ StoresOK' /\ PaidIsCovered'
  BY KeepsStores DEF Counters, FindRejected, Stores, PayInv, StoresOK
<1>3. /\ pc' \in [Payer -> Steps] /\ frame' \in [Payer -> Frames]
      /\ \A q \in Payer : Fits(pc'[q], frame'[q], recorded', appended')
  <2>1. CASE Go(p, "heal", f)
    <3>1. Fits("heal", f, recorded', appended')
      BY <1>1, <1>2 DEF Fits, Charged
    <3>. QED BY <1>1, <1>2, <2>1, <3>1, UnderWay, GoFits DEF Steps
  <2>2. CASE Done(p)
    BY <1>2, <2>2, DoneFits DEF Done
  <2>. QED BY <2>1, <2>2 DEF FindRejected
<1>. QED BY <1>2, <1>3 DEF PayInv, RequestsOK, FindRejected, Counters

\* The steps that end a request.
LEMMA LastStepPay ==
    ASSUME PayInv, NEW p \in Payer, Heal(p) \/ Blame(p) \/ Crash(p)
    PROVE  PayInv'
<1>1. /\ Done(p) /\ recorded' = recorded /\ invoice' = invoice /\ captured' = captured
      /\ appended' = appended
  BY DEF Heal, Blame, Crash, Stores, Counters
<1>2. team' \in TeamPaymentStatus
  BY DEF Heal, Blame, Crash, Stores, PayInv, StoresOK, TeamPaymentStatus
<1>3. StoresOK' /\ PaidIsCovered'
  BY <1>1, <1>2, KeepsStores DEF PayInv, StoresOK
<1>4. /\ pc' \in [Payer -> Steps] /\ frame' \in [Payer -> Frames]
      /\ \A q \in Payer : Fits(pc'[q], frame'[q], recorded', appended')
  BY <1>1, DoneFits DEF Done
<1>5. /\ requests' \in 0..MaxRequests /\ crashes' \in 0..MaxCrashes
      /\ (overlapped \cup dropped \cup appended)' \subseteq Invoice /\ disturbed' \subseteq Disturbance
  <2>1. CASE Heal(p) \/ Blame(p)
    BY <2>1 DEF Heal, Blame, Counters, PayInv, RequestsOK
  <2>2. CASE Crash(p)
    <3>1. frame[p].invoice \in Invoice
      BY <2>2, UnderWay DEF Crash
    <3>. QED BY <2>2, <3>1 DEF Crash, PayInv, RequestsOK, Disturbance
  <2>. QED BY <2>1, <2>2
<1>. QED BY <1>3, <1>4, <1>5 DEF PayInv, RequestsOK

LEMMA NextPay == ASSUME PayInv, [Next]_vars PROVE PayInv'
<1>1. CASE UNCHANGED vars
  BY <1>1 DEF vars, PayInv, StoresOK, RequestsOK, PaidIsCovered
<1>2. ASSUME NEW p \in Payer, Pay(p) PROVE PayInv'
  BY <1>2, RequestPay, ReadTeamPay, ReadInvoicePay, ChargePay, RecordPay, FindInvoicePay,
     WriteInvoicePay, SendInvoicePay, FindRejectedPay, LastStepPay DEF Pay
<1>. QED BY <1>1, <1>2 DEF Next

LEMMA InitPay == ASSUME Init PROVE PayInv
<1>1. StoresOK /\ PaidIsCovered
  BY DEF Init, StoresOK, PaidIsCovered, Documents, InvoiceStatus, TeamPaymentStatus
<1>2. RequestsOK
  BY EmptyFrameType DEF Init, RequestsOK, Steps
<1>3. \A p \in Payer : Fits(pc[p], frame[p], recorded, appended)
  BY DEF Init, Fits
<1>. QED BY <1>1, <1>2, <1>3 DEF PayInv

LEMMA PayInvariance == Spec => []PayInv
<1>1. Init => PayInv
  BY InitPay
<1>2. PayInv /\ [Next]_vars => PayInv'
  BY NextPay
<1>. QED BY <1>1, <1>2, PTL DEF Spec

-----------------------------------------------------------------------------
(***************************************************************************)
(* The accounts of an invoice                                              *)
(***************************************************************************)
Settled(i) ==
    /\ recorded[i] = captured[i] /\ captured[i] <= Bill[i]
    /\ captured[i] <= invoice[i].paid
    /\ i \notin appended => captured[i] = invoice[i].paid

\* The accounts while one request for the invoice is under way: after the charge first
\* the transactions and then paidAmount are behind, and until they have caught up the
\* invoice is open, as the request has read it.
Account(i, at, f) ==
    LET charged == f.result = "captured"
        paid == IF charged /\ at \in {"record", "find", "write"} THEN f.paid + f.amount ELSE invoice[i].paid
    IN  /\ captured[i] = recorded[i] + IF charged /\ at = "record" THEN f.amount ELSE 0
        /\ captured[i] <= Bill[i]
        /\ captured[i] <= paid
        /\ i \notin appended => captured[i] = paid
        /\ at = "charge" => captured[i] <= f.paid /\ (i \notin appended => captured[i] = f.paid)
        /\ at = "charge" \/ (charged /\ at \in {"record", "find"}) => invoice[i].status \notin Closed

Alone(i) == \A p, q \in Busy(i) : p = q

BooksInv == \A i \in Invoice \ (overlapped \cup dropped) :
    /\ Alone(i)
    /\ Busy(i) = {} => Settled(i)
    /\ \A p \in Busy(i) : Account(i, pc[p], frame[p])

\* A step of the request p disturbs no other invoice than its own.
LEMMA BooksStep ==
    ASSUME PayInv, BooksInv, NEW p \in Payer, pc[p] # "idle", NEW i \in Invoice,
           i = frame[p].invoice, NEW next, NEW f,
           Go(p, next, f), next # "idle" => f.invoice = i,
           overlapped' = overlapped, dropped \subseteq dropped',
           \A j \in Invoice : j # i =>
               /\ invoice'[j] = invoice[j] /\ recorded'[j] = recorded[j] /\ captured'[j] = captured[j]
               /\ j \in appended' <=> j \in appended,
           i \notin overlapped \cup dropped' /\ Account(i, pc[p], frame[p])
             => IF next = "idle" THEN Settled(i)' ELSE Account(i, next, f)'
    PROVE  BooksInv'
<1>. DEFINE g == IF next = "idle" THEN EmptyFrame ELSE f
<1>1. i \in Invoice /\ pc \in [Payer -> Steps] /\ frame \in [Payer -> Frames]
  BY UnderWay DEF PayInv, RequestsOK
<1>2. pc' = [pc EXCEPT ![p] = next] /\ frame' = [frame EXCEPT ![p] = g]
  BY DEF Go
<1>3. g.invoice = IF next = "idle" THEN 0 ELSE i
  BY EmptyFrameType
<1>4. 0 \notin Invoice
  OBVIOUS
<1>5. ASSUME NEW j \in Invoice, j # i, j \notin overlapped' \cup dropped'
      PROVE  /\ Alone(j)' /\ (Busy(j)' = {} => Settled(j)')
             /\ \A q \in Busy(j)' : Account(j, pc[q], frame[q])'
  <2>1. /\ Alone(j) /\ (Busy(j) = {} => Settled(j))
        /\ \A q \in Busy(j) : Account(j, pc[q], frame[q])
    BY <1>5 DEF BooksInv
  <2>2. Busy(j)' = Busy(j) /\ p \notin Busy(j)
    BY <1>1, <1>2, <1>3, <1>4, <1>5 DEF Busy
  <2>3. \A q \in Busy(j) : pc'[q] = pc[q] /\ frame'[q] = frame[q]
    BY <1>1, <1>2, <2>2 DEF Busy
  <2>4. /\ invoice'[j] = invoice[j] /\ recorded'[j] = recorded[j] /\ captured'[j] = captured[j]
        /\ j \in appended' <=> j \in appended
    BY <1>5
  <2>5. Alone(j)'
    BY <2>1, <2>2 DEF Alone
  <2>6. Settled(j)' <=> Settled(j)
    BY <2>4 DEF Settled
  <2>7. ASSUME NEW q \in Busy(j)' PROVE Account(j, pc[q], frame[q])'
    BY <2>1, <2>2, <2>3, <2>4, <2>7 DEF Account
  <2>. QED BY <2>1, <2>2, <2>5, <2>6, <2>7
<1>6. ASSUME i \notin overlapped' \cup dropped'
      PROVE  /\ Alone(i)' /\ (Busy(i)' = {} => Settled(i)')
             /\ \A q \in Busy(i)' : Account(i, pc[q], frame[q])'
  <2>1. p \in Busy(i) /\ Alone(i) /\ Account(i, pc[p], frame[p])
    BY <1>1, <1>6 DEF BooksInv, Busy
  <2>2. Busy(i) = {p}
    BY <2>1 DEF Alone
  <2>3. Busy(i)' = IF next = "idle" THEN {} ELSE {p}
    BY <1>1, <1>2, <1>3, <1>4, <2>2 DEF Busy
  <2>4. IF next = "idle" THEN Settled(i)' ELSE Account(i, next, f)'
    BY <1>6, <2>1
  <2>5. pc'[p] = next /\ frame'[p] = g
    BY <1>1, <1>2
  <2>6. CASE next = "idle"
    BY <2>3, <2>4, <2>6 DEF Alone
  <2>7. CASE next # "idle"
    <3>1. Account(i, pc[p], frame[p])'
      BY <2>4, <2>5, <2>7 DEF Account
    <3>. QED BY <2>3, <2>7, <3>1 DEF Alone
  <2>. QED BY <2>6, <2>7
<1>. QED BY <1>5, <1>6 DEF BooksInv

\* The locals and the invoice of a request, as they were before its step.
LEMMA Before ==
    ASSUME PayInv, NEW p \in Payer, pc[p] # "idle"
    PROVE  \E f \in Frames, i \in Invoice :
             /\ f = frame[p] /\ i = frame[p].invoice /\ i = f.invoice /\ Fits(pc[p], f, recorded, appended)
             /\ f.paid \in Nat /\ f.amount \in Nat /\ Bill[i] \in Nat
             /\ invoice[i].paid \in Nat /\ recorded[i] \in Nat /\ captured[i] \in Nat
             /\ invoice \in [Invoice -> Documents] /\ recorded \in [Invoice -> Nat]
             /\ captured \in [Invoice -> Nat]
<1>1. frame[p] \in Frames /\ frame[p].invoice \in Invoice
  BY UnderWay
<1>. QED BY <1>1, UnderWay, FrameFields DEF PayInv, StoresOK, Documents

LEMMA RequestBooks == ASSUME PayInv, BooksInv, NEW p \in Payer, Request(p) PROVE BooksInv'
<1>1. PICK i \in Invoice, kind \in {"auto", "manual"} :
      \E entered \in IF kind = "manual" THEN Amounts ELSE {0} :
        /\ Go(p, "team", [EmptyFrame EXCEPT !.kind = kind, !.invoice = i, !.entered = entered])
        /\ overlapped' = IF Busy(i) # {} THEN overlapped \cup {i} ELSE overlapped
  BY DEF Request
<1>2. PICK entered :
        Go(p, "team", [EmptyFrame EXCEPT !.kind = kind, !.invoice = i, !.entered = entered])
  BY <1>1
<1>. DEFINE f == [EmptyFrame EXCEPT !.kind = kind, !.invoice = i, !.entered = entered]
<1>3. f.invoice = i /\ f.result = "none"
  BY DEF EmptyFrame
<1>9. \A k \in Invoice : recorded[k] \in Nat
  BY DEF PayInv, StoresOK
<1>4. /\ pc \in [Payer -> Steps] /\ frame \in [Payer -> Frames]
      /\ pc' = [pc EXCEPT ![p] = "team"] /\ frame' = [frame EXCEPT ![p] = f]
  BY <1>2 DEF Go, PayInv, RequestsOK
<1>5. frame[p].invoice = 0 /\ 0 \notin Invoice
  BY EmptyFrameType DEF Request, PayInv, Fits
<1>6. /\ dropped' = dropped /\ invoice' = invoice /\ recorded' = recorded /\ captured' = captured
      /\ appended' = appended
  BY DEF Request, Stores
<1>. HIDE DEF f
<1>7. ASSUME NEW j \in Invoice, j \notin overlapped' \cup dropped'
      PROVE  /\ Alone(j)' /\ (Busy(j)' = {} => Settled(j)')
             /\ \A q \in Busy(j)' : Account(j, pc[q], frame[q])'
  <2>1. /\ Alone(j) /\ (Busy(j) = {} => Settled(j))
        /\ \A q \in Busy(j) : Account(j, pc[q], frame[q])
    BY <1>1, <1>6, <1>7 DEF BooksInv
  <2>2. CASE j # i
    <3>1. Busy(j)' = Busy(j) /\ p \notin Busy(j)
      BY <1>3, <1>4, <1>5, <2>2 DEF Busy
    <3>2. \A q \in Busy(j) : pc'[q] = pc[q] /\ frame'[q] = frame[q]
      BY <1>4, <3>1 DEF Busy
    <3>3. Alone(j)'
      BY <2>1, <3>1 DEF Alone
    <3>4. Settled(j)' <=> Settled(j)
      BY <1>6 DEF Settled
    <3>5. ASSUME NEW q \in Busy(j)' PROVE Account(j, pc[q], frame[q])'
      BY <1>6, <2>1, <3>1, <3>2, <3>5 DEF Account
    <3>. QED BY <2>1, <3>1, <3>3, <3>4, <3>5
  <2>3. CASE j = i
    <3>1. Busy(i) = {} /\ Settled(i)
      BY <1>1, <1>7, <2>1, <2>3
    <3>2. Busy(i)' = {p}
      BY <1>3, <1>4, <3>1 DEF Busy
    <3>3. Alone(i)'
      BY <3>2 DEF Alone
    <3>4. pc'[p] = "team" /\ frame'[p] = f
      BY <1>4
    <3>5. Account(i, pc[p], frame[p])'
      BY <1>3, <1>6, <1>9, <3>1, <3>4 DEF Account, Settled
    <3>. QED BY <2>3, <3>2, <3>3, <3>5
  <2>. QED BY <2>2, <2>3
<1>. QED BY <1>7 DEF BooksInv

\* Steps that leave the stores alone, and go on with the same charge or end with the
\* accounts settled.
LEMMA QuietBooks ==
    ASSUME PayInv, BooksInv, NEW p \in Payer, pc[p] # "idle", NEW next, NEW f,
           Go(p, next, f), next # "idle" => f.invoice = frame[p].invoice,
           invoice' = invoice, recorded' = recorded, captured' = captured, appended' = appended,
           overlapped' = overlapped, dropped \subseteq dropped',
           \A i \in Invoice : i = frame[p].invoice /\ i \notin overlapped \cup dropped' /\ Account(i, pc[p], frame[p])
             => IF next = "idle" THEN Settled(i) ELSE Account(i, next, f)
    PROVE  BooksInv'
<1>1. PICK i \in Invoice : i = frame[p].invoice
  BY UnderWay
<1>2. i \notin overlapped \cup dropped' /\ Account(i, pc[p], frame[p])
        => IF next = "idle" THEN Settled(i)' ELSE Account(i, next, f)'
  <2>1. Settled(i)' <=> Settled(i)
    BY DEF Settled
  <2>2. Account(i, next, f)' <=> Account(i, next, f)
    BY DEF Account
  <2>. QED BY <1>1, <2>1, <2>2
<1>. QED BY <1>1, <1>2, BooksStep

LEMMA ReadTeamBooks == ASSUME PayInv, BooksInv, NEW p \in Payer, ReadTeam(p) PROVE BooksInv'
<1>1. pc[p] = "team" /\ frame[p].result = "none" /\ frame[p] \in Frames
  BY UnderWay DEF ReadTeam, Fits
<1>2. PICK f : /\ f = [frame[p] EXCEPT !.team = IF frame[p].kind = "auto" THEN team ELSE "undefined"]
               /\ Go(p, "invoice", f)
  BY DEF ReadTeam
<1>3. f.invoice = frame[p].invoice /\ f.result = "none"
  BY <1>1, <1>2 DEF Frames
<1>4. \A i \in Invoice : Account(i, pc[p], frame[p]) => Account(i, "invoice", f)
  BY <1>1, <1>3 DEF Account
<1>. QED BY <1>1, <1>2, <1>3, <1>4, QuietBooks DEF ReadTeam, Stores, Counters

LEMMA ReadInvoiceBooks == ASSUME PayInv, BooksInv, NEW p \in Payer, ReadInvoice(p) PROVE BooksInv'
<1>1. pc[p] = "invoice"
  BY DEF ReadInvoice
<1>2. PICK f \in Frames, i \in Invoice :
        /\ f = frame[p] /\ i = frame[p].invoice /\ i = f.invoice /\ f.result = "none"
        /\ recorded[i] \in Nat /\ captured[i] \in Nat /\ invoice[i].paid \in Nat
  BY <1>1, Before DEF Fits
<1>3. /\ invoice' = invoice /\ recorded' = recorded /\ captured' = captured
      /\ appended' = appended /\ overlapped' = overlapped /\ dropped \subseteq dropped'
  BY DEF ReadInvoice, Stores, Counters
<1>4. Account(i, pc[p], frame[p]) => Settled(i)
  BY <1>1, <1>2 DEF Account, Settled
<1>5. CASE Done(p)
  BY <1>1, <1>2, <1>3, <1>4, <1>5, QuietBooks DEF Done
<1>6. CASE Go(p, "find", [f EXCEPT !.update = [status |-> "PAID", paid |-> KEEP]])
  <2>1. PICK g : /\ g = [f EXCEPT !.update = [status |-> "PAID", paid |-> KEEP]]
                 /\ Go(p, "find", g)
    BY <1>6
  <2>2. g.invoice = i /\ g.result = "none"
    BY <1>2, <2>1 DEF Frames
  <2>3. Settled(i) => Account(i, "find", g)
    BY <1>2, <2>2 DEF Account, Settled
  <2>4. \A j \in Invoice : j = frame[p].invoice /\ Account(j, pc[p], frame[p]) => Account(j, "find", g)
    BY <1>2, <1>4, <2>3
  <2>. QED BY <1>1, <1>2, <1>3, <2>1, <2>2, <2>4, QuietBooks
<1>7. CASE /\ invoice[i].status \notin Closed
           /\ Go(p, "charge", [f EXCEPT !.paid = invoice[i].paid, !.amount = Due(f.kind, Bill[i], invoice[i].paid, f.entered)])
  <2>1. PICK g : /\ g = [f EXCEPT !.paid = invoice[i].paid, !.amount = Due(f.kind, Bill[i], invoice[i].paid, f.entered)]
                 /\ Go(p, "charge", g)
    BY <1>7
  <2>2. g.invoice = i /\ g.result = "none" /\ g.paid = invoice[i].paid
    BY <1>2, <2>1 DEF Frames
  <2>3. Settled(i) => Account(i, "charge", g)
    BY <1>2, <1>7, <2>2 DEF Account, Settled
  <2>4. \A j \in Invoice : j = frame[p].invoice /\ Account(j, pc[p], frame[p]) => Account(j, "charge", g)
    BY <1>2, <1>4, <2>3
  <2>. QED BY <1>1, <1>2, <1>3, <2>1, <2>2, <2>4, QuietBooks
<1>. QED BY <1>2, <1>5, <1>6, <1>7 DEF ReadInvoice

\* The charge: from here on the transactions and paidAmount are behind, for ever if the
\* answer of Stripe is lost.
LEMMA ChargeBooks == ASSUME PayInv, BooksInv, NEW p \in Payer, Charge(p) PROVE BooksInv'
<1>1. pc[p] = "charge"
  BY DEF Charge
<1>2. PICK f \in Frames, i \in Invoice :
        /\ f = frame[p] /\ i = frame[p].invoice /\ i = f.invoice /\ f.result = "none"
        /\ f.paid \in Nat /\ f.amount \in Nat /\ f.paid + f.amount <= Bill[i] /\ Bill[i] \in Nat
        /\ recorded[i] \in Nat /\ captured[i] \in Nat /\ invoice[i].paid \in Nat
        /\ captured \in [Invoice -> Nat]
  BY <1>1, Before DEF Fits
<1>3. /\ invoice' = invoice /\ recorded' = recorded /\ appended' = appended
      /\ overlapped' = overlapped /\ dropped \subseteq dropped'
  BY DEF Charge
<1>. DEFINE after == PaidAfter(f.kind, Bill[i], f.paid, f.amount)
            u == [status |-> StatusPaid(f.kind, Bill[i], after), paid |-> after]
<1>4. CASE /\ captured' = [captured EXCEPT ![i] = @ + f.amount]
           /\ Go(p, "record", [f EXCEPT !.result = "captured", !.update = u])
  <2>1. PICK g : g = [f EXCEPT !.result = "captured", !.update = u] /\ Go(p, "record", g)
    BY <1>4
  <2>2. g.invoice = i /\ g.result = "captured" /\ g.paid = f.paid /\ g.amount = f.amount
    BY <1>2, <2>1 DEF Frames
  <2>3. captured'[i] = captured[i] + f.amount /\ \A j \in Invoice : j # i => captured'[j] = captured[j]
    BY <1>2, <1>4
  <2>4. Account(i, pc[p], frame[p]) => Account(i, "record", g)'
    BY <1>1, <1>2, <1>3, <2>2, <2>3 DEF Account
  <2>5. \A j \in Invoice : j # i =>
          /\ invoice'[j] = invoice[j] /\ recorded'[j] = recorded[j] /\ captured'[j] = captured[j]
          /\ j \in appended' <=> j \in appended
    BY <1>3, <2>3
  <2>6. pc[p] # "idle" /\ Go(p, "record", g) /\ g.invoice = i /\ i \in Invoice /\ i = frame[p].invoice
    BY <1>1, <1>2, <2>1, <2>2
  <2>. HIDE DEF u
  <2>. QED BY <1>3, <2>4, <2>5, <2>6, BooksStep
<1>5. CASE /\ captured' = [captured EXCEPT ![i] = @ + f.amount] /\ i \in dropped'
           /\ Throw(p, [f EXCEPT !.result = "error"])
  <2>1. [f EXCEPT !.result = "error"].result = "error"
    BY <1>2 DEF Frames
  <2>2. PICK g : Go(p, "idle", g)
    BY <1>5, <2>1 DEF Throw, AfterThrow
  <2>3. \A j \in Invoice : j # i =>
          /\ invoice'[j] = invoice[j] /\ recorded'[j] = recorded[j] /\ captured'[j] = captured[j]
          /\ j \in appended' <=> j \in appended
    BY <1>2, <1>3, <1>5
  <2>4. pc[p] # "idle" /\ i = frame[p].invoice
    BY <1>1, <1>2
  <2>5. i \in dropped'
    BY <1>5
  <2>. QED BY <1>3, <2>2, <2>3, <2>4, <2>5, BooksStep
<1>6. ASSUME NEW result \in {"declined", "error"}, Throw(p, [f EXCEPT !.result = result]), captured' = captured
      PROVE  BooksInv'
  <2>1. Account(i, pc[p], frame[p]) => Settled(i)
    BY <1>1, <1>2 DEF Account, Settled
  <2>2. PICK g : g = [[f EXCEPT !.result = result] EXCEPT !.result = "declined",
                                                         !.update = [status |-> "REJECTED", paid |-> KEEP]]
    OBVIOUS
  <2>3. g.invoice = i /\ g.result = "declined"
    BY <1>2, <2>2 DEF Frames
  <2>4. Settled(i) => Account(i, "record", g)
    BY <1>2, <2>3 DEF Account, Settled
  <2>5. [f EXCEPT !.result = result].result = result
    BY <1>2 DEF Frames
  <2>6. PICK next : /\ next = IF result = "declined" THEN "record" ELSE "idle"
                    /\ Go(p, next, g)
    BY <1>6, <2>2, <2>5 DEF Throw, AfterThrow
  <2>7. \A j \in Invoice : j = frame[p].invoice /\ Account(j, pc[p], frame[p])
          => IF next = "idle" THEN Settled(j) ELSE Account(j, next, g)
    BY <1>2, <2>1, <2>4, <2>6
  <2>8. next # "idle" => g.invoice = frame[p].invoice
    BY <1>2, <2>3
  <2>. HIDE <2>2
  <2>. QED BY <1>1, <1>3, <1>6, <2>6, <2>7, <2>8, QuietBooks
<1>. QED BY <1>2, <1>4, <1>5, <1>6 DEF Charge

LEMMA RecordBooks == ASSUME PayInv, BooksInv, NEW p \in Payer, Record(p) PROVE BooksInv'
<1>1. pc[p] = "record"
  BY DEF Record
<1>2. PICK f \in Frames, i \in Invoice :
        /\ f = frame[p] /\ i = frame[p].invoice /\ i = f.invoice
        /\ f.paid \in Nat /\ f.amount \in Nat /\ recorded \in [Invoice -> Nat]
        /\ recorded[i] \in Nat /\ captured[i] \in Nat /\ invoice[i].paid \in Nat
  BY <1>1, Before
<1>3. /\ invoice' = invoice /\ captured' = captured /\ Go(p, "find", f)
      /\ appended' = appended /\ overlapped' = overlapped /\ dropped \subseteq dropped'
  BY <1>2 DEF Record, Counters
<1>4. /\ recorded'[i] = IF f.result = "captured" THEN recorded[i] + f.amount ELSE recorded[i]
      /\ \A j \in Invoice : j # i => recorded'[j] = recorded[j]
  BY <1>2 DEF Record
<1>5. Account(i, pc[p], frame[p]) => Account(i, "find", f)'
  BY <1>1, <1>2, <1>3, <1>4 DEF Account
<1>. QED BY <1>1, <1>2, <1>3, <1>4, <1>5, BooksStep

\* An invoice with one request is still open when the request finds it: updateInvoice
\* throws for it only if another request has overlapped.
LEMMA FindInvoiceBooks == ASSUME PayInv, BooksInv, NEW p \in Payer, FindInvoice(p) PROVE BooksInv'
<1>1. pc[p] = "find"
  BY DEF FindInvoice
<1>2. PICK f \in Frames, i \in Invoice :
        /\ f = frame[p] /\ i = frame[p].invoice /\ i = f.invoice
        /\ f.paid \in Nat /\ f.amount \in Nat
        /\ recorded[i] \in Nat /\ captured[i] \in Nat /\ invoice[i].paid \in Nat
  BY <1>1, Before
<1>3. /\ invoice' = invoice /\ recorded' = recorded /\ captured' = captured
      /\ appended' = appended /\ overlapped' = overlapped /\ dropped \subseteq dropped'
  BY DEF FindInvoice, Stores, Counters
<1>4. CASE Go(p, "write", f)
  <2>1. \A j \in Invoice : j = frame[p].invoice /\ Account(j, pc[p], frame[p]) => Account(j, "write", f)
    BY <1>1, <1>2 DEF Account
  <2>. QED BY <1>1, <1>2, <1>3, <1>4, <2>1, QuietBooks
<1>5. CASE invoice[i].status = "PAID" /\ f.result = "captured" /\ Throw(p, f)
  <2>1. ~ Account(i, pc[p], frame[p])
    BY <1>1, <1>2, <1>5 DEF Account, Closed
  <2>2. Go(p, "idle", f)
    BY <1>5 DEF Throw, AfterThrow, Go
  <2>. QED BY <1>1, <1>2, <1>3, <2>1, <2>2, QuietBooks
<1>6. CASE f.result # "captured" /\ Done(p)
  <2>1. \A j \in Invoice : j = frame[p].invoice /\ Account(j, pc[p], frame[p]) => Settled(j)
    BY <1>1, <1>2, <1>6 DEF Account, Settled
  <2>. QED BY <1>1, <1>3, <1>6, <2>1, QuietBooks DEF Done
<1>. QED BY <1>2, <1>4, <1>5, <1>6 DEF FindInvoice

\* The write brings paidAmount up to the cards, or beyond.
LEMMA WriteInvoiceBooks == ASSUME PayInv, BooksInv, NEW p \in Payer, WriteInvoice(p) PROVE BooksInv'
<1>1. pc[p] = "write"
  BY DEF WriteInvoice
<1>2. PICK f \in Frames, i \in Invoice :
        /\ f = frame[p] /\ i = frame[p].invoice /\ i = f.invoice
        /\ f.paid \in Nat /\ f.amount \in Nat /\ Fits("write", f, recorded, appended)
        /\ recorded[i] \in Nat /\ captured[i] \in Nat /\ invoice[i].paid \in Nat
        /\ invoice \in [Invoice -> Documents]
  BY <1>1, Before
<1>3. /\ recorded' = recorded /\ captured' = captured
      /\ overlapped' = overlapped /\ dropped \subseteq dropped'
      /\ appended \subseteq appended' /\ \A j : j # i => (j \in appended' <=> j \in appended)
      /\ i \notin appended' => f.update.paid \in {KEEP, f.paid + f.amount}
  BY <1>2 DEF WriteInvoice
<1>. DEFINE sum == f.paid + f.amount
            paid == IF f.update.paid = KEEP THEN invoice[i].paid ELSE f.update.paid
<1>4. /\ invoice'[i].paid = paid /\ \A j \in Invoice : j # i => invoice'[j] = invoice[j]
  BY <1>2 DEF WriteInvoice
<1>5. IF f.result = "captured" THEN paid \in Nat /\ sum <= paid /\ (i \notin appended' => paid = sum)
                               ELSE paid = invoice[i].paid
  <2>1. CASE f.result = "captured"
    <3>1. f.update.paid \in Nat /\ sum <= f.update.paid
      BY <1>2, <2>1 DEF Fits, Charged
    <3>. QED BY <1>2, <1>3, <2>1, <3>1 DEF KEEP
  <2>2. CASE f.result # "captured"
    BY <1>2, <2>2, FrameFields DEF Fits
  <2>. QED BY <2>1, <2>2
<1>6. Account(i, "write", f) => Settled(i)'
  <2>. HIDE DEF paid
  <2>1. CASE f.result = "captured"
    BY <1>2, <1>3, <1>4, <1>5, <2>1 DEF Account, Settled
  <2>2. CASE f.result # "captured"
    BY <1>2, <1>3, <1>4, <1>5, <2>2 DEF Account, Settled
  <2>. QED BY <2>1, <2>2
<1>7. PICK next : /\ next \in {"send", "blame", "idle"} /\ Go(p, next, f)
                  /\ next = "send" => f.result = "captured"
                  /\ next = "blame" => f.result = "declined"
  BY <1>2 DEF WriteInvoice, Done, Go
<1>8. Account(i, "write", f) => IF next = "idle" THEN Settled(i)' ELSE Account(i, next, f)'
  <2>1. next # "idle" /\ Settled(i)' => Account(i, next, f)'
    BY <1>2, <1>3, <1>7 DEF Account, Settled
  <2>. QED BY <1>6, <2>1
<1>9. \A j \in Invoice : j # i =>
          /\ invoice'[j] = invoice[j] /\ recorded'[j] = recorded[j] /\ captured'[j] = captured[j]
          /\ j \in appended' <=> j \in appended
  BY <1>3, <1>4
<1>10. pc[p] # "idle" /\ i = frame[p].invoice /\ f.invoice = i
  BY <1>1, <1>2
<1>11. Account(i, pc[p], frame[p]) => IF next = "idle" THEN Settled(i)' ELSE Account(i, next, f)'
  BY <1>1, <1>2, <1>8
<1>12. Go(p, next, f) /\ overlapped' = overlapped /\ dropped \subseteq dropped'
  BY <1>3, <1>7
<1>. QED BY <1>9, <1>10, <1>11, <1>12, BooksStep

\* After the write the accounts are settled whatever happens.
LEMMA SettledBooks ==
    ASSUME PayInv, BooksInv, NEW p \in Payer,
           SendInvoice(p) \/ FindRejected(p) \/ Heal(p) \/ Blame(p)
    PROVE  BooksInv'
<1>1. pc[p] \in {"send", "rejected", "heal", "blame"}
  BY DEF SendInvoice, FindRejected, Heal, Blame
<1>2. PICK f \in Frames, i \in Invoice : /\ f = frame[p] /\ i = frame[p].invoice /\ i = f.invoice
                                         /\ Fits(pc[p], f, recorded, appended)
                                         /\ recorded[i] \in Nat /\ captured[i] \in Nat
                                         /\ invoice[i].paid \in Nat
  BY <1>1, Before
<1>3. /\ invoice' = invoice /\ recorded' = recorded /\ captured' = captured
      /\ appended' = appended /\ overlapped' = overlapped /\ dropped \subseteq dropped'
  BY DEF SendInvoice, FindRejected, Heal, Blame, Stores, Counters
<1>4. PICK next : next \in {"rejected", "heal", "idle"} /\ Go(p, next, f)
  <2>1. CASE SendInvoice(p)
    <3>1. f.result = "captured"
      BY <1>2, <2>1 DEF SendInvoice, Fits
    <3>. QED BY <1>2, <2>1, <3>1 DEF SendInvoice, Throw, AfterThrow, Done, Go
  <2>2. CASE FindRejected(p) \/ Heal(p) \/ Blame(p)
    BY <1>2, <2>2 DEF FindRejected, Heal, Blame, Done, Go
  <2>. QED BY <2>1, <2>2
<1>5. \A j \in Invoice : j = frame[p].invoice /\ Account(j, pc[p], frame[p])
        => IF next = "idle" THEN Settled(j) ELSE Account(j, next, f)
  BY <1>1, <1>2, <1>4 DEF Account, Settled
<1>. QED BY <1>1, <1>2, <1>3, <1>4, <1>5, QuietBooks

LEMMA CrashBooks == ASSUME PayInv, BooksInv, NEW p \in Payer, Crash(p) PROVE BooksInv'
<1>1. pc[p] # "idle" /\ Done(p)
  BY DEF Crash
<1>2. PICK f \in Frames, i \in Invoice : /\ f = frame[p] /\ i = frame[p].invoice
                                         /\ Fits(pc[p], f, recorded, appended)
                                         /\ recorded[i] \in Nat /\ captured[i] \in Nat
                                         /\ invoice[i].paid \in Nat
  BY <1>1, Before
<1>3. /\ invoice' = invoice /\ recorded' = recorded /\ captured' = captured
      /\ appended' = appended /\ overlapped' = overlapped /\ dropped \subseteq dropped'
      /\ f.result = "captured" /\ pc[p] \in {"record", "find", "write"} => i \in dropped'
  BY <1>2 DEF Crash, Stores
<1>4. i \notin dropped' /\ Account(i, pc[p], frame[p]) => Settled(i)
  BY <1>2, <1>3 DEF Account, Settled
<1>5. \A j \in Invoice : j = frame[p].invoice /\ j \notin overlapped \cup dropped' /\ Account(j, pc[p], frame[p])
        => Settled(j)
  BY <1>2, <1>4
<1>. QED BY <1>1, <1>3, <1>5, QuietBooks DEF Done

LEMMA BooksInvariance == Spec => []BooksInv
<1>1. Init => BooksInv
  <2>. SUFFICES ASSUME Init, NEW i \in Invoice PROVE Busy(i) = {} /\ Settled(i)
    BY Zenon DEF BooksInv, Alone
  <2>1. Busy(i) = {}
    BY EmptyFrameType DEF Init, Busy
  <2>2. invoice[i].paid = 0 /\ recorded[i] = 0 /\ captured[i] = 0 /\ Bill[i] \in Nat
    BY DEF Init
  <2>. QED BY <2>1, <2>2 DEF Settled
<1>2. PayInv /\ BooksInv /\ [Next]_vars => BooksInv'
  <2>. SUFFICES ASSUME PayInv, BooksInv, [Next]_vars PROVE BooksInv'
    OBVIOUS
  <2>1. CASE UNCHANGED vars
    BY <2>1 DEF vars, BooksInv, Busy, Alone, Settled, Account
  <2>2. ASSUME NEW p \in Payer, Pay(p) PROVE BooksInv'
    BY <2>2, RequestBooks, ReadTeamBooks, ReadInvoiceBooks, ChargeBooks, RecordBooks, FindInvoiceBooks,
       WriteInvoiceBooks, SettledBooks, CrashBooks DEF Pay
  <2>. QED BY <2>1, <2>2 DEF Next
<1>. QED BY <1>1, <1>2, PayInvariance, PTL DEF Spec

-----------------------------------------------------------------------------
(***************************************************************************)
(* The standing of the team                                                *)
(***************************************************************************)
SomeRejected(invoices) == \E i \in Invoice : invoices[i].status = "REJECTED"
Agree(standing, invoices) == standing = "DELINQUENT" <=> SomeRejected(invoices)

\* What the one request under way carries.  Up to its write the team's standing is right;
\* after it the request has the team's status as it was before, which is why it knows
\* whether to blame the team or to look for rejected invoices.
Stands(at, f, standing, invoices) ==
    LET i == f.invoice
    IN  /\ at \in {"team", "invoice", "charge", "record", "find", "write"} => Agree(standing, invoices)
        /\ at \notin {"idle", "team"} => f.team = IF f.kind = "auto" THEN standing ELSE "undefined"
        /\ at = "charge" => invoices[i].paid < Bill[i]
        /\ at \in {"record", "find", "write"} /\ f.result = "declined" => invoices[i].paid < Bill[i]
        /\ at \in {"find", "write"} /\ f.result = "none" => invoices[i].status # "REJECTED"
        /\ at = "send" => IF f.kind = "auto" THEN SomeRejected(invoices) => standing = "DELINQUENT"
                          ELSE Agree(standing, invoices)
        /\ at \in {"rejected", "heal"} => f.kind = "auto" /\ standing = "DELINQUENT"
        /\ at = "heal" => ~ SomeRejected(invoices)
        /\ at = "blame" => f.kind = "auto" /\ SomeRejected(invoices)

\* What is rejected is not paid in full, or a request with nothing to charge would mark it
\* PAID and leave the team as it is.
Unpaid(invoices) == \A i \in Invoice : invoices[i].status = "REJECTED" => invoices[i].paid < Bill[i]

AllIdle == \A p \in Payer : pc[p] = "idle"

StandInv == disturbed = {} =>
    /\ \A p, q \in Payer : pc[p] # "idle" /\ pc[q] # "idle" => p = q
    /\ Unpaid(invoice)
    /\ AllIdle => Agree(team, invoice)
    /\ \A p \in Payer : Stands(pc[p], frame[p], team, invoice)

\* A step of the one request under way.
LEMMA StandStep ==
    ASSUME PayInv, StandInv, NEW p \in Payer, pc[p] # "idle", NEW next, NEW f, Go(p, next, f),
           disturbed = {}, Unpaid(invoice'),
           next = "idle" => Agree(team', invoice'),
           next # "idle" => Stands(next, f, team', invoice')
    PROVE  StandInv'
<1>. DEFINE g == IF next = "idle" THEN EmptyFrame ELSE f
<1>1. /\ pc \in [Payer -> Steps] /\ frame \in [Payer -> Frames]
      /\ pc' = [pc EXCEPT ![p] = next] /\ frame' = [frame EXCEPT ![p] = g]
  BY DEF Go, PayInv, RequestsOK
<1>2. \A q \in Payer : q # p => pc'[q] = "idle"
  BY <1>1 DEF StandInv
<1>3. \A q \in Payer : pc'[q] = "idle" => Stands(pc'[q], frame'[q], team', invoice')
  BY DEF Stands
<1>4. pc'[p] = next /\ frame'[p] = g
  BY <1>1
<1>5. AllIdle' => next = "idle"
  BY <1>4 DEF AllIdle
<1>6. \A q \in Payer : Stands(pc'[q], frame'[q], team', invoice')
  BY <1>2, <1>3, <1>4
<1>7. \A q, r \in Payer : pc'[q] # "idle" /\ pc'[r] # "idle" => q = r
  BY <1>2
<1>. QED BY <1>5, <1>6, <1>7 DEF StandInv

\* What is known of an undisturbed request.
LEMMA Undisturbed ==
    ASSUME PayInv, StandInv, NEW p \in Payer, pc[p] # "idle", disturbed = {}
    PROVE  /\ Stands(pc[p], frame[p], team, invoice) /\ Unpaid(invoice)
           /\ frame[p] \in Frames /\ frame[p].invoice \in Invoice /\ frame[p].kind \in {"auto", "manual"}
           /\ Fits(pc[p], frame[p], recorded, appended)
           /\ invoice \in [Invoice -> Documents] /\ team \in TeamPaymentStatus
BY UnderWay, FrameFields DEF StandInv, PayInv, StoresOK

LEMMA Calmer == ASSUME NEW p \in Payer, Pay(p), disturbed' = {} PROVE disturbed = {}
BY DEF Pay, Request, ReadTeam, ReadInvoice, Charge, Record, FindInvoice, WriteInvoice,
       SendInvoice, FindRejected, Heal, Blame, Crash

LEMMA RequestStands ==
    ASSUME PayInv, StandInv, NEW p \in Payer, Request(p), disturbed = {}, disturbed' = {}
    PROVE  StandInv'
<1>1. PICK f : Go(p, "team", f)
  BY DEF Request
<1>2. AllIdle
  BY DEF Request, AllIdle
<1>3. team' = team /\ invoice' = invoice /\ Agree(team, invoice) /\ Unpaid(invoice)
  BY <1>2 DEF Request, Stores, StandInv
<1>4. pc[p] = "idle" /\ pc \in [Payer -> Steps] /\ frame \in [Payer -> Frames]
  BY DEF Request, PayInv, RequestsOK
<1>5. pc' = [pc EXCEPT ![p] = "team"] /\ frame' = [frame EXCEPT ![p] = f]
  BY <1>1 DEF Go
<1>6. pc'[p] = "team" /\ \A q \in Payer : q # p => pc'[q] = "idle"
  BY <1>2, <1>4, <1>5 DEF AllIdle
<1>7. \A q \in Payer : Stands(pc'[q], frame'[q], team', invoice')
  BY <1>3, <1>6 DEF Stands
<1>. QED BY <1>3, <1>6, <1>7 DEF StandInv, AllIdle

\* Steps before the write that leave the documents alone.
LEMMA EarlyStands ==
    ASSUME PayInv, StandInv, NEW p \in Payer, disturbed = {},
           ReadTeam(p) \/ ReadInvoice(p) \/ Charge(p) \/ Record(p) \/ FindInvoice(p)
    PROVE  StandInv'
<1>1. team' = team /\ invoice' = invoice /\ pc[p] \in {"team", "invoice", "charge", "record", "find"}
  BY DEF ReadTeam, ReadInvoice, Charge, Record, FindInvoice, Stores
<1>2. /\ Agree(team, invoice) /\ Unpaid(invoice) /\ frame[p] \in Frames /\ frame[p].invoice \in Invoice
      /\ Stands(pc[p], frame[p], team, invoice) /\ Fits(pc[p], frame[p], recorded, appended)
      /\ invoice \in [Invoice -> Documents]
  BY <1>1, Undisturbed DEF Stands
<1>3. CASE Done(p)
  BY <1>1, <1>2, <1>3, StandStep DEF Done
<1>4. CASE ReadTeam(p)
  <2>1. PICK f : /\ f = [frame[p] EXCEPT !.team = IF frame[p].kind = "auto" THEN team ELSE "undefined"]
                 /\ Go(p, "invoice", f)
    BY <1>4 DEF ReadTeam
  <2>2. f.team = (IF f.kind = "auto" THEN team ELSE "undefined") /\ f.invoice = frame[p].invoice
    BY <1>2, <2>1 DEF Frames
  <2>3. Stands("invoice", f, team, invoice)
    BY <1>2, <2>2 DEF Stands
  <2>. QED BY <1>1, <1>2, <2>1, <2>3, StandStep
<1>5. CASE ReadInvoice(p) /\ ~ Done(p)
  <2>. DEFINE i == frame[p].invoice
  <2>1. pc[p] = "invoice" /\ frame[p].result = "none"
    BY <1>2, <1>5 DEF ReadInvoice, Fits
  <2>0. Bill[i] \in Nat /\ invoice[i].paid \in Nat
    <3>1. invoice[i] \in Documents /\ Bill[i] \in Nat
      BY <1>2
    <3>. QED BY <3>1 DEF Documents
  <2>2. PICK next, f :
          /\ next \in {"find", "charge"}
          /\ Go(p, next, f) /\ f.invoice = i /\ f.kind = frame[p].kind /\ f.team = frame[p].team
          /\ f.result = "none"
          /\ next = "find" => Bill[i] <= invoice[i].paid
          /\ next = "charge" => Bill[i] > invoice[i].paid
    <3>1. CASE Bill[i] <= invoice[i].paid
      <4>. DEFINE f == [frame[p] EXCEPT !.update = [status |-> "PAID", paid |-> KEEP]]
      <4>1. Go(p, "find", f)
        BY <1>2, <1>5, <3>1 DEF ReadInvoice, Documents
      <4>2. f.invoice = i /\ f.kind = frame[p].kind /\ f.team = frame[p].team /\ f.result = "none"
        BY <1>2, <2>1 DEF Frames
      <4>. HIDE DEF f
      <4>. QED BY <3>1, <4>1, <4>2
    <3>2. CASE Bill[i] > invoice[i].paid
      <4>. DEFINE f == [frame[p] EXCEPT !.paid = invoice[i].paid,
                                       !.amount = Due(frame[p].kind, Bill[i], invoice[i].paid, frame[p].entered)]
      <4>1. Go(p, "charge", f)
        BY <1>2, <1>5, <3>2 DEF ReadInvoice, Documents
      <4>2. f.invoice = i /\ f.kind = frame[p].kind /\ f.team = frame[p].team /\ f.result = "none"
        BY <1>2, <2>1 DEF Frames
      <4>. HIDE DEF f
      <4>. QED BY <3>2, <4>1, <4>2
    <3>3. Bill[i] <= invoice[i].paid \/ Bill[i] > invoice[i].paid
      BY <2>0
    <3>. QED BY <3>1, <3>2, <3>3
  <2>3. next = "find" => invoice[i].status # "REJECTED"
    <3>1. invoice[i].status = "REJECTED" => invoice[i].paid < Bill[i]
      BY <1>2 DEF Unpaid
    <3>. QED BY <2>0, <2>2, <3>1
  <2>4. next = "charge" => invoice[i].paid < Bill[i]
    BY <2>2
  <2>5. Stands(next, f, team, invoice)
    BY <1>2, <2>1, <2>2, <2>3, <2>4 DEF Stands
  <2>. QED BY <1>1, <1>2, <2>2, <2>5, StandStep
<1>6. CASE Charge(p)
  <2>1. pc[p] = "charge" /\ frame[p].result = "none" /\ invoice[frame[p].invoice].paid < Bill[frame[p].invoice]
    BY <1>2, <1>6 DEF Charge, Fits, Stands
  <2>2. PICK f : /\ Go(p, "record", f) \/ Go(p, "idle", f)
                 /\ f.invoice = frame[p].invoice /\ f.kind = frame[p].kind /\ f.team = frame[p].team
                 /\ f.result # "none"
    <3>. DEFINE x(r) == [frame[p] EXCEPT !.result = r]
                y(r) == [x(r) EXCEPT !.result = "declined", !.update = [status |-> "REJECTED", paid |-> KEEP]]
                z(u) == [frame[p] EXCEPT !.result = "captured", !.update = u]
    <3>1. (\E u : Go(p, "record", z(u))) \/ (\E r : Go(p, "record", y(r)) \/ Go(p, "idle", y(r)))
      BY <1>6 DEF Charge, Throw, AfterThrow
    <3>2. \A u : z(u).invoice = frame[p].invoice /\ z(u).kind = frame[p].kind /\ z(u).team = frame[p].team
                 /\ z(u).result # "none"
      BY <1>2 DEF Frames
    <3>3. \A r : y(r).invoice = frame[p].invoice /\ y(r).kind = frame[p].kind /\ y(r).team = frame[p].team
                 /\ y(r).result # "none"
      BY <1>2 DEF Frames
    <3>. HIDE DEF y, z
    <3>. QED BY <3>1, <3>2, <3>3
  <2>3. Stands("record", f, team, invoice)
    BY <1>2, <2>1, <2>2 DEF Stands
  <2>4. Go(p, "record", f) => StandInv'
    BY <1>1, <1>2, <2>3, StandStep
  <2>5. Go(p, "idle", f) => StandInv'
    BY <1>1, <1>2, StandStep
  <2>. QED BY <2>2, <2>4, <2>5
<1>7. CASE Record(p)
  <2>1. pc[p] = "record" /\ Go(p, "find", frame[p]) /\ frame[p].result # "none"
    BY <1>2, <1>7 DEF Record, Fits
  <2>2. Stands("find", frame[p], team, invoice)
    BY <1>2, <2>1 DEF Stands
  <2>. QED BY <1>1, <1>2, <2>1, <2>2, StandStep
<1>8. CASE FindInvoice(p) /\ ~ Done(p)
  <2>1. pc[p] = "find" /\ (Go(p, "write", frame[p]) \/ (frame[p].result = "captured" /\ Throw(p, frame[p])))
    BY <1>8 DEF FindInvoice
  <2>2. Stands("write", frame[p], team, invoice)
    BY <1>2, <2>1 DEF Stands
  <2>3. frame[p].result = "captured" /\ Throw(p, frame[p]) => \E f : Go(p, "idle", f)
    BY DEF Throw, AfterThrow
  <2>4. ASSUME NEW f, Go(p, "idle", f) PROVE StandInv'
    BY <1>1, <1>2, <2>4, StandStep
  <2>5. Go(p, "write", frame[p]) => StandInv'
    BY <1>1, <1>2, <2>2, StandStep
  <2>. QED BY <2>1, <2>3, <2>4, <2>5
<1>. QED BY <1>3, <1>4, <1>5, <1>6, <1>7, <1>8

\* The write: a card that was declined rejects the invoice, a charge takes it out of the
\* rejected ones.
LEMMA WriteStands ==
    ASSUME PayInv, StandInv, NEW p \in Payer, WriteInvoice(p), disturbed = {}, disturbed' = {}
    PROVE  StandInv'
<1>. DEFINE i == frame[p].invoice
            paid == IF frame[p].update.paid = KEEP THEN invoice[i].paid ELSE frame[p].update.paid
            doc == [status |-> frame[p].update.status, paid |-> paid]
<1>1. /\ pc[p] = "write" /\ team' = team /\ invoice' = [invoice EXCEPT ![i] = doc]
      /\ frame[p].kind = "manual" => "REJECTED" \notin {invoice[i].status, frame[p].update.status}
  BY DEF WriteInvoice
<1>2. /\ Agree(team, invoice) /\ Unpaid(invoice) /\ frame[p] \in Frames /\ i \in Invoice
      /\ frame[p].kind \in {"auto", "manual"}
      /\ Stands("write", frame[p], team, invoice) /\ Fits("write", frame[p], recorded, appended)
      /\ invoice \in [Invoice -> Documents]
  BY <1>1, Undisturbed DEF Stands
<1>. HIDE DEF i, doc
<1>3. invoice'[i] = doc /\ \A j \in Invoice : j # i => invoice'[j] = invoice[j]
  BY <1>1, <1>2
<1>4. frame[p].team = IF frame[p].kind = "auto" THEN team ELSE "undefined"
  BY <1>2 DEF Stands
<1>5. CASE frame[p].result = "captured"
  <2>1. Go(p, "send", frame[p]) /\ doc.status # "REJECTED"
    BY <1>2, <1>5 DEF WriteInvoice, Fits, Charged, doc
  <2>2. Unpaid(invoice')
    BY <1>2, <1>3, <2>1 DEF Unpaid
  <2>3. SomeRejected(invoice') => SomeRejected(invoice)
    BY <1>3, <2>1 DEF SomeRejected
  <2>4. frame[p].kind = "manual" => (SomeRejected(invoice) => SomeRejected(invoice'))
    BY <1>1, <1>3 DEF SomeRejected, i
  <2>5. IF frame[p].kind = "auto" THEN SomeRejected(invoice') => team = "DELINQUENT" ELSE Agree(team, invoice')
    BY <1>2, <2>3, <2>4 DEF Agree
  <2>6. Stands("send", frame[p], team', invoice')
    BY <1>1, <1>4, <2>5 DEF Stands
  <2>. QED BY <1>1, <2>1, <2>2, <2>6, StandStep
<1>6. CASE frame[p].result = "declined"
  <2>1. Go(p, "blame", frame[p]) /\ frame[p].update = [status |-> "REJECTED", paid |-> KEEP]
    BY <1>2, <1>6 DEF WriteInvoice, Fits
  <2>2. doc.status = "REJECTED" /\ doc.paid = invoice[i].paid /\ invoice[i].paid < Bill[i]
    BY <1>2, <1>6, <2>1 DEF Stands, doc, i
  <2>3. Unpaid(invoice')
    BY <1>2, <1>3, <2>2 DEF Unpaid
  <2>4. frame[p].kind = "auto" /\ SomeRejected(invoice')
    BY <1>1, <1>2, <1>3, <2>1, <2>2 DEF SomeRejected
  <2>5. Stands("blame", frame[p], team', invoice')
    BY <1>1, <1>4, <2>4 DEF Stands
  <2>. QED BY <1>1, <2>1, <2>3, <2>5, StandStep
<1>7. CASE frame[p].result = "none"
  <2>1. Done(p) /\ frame[p].update = [status |-> "PAID", paid |-> KEEP]
    BY <1>2, <1>7 DEF WriteInvoice, Fits
  <2>2. doc.status = "PAID" /\ invoice[i].status # "REJECTED"
    BY <1>2, <1>7, <2>1 DEF Stands, doc, i
  <2>3. Unpaid(invoice')
    BY <1>2, <1>3, <2>2 DEF Unpaid
  <2>4. SomeRejected(invoice') <=> SomeRejected(invoice)
    BY <1>2, <1>3, <2>2 DEF SomeRejected
  <2>5. Agree(team', invoice')
    BY <1>1, <1>2, <2>4 DEF Agree
  <2>. QED BY <1>1, <2>1, <2>3, <2>5, StandStep DEF Done
<1>. QED BY <1>2, <1>5, <1>6, <1>7, FrameFields

\* After the write the team follows.
LEMMA LateStands ==
    ASSUME PayInv, StandInv, NEW p \in Payer, disturbed = {}, disturbed' = {},
           SendInvoice(p) \/ FindRejected(p) \/ Heal(p) \/ Blame(p)
    PROVE  StandInv'
<1>1. invoice' = invoice /\ pc[p] \in {"send", "rejected", "heal", "blame"}
  BY DEF SendInvoice, FindRejected, Heal, Blame, Stores
<1>2. /\ Unpaid(invoice) /\ Stands(pc[p], frame[p], team, invoice) /\ team \in TeamPaymentStatus
      /\ frame[p].kind \in {"auto", "manual"}
  BY <1>1, Undisturbed
<1>3. CASE SendInvoice(p)
  <2>1. pc[p] = "send" /\ team' = team /\ (Go(p, "rejected", frame[p]) \/ Done(p))
    BY <1>3 DEF SendInvoice, Stores
  <2>2. CASE frame[p].team = "DELINQUENT" /\ frame[p].kind = "auto" /\ Go(p, "rejected", frame[p])
    <3>1. Stands("rejected", frame[p], team', invoice')
      BY <1>1, <1>2, <2>1, <2>2 DEF Stands
    <3>. QED BY <1>1, <1>2, <2>2, <3>1, StandStep
  <2>3. CASE frame[p].team # "DELINQUENT" /\ Done(p)
    <3>1. Agree(team, invoice)
      BY <1>2, <2>1, <2>3 DEF Stands, Agree, TeamPaymentStatus
    <3>. QED BY <1>1, <1>2, <2>1, <2>3, <3>1, StandStep DEF Done
  <2>4. frame[p].team = "DELINQUENT" => frame[p].kind = "auto"
    BY <1>2, <2>1 DEF Stands
  <2>5. \/ frame[p].team = "DELINQUENT" /\ Go(p, "rejected", frame[p])
        \/ frame[p].team # "DELINQUENT" /\ Done(p)
    BY <1>3, <2>4 DEF SendInvoice
  <2>. QED BY <2>2, <2>3, <2>4, <2>5
<1>4. CASE FindRejected(p)
  <2>1. pc[p] = "rejected" /\ team' = team
    BY <1>4 DEF FindRejected, Stores
  <2>2. Healthy(invoice) <=> ~ SomeRejected(invoice)
    BY DEF Healthy, SomeRejected
  <2>3. CASE Healthy(invoice)
    <3>1. Stands("heal", frame[p], team', invoice') /\ Go(p, "heal", frame[p])
      BY <1>1, <1>2, <1>4, <2>1, <2>2, <2>3 DEF Stands, FindRejected
    <3>. QED BY <1>1, <1>2, <3>1, StandStep
  <2>4. CASE ~ Healthy(invoice)
    <3>1. Agree(team, invoice) /\ Done(p)
      BY <1>2, <1>4, <2>1, <2>2, <2>4 DEF Stands, FindRejected, Agree
    <3>. QED BY <1>1, <1>2, <2>1, <3>1, StandStep DEF Done
  <2>. QED BY <2>3, <2>4
<1>5. CASE Heal(p)
  <2>1. pc[p] = "heal" /\ team' = "HEALTHY" /\ Done(p)
    BY <1>5 DEF Heal
  <2>2. Agree(team', invoice')
    BY <1>1, <1>2, <2>1 DEF Stands, Agree
  <2>. QED BY <1>1, <1>2, <2>1, <2>2, StandStep DEF Done
<1>6. CASE Blame(p)
  <2>1. pc[p] = "blame" /\ team' = "DELINQUENT" /\ Done(p)
    BY <1>2, <1>6 DEF Blame, Stands, TeamPaymentStatus
  <2>2. Agree(team', invoice')
    BY <1>1, <1>2, <2>1 DEF Stands, Agree
  <2>. QED BY <1>1, <1>2, <2>1, <2>2, StandStep DEF Done
<1>. QED BY <1>3, <1>4, <1>5, <1>6

LEMMA StandInvariance == Spec => []StandInv
<1>1. Init => StandInv
  BY DEF Init, StandInv, Stands, Agree, SomeRejected, Unpaid
<1>2. PayInv /\ StandInv /\ [Next]_vars => StandInv'
  <2>. SUFFICES ASSUME PayInv, StandInv, [Next]_vars, disturbed' = {} PROVE StandInv'
    BY DEF StandInv
  <2>1. CASE UNCHANGED vars
    BY <2>1 DEF vars, StandInv, AllIdle
  <2>2. ASSUME NEW p \in Payer, Pay(p) PROVE StandInv'
    <3>1. disturbed = {}
      BY <2>2, Calmer
    <3>2. ~ Crash(p)
      BY DEF Crash
    <3>. QED BY <2>2, <3>1, <3>2, RequestStands, EarlyStands, WriteStands, LateStands DEF Pay
  <2>. QED BY <2>1, <2>2 DEF Next
<1>. QED BY <1>1, <1>2, PayInvariance, PTL DEF Spec

-----------------------------------------------------------------------------
(***************************************************************************)
(* Theorems                                                                *)
(***************************************************************************)
\* Documents and locals keep their types, whatever amounts are appended: no amount charged
\* and no paidAmount is below zero.
THEOREM TypeCorrect == Spec => []TypeOK
<1>1. PayInv => TypeOK
  <2>. SUFFICES ASSUME PayInv PROVE TypeOK
    OBVIOUS
  <2>1. \A i \in Invoice : invoice[i].status \in InvoiceStatus /\ invoice[i].paid \in Nat
    BY DEF PayInv, StoresOK, Documents
  <2>2. \A p \in Payer : /\ frame[p].invoice \in Invoice \cup {0} /\ frame[p].amount \in Nat
                          /\ frame[p].result \in {"none", "captured", "declined"}
                          /\ frame[p].update.status \in InvoiceStatus
    BY DEF PayInv, RequestsOK, Frames, Updates
  <2>. QED BY <2>1, <2>2 DEF TypeOK, PayInv, StoresOK, RequestsOK
<1>. QED BY <1>1, PayInvariance, PTL

\* An invoice that is PAID is covered by the transactions, for any bills, overlapping
\* requests, lost answers and crashes, until an entered amount is appended to an earlier one.
THEOREM PaidStaysCovered == Spec => []PaidIsCovered
<1>1. PayInv => PaidIsCovered
  BY DEF PayInv
<1>. QED BY <1>1, PayInvariance, PTL

\* An invoice is charged its bill at most, and the transactions and the cards agree when no
\* request is under way, with any amounts entered; paidAmount agrees with them or, after an
\* appended amount, says more.  Overlaps and charges dropped or unanswered are excepted.
THEOREM BooksStayBalanced == Spec => []BooksBalance
<1>1. BooksInv => BooksBalance
  <2>. SUFFICES ASSUME BooksInv, NEW i \in Invoice \ (overlapped \cup dropped)
                PROVE  /\ captured[i] <= Bill[i]
                       /\ Busy(i) = {} => Settled(i)
    BY DEF BooksBalance, Settled
  <2>1. Busy(i) = {} => Settled(i)
    BY DEF BooksInv
  <2>2. \A p \in Busy(i) : captured[i] <= Bill[i]
    BY DEF BooksInv, Account
  <2>3. Busy(i) = {} => captured[i] <= Bill[i]
    BY <2>1 DEF Settled
  <2>. QED BY <2>1, <2>2, <2>3
<1>. QED BY <1>1, BooksInvariance, PTL

\* With automatic payments one at a time, none dropped, the team is delinquent exactly
\* while an invoice is rejected, however often cards are declined and bills paid later.
THEOREM TeamStands == Spec => []TeamStanding
<1>1. StandInv => TeamStanding
  BY DEF StandInv, TeamStanding, AllIdle, Agree, SomeRejected
<1>. QED BY <1>1, StandInvariance, PTL

\* A request whose charge succeeded ends or goes on with the same update.
LEMMA CapturedGoesOn ==
    ASSUME PayInv, NEW p \in Payer, pc[p] # "idle", frame[p].result = "captured", Pay(p)
    PROVE  frame'[p] \in {frame[p], EmptyFrame}
<1>1. /\ frame \in [Payer -> Frames] /\ Fits(pc[p], frame[p], recorded, appended)
  BY UnderWay DEF PayInv, RequestsOK
<1>2. pc[p] \notin {"team", "invoice", "charge"}
  BY <1>1 DEF Fits
<1>3. \E next : Go(p, next, frame[p])
  BY <1>2 DEF Pay, Request, ReadTeam, ReadInvoice, Charge, Record, FindInvoice, WriteInvoice,
     SendInvoice, FindRejected, Heal, Blame, Crash, Done, Go, Throw, AfterThrow
<1>. QED BY <1>1, <1>3 DEF Go

\* No request rejects an invoice after it has charged the card.
THEOREM ChargedNeverRejected == Spec => ChargedNeverRejects
<1>1. PayInv /\ [Next]_vars =>
        [\A p \in Payer :
           pc[p] # "idle" /\ frame[p].result = "captured" => frame'[p].update.status # "REJECTED"]_vars
  <2>. SUFFICES ASSUME PayInv, Next, NEW p \in Payer, pc[p] # "idle", frame[p].result = "captured"
                PROVE  frame'[p].update.status # "REJECTED"
    OBVIOUS
  <2>1. /\ frame \in [Payer -> Frames] /\ Charged(pc[p], frame[p], recorded, appended)
    BY UnderWay DEF Fits, PayInv, RequestsOK
  <2>2. frame[p].update.status # "REJECTED" /\ EmptyFrame.update.status # "REJECTED"
    BY <2>1 DEF Charged, EmptyFrame, NoUpdate
  <2>3. PICK q \in Payer : Pay(q)
    BY DEF Next
  <2>4. CASE q = p
    BY <2>2, <2>3, <2>4, CapturedGoesOn
  <2>5. CASE q # p
    <3>1. \E next, f : Go(q, next, f)
      BY <2>3 DEF Pay, Request, ReadTeam, ReadInvoice, Charge, Record, FindInvoice, WriteInvoice,
         SendInvoice, FindRejected, Heal, Blame, Crash, Done, Throw
    <3>2. frame'[p] = frame[p]
      BY <2>1, <2>5, <3>1 DEF Go
    <3>. QED BY <2>2, <3>2
  <2>. QED BY <2>4, <2>5
<1>. QED BY <1>1, PayInvariance, PTL DEF Spec, ChargedNeverRejects
=============================================================================
