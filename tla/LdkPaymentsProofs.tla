--------------------------- MODULE LdkPaymentsProofs ---------------------------
(***************************************************************************)
(* Proofs about LdkPayments, for any threads, bills, page sizes and bounds: *)
(* no answer is contradicted later and no bill is paid twice; paging newest *)
(* first misses no payment that stayed as it was.                          *)
(*                                                                         *)
(* Every change of the node's history is a Put of one entry, so the facts  *)
(* about Put come first and the actions follow from them.                  *)
(***************************************************************************)
EXTENDS LdkPayments, FiniteSetTheorems, SequenceTheorems, TLAPS

Status == {"pending", "succeeded", "failed"}

\* The entry of a thread that polls is the only one of its bill that may not
\* have failed, and the bill is the thread's own.
PayingInv ==
  \A c \in Payers : paying[c] # NoPayment =>
    /\ paying[c].id \in DOMAIN payments
    /\ payments[paying[c].id].bill = paying[c].bill
    /\ bill[paying[c].bill] = "asked"
    /\ \A d \in Payers : paying[d] # NoPayment /\ paying[d].bill = paying[c].bill => d = c

\* All entries of a bill have failed but one.
OneLive ==
  \A i, j \in DOMAIN payments :
    i # j /\ payments[i].bill \in Bills /\ payments[i].bill = payments[j].bill
      => payments[i].status = "failed" \/ payments[j].status = "failed"

\* While a thread polls, the other entries of its bill have failed.
OthersFailed ==
  \A c \in Payers : paying[c] # NoPayment =>
    \A i \in DOMAIN payments :
      payments[i].bill = paying[c].bill /\ i # paying[c].id => payments[i].status = "failed"

\* A BOLT11 bill has one entry.
OneEntry ==
  \A i, j \in DOMAIN payments :
    payments[i].bill \in Invoices /\ payments[i].bill = payments[j].bill => i = j

BillInv ==
  \A i \in DOMAIN payments :
    payments[i].bill \in Bills /\ bill[payments[i].bill] = "due" => payments[i].status = "failed"

PaidInv ==
  \A b \in Bills : bill[b] = "paid" =>
    \E i \in DOMAIN payments : payments[i].bill = b /\ payments[i].status = "succeeded"

AnswerInv == PayingInv /\ OneLive /\ OthersFailed /\ OneEntry /\ BillInv /\ PaidInv

LEMMA BillsApart == None \notin Bills /\ Invoices \cap Offers = {}
  BY LdkAssumption

LEMMA AnswersFollow == TypeOK /\ AnswerInv => AnswersHold
  <1> SUFFICES ASSUME TypeOK, AnswerInv, NEW b \in Bills
               PROVE  /\ bill[b] = "due" => Of(b) = With(b, "failed")
                      /\ bill[b] = "paid" => With(b, "succeeded") # {}
                      /\ \A i, j \in With(b, "succeeded") : i = j
    BY DEF AnswersHold
  <1>1. bill[b] = "due" => Of(b) = With(b, "failed")
    BY DEF AnswerInv, BillInv, Of, With
  <1>2. bill[b] = "paid" => With(b, "succeeded") # {}
    BY DEF AnswerInv, PaidInv, Of, With
  <1>3. \A i, j \in With(b, "succeeded") : i = j
    BY DEF AnswerInv, OneLive, Of, With
  <1> QED BY <1>1, <1>2, <1>3

-----------------------------------------------------------------------------
(* Put                                                                     *)

LEMMA PutKeeps ==
  ASSUME TypeOK, NEW i \in DOMAIN payments \cup {NextId}, NEW b \in Bills \cup {None},
         NEW status \in Status, Put(i, b, status)
  PROVE  /\ i \in Ids /\ NextId = Len(payments) + 1
         /\ payments' \in Seq(Payment) /\ Len(payments') <= MaxPayments
         /\ DOMAIN payments' = DOMAIN payments \cup {i}
         /\ payments'[i].bill = b /\ payments'[i].status = status
         /\ payments'[i].stamp = now'
         /\ \A j \in DOMAIN payments : j # i => payments'[j] = payments[j]
         /\ now' \in 0..MaxNow /\ now <= now'
         /\ listing' = [r \in Readers |-> [listing[r] EXCEPT !.unseen = @ \ {i}]]
  <1>1. PICK second \in now..MaxNow :
          LET entry == [bill |-> b, status |-> status, stamp |-> second] IN
          /\ now' = second
          /\ payments' = IF i \in DOMAIN payments THEN [payments EXCEPT ![i] = entry]
                                                  ELSE Append(payments, entry)
    BY DEF Put
  <1> DEFINE entry == [bill |-> b, status |-> status, stamp |-> second]
  <1>2. entry \in Payment /\ second \in 0..MaxNow
    BY LdkAssumption DEF TypeOK, Payment, Status
  <1>3. i \in Ids /\ listing' = [r \in Readers |-> [listing[r] EXCEPT !.unseen = @ \ {i}]]
    BY DEF Put, Changed
  <1>4. payments \in Seq(Payment) /\ Len(payments) \in Nat /\ Len(payments) <= MaxPayments
        /\ DOMAIN payments = 1..Len(payments)
    BY DEF TypeOK
  <1>5. CASE i \in DOMAIN payments
    <2>1. payments' = [payments EXCEPT ![i] = entry]
      BY <1>1, <1>5
    <2>2. payments' \in Seq(Payment) /\ Len(payments') = Len(payments)
      BY <2>1, <1>2, <1>4, <1>5, ExceptSeq
    <2>3. DOMAIN payments' = DOMAIN payments /\ payments'[i] = entry
          /\ \A j \in DOMAIN payments : j # i => payments'[j] = payments[j]
      BY <2>1, <1>5
    <2> QED BY <1>1, <1>2, <1>3, <1>4, <1>5, <2>2, <2>3 DEF NextId, TypeOK
  <1>6. CASE i \notin DOMAIN payments
    <2>1. i = Len(payments) + 1 /\ payments' = Append(payments, entry)
      BY <1>1, <1>6 DEF NextId
    <2>2. payments' \in Seq(Payment) /\ Len(payments') = Len(payments) + 1
      BY <2>1, <1>2, <1>4
    <2>3. payments'[i] = entry /\ \A j \in DOMAIN payments : payments'[j] = payments[j]
      BY <2>1, <1>2, <1>4
    <2>4. DOMAIN payments' = DOMAIN payments \cup {i}
      BY <2>1, <2>2, <1>4
    <2>5. Len(payments') <= MaxPayments
      BY <1>3, <2>1, <2>2, LdkAssumption, <1>4 DEF Ids
    <2>6. now' = second /\ now <= second
      BY <1>1 DEF TypeOK
    <2> QED BY <1>2, <1>3, <2>1, <2>2, <2>3, <2>4, <2>5, <2>6 DEF NextId
  <1> QED BY <1>5, <1>6

\* A listing stays a listing when a payment changes.
LEMMA ChangedType ==
  ASSUME TypeOK, NEW i, Changed(i)
  PROVE  listing' \in [Readers -> Listing]
  <1>1. SUFFICES ASSUME NEW r \in Readers
                 PROVE  [listing[r] EXCEPT !.unseen = @ \ {i}] \in Listing
    BY DEF Changed
  <1>2. listing[r] \in Listing
    BY DEF TypeOK
  <1>3. listing[r].unseen \ {i} \in SUBSET Ids
    BY <1>2 DEF Listing
  <1> QED BY <1>2, <1>3 DEF Listing

LEMMA NextIdIsNew == TypeOK => NextId \notin DOMAIN payments /\ NextId \in Nat
  BY DEF TypeOK, NextId

\* An entry of the node's own, that no client pays.
LEMMA ForeignKeeps ==
  ASSUME TypeOK, AnswerInv, NEW status \in Status, Put(NextId, None, status),
         UNCHANGED <<bill, paying>>
  PROVE  TypeOK' /\ AnswerInv'
  <1> DEFINE n == NextId
  <1>1. /\ payments' \in Seq(Payment) /\ Len(payments') <= MaxPayments
        /\ DOMAIN payments' = DOMAIN payments \cup {n}
        /\ payments'[n].bill = None
        /\ \A j \in DOMAIN payments : j # n => payments'[j] = payments[j]
        /\ now' \in 0..MaxNow
    BY PutKeeps
  <1>2. n \notin DOMAIN payments
    BY NextIdIsNew
  <1>3. \A j \in DOMAIN payments : payments'[j] = payments[j]
    BY <1>1, <1>2
  <1>4. TypeOK'
    <2>1. listing' \in [Readers -> Listing]
      BY ChangedType DEF Put
    <2> QED BY <1>1, <2>1 DEF TypeOK
  <1> HIDE DEF n
  <1>5. PayingInv'
    BY <1>1, <1>3 DEF AnswerInv, PayingInv
  <1>6. OneLive'
    <2> SUFFICES ASSUME NEW i \in DOMAIN payments', NEW j \in DOMAIN payments',
                        payments'[i].bill \in Bills, payments'[i].bill = payments'[j].bill,
                        payments'[i].status # "failed", i # j
                 PROVE  payments'[j].status = "failed"
      BY DEF OneLive
    <2>1. i \in DOMAIN payments /\ j \in DOMAIN payments
      BY <1>1, BillsApart
    <2> QED BY <1>3, <2>1 DEF AnswerInv, OneLive
  <1>7. OthersFailed'
    <2> SUFFICES ASSUME NEW c \in Payers, paying[c] # NoPayment, NEW i \in DOMAIN payments',
                        payments'[i].bill = paying[c].bill, i # paying[c].id
                 PROVE  payments'[i].status = "failed"
      BY DEF OthersFailed
    <2>1. paying[c].bill \in Bills
      BY DEF TypeOK, Paying
    <2>2. i \in DOMAIN payments
      BY <1>1, <2>1, BillsApart
    <2> QED BY <2>2, <1>3 DEF AnswerInv, OthersFailed
  <1>8. OneEntry'
    BY <1>1, <1>3, BillsApart DEF AnswerInv, OneEntry, Bills
  <1>9. BillInv'
    BY <1>1, <1>3, BillsApart DEF AnswerInv, BillInv
  <1>10. PaidInv'
    BY <1>1, <1>3 DEF AnswerInv, PaidInv
  <1> QED BY <1>4, <1>5, <1>6, <1>7, <1>8, <1>9, <1>10 DEF AnswerInv

\* The entry that settles is the only one of its bill that had not failed.
LEMMA ResolveKeeps ==
  ASSUME TypeOK, AnswerInv, NEW i \in DOMAIN payments, Resolve(i)
  PROVE  TypeOK' /\ AnswerInv'
  <1>1. PICK status \in {"succeeded", "failed"} : Put(i, payments[i].bill, status)
    BY DEF Resolve
  <1>2. payments[i] \in Payment
    BY DEF TypeOK
  <1>3. /\ payments' \in Seq(Payment) /\ Len(payments') <= MaxPayments
        /\ DOMAIN payments' = DOMAIN payments
        /\ payments'[i].bill = payments[i].bill /\ payments'[i].status = status
        /\ \A j \in DOMAIN payments : j # i => payments'[j] = payments[j]
        /\ now' \in 0..MaxNow
    <2>1. payments[i].bill \in Bills \cup {None} /\ status \in Status
      BY <1>2 DEF Payment, Status
    <2>2. DOMAIN payments \cup {i} = DOMAIN payments
      OBVIOUS
    <2> QED BY <1>1, <2>1, <2>2, PutKeeps
  <1>4. payments[i].status = "pending" /\ bill' = bill /\ paying' = paying
    BY DEF Resolve
  <1>5. TypeOK'
    <2>1. listing' \in [Readers -> Listing]
      BY <1>1, ChangedType DEF Put
    <2> QED BY <1>3, <1>4, <2>1 DEF TypeOK
  <1>6. PayingInv'
    BY <1>3, <1>4 DEF AnswerInv, PayingInv
  <1>7. OneLive'
    BY <1>3, <1>4 DEF AnswerInv, OneLive
  <1>8. OthersFailed'
    BY <1>3, <1>4 DEF AnswerInv, OthersFailed
  <1>9. OneEntry'
    BY <1>3, <1>4 DEF AnswerInv, OneEntry
  <1>10. BillInv'
    BY <1>3, <1>4 DEF AnswerInv, BillInv
  <1>11. PaidInv'
    BY <1>3, <1>4 DEF AnswerInv, PaidInv
  <1> QED BY <1>5, <1>6, <1>7, <1>8, <1>9, <1>10, <1>11 DEF AnswerInv

-----------------------------------------------------------------------------
(* The calls                                                               *)

\* A send for a bill of which every entry has failed, as a new entry or in
\* place of the only one.
LEMMA SendKeeps ==
  ASSUME TypeOK, AnswerInv, NEW c \in Payers, NEW b \in Bills, Due(c, b),
         NEW i \in DOMAIN payments \cup {NextId},
         i \in DOMAIN payments => payments[i].bill = b,
         b \in Invoices => \A j \in DOMAIN payments : payments[j].bill = b => j = i,
         Put(i, b, "pending"), Starts(c, b, i)
  PROVE  TypeOK' /\ AnswerInv'
  <1>1. /\ i \in Ids
        /\ payments' \in Seq(Payment) /\ Len(payments') <= MaxPayments
        /\ DOMAIN payments' = DOMAIN payments \cup {i}
        /\ payments'[i].bill = b /\ payments'[i].status = "pending"
        /\ \A j \in DOMAIN payments : j # i => payments'[j] = payments[j]
        /\ now' \in 0..MaxNow
    BY PutKeeps DEF Status
  <1> DEFINE call == [id |-> i, bill |-> b, tries |-> 0]
  <1>2. /\ paying' = [paying EXCEPT ![c] = call] /\ bill' = [bill EXCEPT ![b] = "asked"]
        /\ paying \in [Payers -> Paying] /\ bill \in [Bills -> {"due", "asked", "pending", "paid"}]
        /\ bill[b] = "due"
    BY DEF Starts, Due, TypeOK
  <1>3. call \in Paying /\ call # NoPayment
    BY <1>1, LdkAssumption, BillsApart DEF Paying, NoPayment
  <1>4. TypeOK'
    <2>1. listing' \in [Readers -> Listing]
      BY ChangedType DEF Put
    <2> QED BY <1>1, <1>2, <1>3, <2>1 DEF TypeOK
  <1>5. \A j \in DOMAIN payments : payments[j].bill = b => payments[j].status = "failed"
    BY <1>2 DEF AnswerInv, BillInv
  <1>6. paying'[c] = call /\ bill'[b] = "asked"
        /\ (\A d \in Payers : d # c => paying'[d] = paying[d])
        /\ \A a \in Bills : a # b => bill'[a] = bill[a]
    BY <1>2
  <1>7. \A d \in Payers : paying[d] # NoPayment =>
          /\ paying[d].bill \in Bills /\ paying[d].bill # b
          /\ paying[d].id \in DOMAIN payments /\ paying[d].id # i
          /\ payments'[paying[d].id] = payments[paying[d].id]
    <2> SUFFICES ASSUME NEW d \in Payers, paying[d] # NoPayment
                 PROVE  /\ paying[d].bill \in Bills /\ paying[d].bill # b
                        /\ paying[d].id \in DOMAIN payments /\ paying[d].id # i
                        /\ payments'[paying[d].id] = payments[paying[d].id]
      OBVIOUS
    <2>1. paying[d].bill \in Bills
      BY <1>2 DEF Paying
    <2>2. bill[paying[d].bill] = "asked" /\ paying[d].id \in DOMAIN payments
          /\ payments[paying[d].id].bill = paying[d].bill
      BY DEF AnswerInv, PayingInv
    <2> QED BY <1>1, <1>2, <2>1, <2>2
  <1>8. call.id = i /\ call.bill = b
    OBVIOUS
  <1>9. PayingInv'
    <2> SUFFICES ASSUME NEW d \in Payers, paying'[d] # NoPayment
                 PROVE  /\ paying'[d].id \in DOMAIN payments'
                        /\ payments'[paying'[d].id].bill = paying'[d].bill
                        /\ bill'[paying'[d].bill] = "asked"
                        /\ \A e \in Payers :
                             paying'[e] # NoPayment /\ paying'[e].bill = paying'[d].bill => e = d
      BY DEF PayingInv
    <2>1. CASE d = c
      BY <2>1, <1>1, <1>6, <1>7, <1>8
    <2>2. CASE d # c
      BY <2>2, <1>1, <1>6, <1>7, <1>8 DEF AnswerInv, PayingInv
    <2> QED BY <2>1, <2>2
  <1>10. OneLive'
    <2> SUFFICES ASSUME NEW j \in DOMAIN payments', NEW k \in DOMAIN payments',
                        payments'[j].bill \in Bills, payments'[j].bill = payments'[k].bill,
                        payments'[j].status # "failed", j # k
                 PROVE  payments'[k].status = "failed"
      BY DEF OneLive
    <2>1. CASE payments'[j].bill = b
      <3>1. j = i
        BY <1>1, <1>5, <2>1
      <3> QED BY <1>1, <1>5, <2>1, <3>1
    <2>2. CASE payments'[j].bill # b
      <3>1. j # i /\ k # i /\ j \in DOMAIN payments /\ k \in DOMAIN payments
        BY <1>1, <2>2
      <3> QED BY <1>1, <3>1 DEF AnswerInv, OneLive
    <2> QED BY <2>1, <2>2
  <1>11. OthersFailed'
    <2> SUFFICES ASSUME NEW d \in Payers, paying'[d] # NoPayment, NEW j \in DOMAIN payments',
                        payments'[j].bill = paying'[d].bill, j # paying'[d].id
                 PROVE  payments'[j].status = "failed"
      BY DEF OthersFailed
    <2>1. CASE d = c
      BY <2>1, <1>1, <1>5, <1>6, <1>8
    <2>2. CASE d # c
      BY <2>2, <1>1, <1>6, <1>7 DEF AnswerInv, OthersFailed
    <2> QED BY <2>1, <2>2
  <1>12. OneEntry'
    <2> SUFFICES ASSUME NEW j \in DOMAIN payments', NEW k \in DOMAIN payments',
                        payments'[j].bill \in Invoices, payments'[j].bill = payments'[k].bill
                 PROVE  j = k
      BY DEF OneEntry
    <2>1. CASE payments'[j].bill = b
      BY <2>1, <1>1
    <2>2. CASE payments'[j].bill # b
      BY <2>2, <1>1 DEF AnswerInv, OneEntry
    <2> QED BY <2>1, <2>2
  <1>13. BillInv'
    BY <1>1, <1>6 DEF AnswerInv, BillInv
  <1>14. PaidInv'
    <2> SUFFICES ASSUME NEW a \in Bills, bill'[a] = "paid"
                 PROVE  \E j \in DOMAIN payments' :
                          payments'[j].bill = a /\ payments'[j].status = "succeeded"
      BY DEF PaidInv
    <2>1. a # b /\ bill[a] = "paid"
      BY <1>6
    <2>2. PICK j \in DOMAIN payments : payments[j].bill = a /\ payments[j].status = "succeeded"
      BY <2>1 DEF AnswerInv, PaidInv
    <2>3. j # i
      BY <2>1, <2>2
    <2> QED BY <1>1, <2>2, <2>3
  <1> QED BY <1>4, <1>9, <1>10, <1>11, <1>12, <1>13, <1>14 DEF AnswerInv

\* An answer the history bears out.
LEMMA AnswerKeeps ==
  ASSUME TypeOK, AnswerInv, NEW c \in Payers, paying[c] # NoPayment,
         NEW known \in {"due", "pending", "paid"}, Answer(c, known),
         known = "due" => payments[paying[c].id].status = "failed",
         known = "paid" => payments[paying[c].id].status = "succeeded"
  PROVE  TypeOK' /\ AnswerInv'
  <1> DEFINE b == paying[c].bill
  <1>1. b \in Bills
    BY DEF TypeOK, Paying
  <1>2. /\ paying' = [paying EXCEPT ![c] = NoPayment] /\ bill' = [bill EXCEPT ![b] = known]
        /\ payments' = payments /\ now' = now /\ listing' = listing
        /\ paying \in [Payers -> Paying] /\ bill \in [Bills -> {"due", "asked", "pending", "paid"}]
    BY DEF Answer, TypeOK
  <1>3. NoPayment \in Paying
    BY DEF Paying
  <1>4. TypeOK'
    BY <1>2, <1>3 DEF TypeOK
  <1>5. /\ bill'[b] = known /\ \A a \in Bills : a # b => bill'[a] = bill[a]
        /\ \A d \in Payers : paying'[d] # NoPayment => d # c /\ paying'[d] = paying[d]
    BY <1>1, <1>2
  <1>6. /\ paying[c].id \in DOMAIN payments /\ payments[paying[c].id].bill = b
        /\ \A i \in DOMAIN payments :
             payments[i].bill = b /\ i # paying[c].id => payments[i].status = "failed"
        /\ \A d \in Payers : paying[d] # NoPayment /\ d # c => paying[d].bill # b
    BY DEF AnswerInv, PayingInv, OthersFailed
  <1> HIDE DEF b
  <1>7. PayingInv'
    <2> SUFFICES ASSUME NEW d \in Payers, paying'[d] # NoPayment
                 PROVE  /\ paying'[d].id \in DOMAIN payments'
                        /\ payments'[paying'[d].id].bill = paying'[d].bill
                        /\ bill'[paying'[d].bill] = "asked"
                        /\ \A e \in Payers :
                             paying'[e] # NoPayment /\ paying'[e].bill = paying'[d].bill => e = d
      BY DEF PayingInv
    <2>1. d # c /\ paying'[d] = paying[d] /\ paying[d].bill \in Bills /\ paying[d].bill # b
      BY <1>2, <1>5, <1>6 DEF Paying
    <2> QED BY <1>2, <1>5, <2>1 DEF AnswerInv, PayingInv
  <1>8. OneLive' /\ OneEntry'
    BY <1>2 DEF AnswerInv, OneLive, OneEntry
  <1>9. OthersFailed'
    BY <1>2, <1>5 DEF AnswerInv, OthersFailed
  <1>10. BillInv'
    BY <1>2, <1>5, <1>6 DEF AnswerInv, BillInv
  <1>11. PaidInv'
    BY <1>2, <1>5, <1>6 DEF AnswerInv, PaidInv
  <1> QED BY <1>4, <1>7, <1>8, <1>9, <1>10, <1>11 DEF AnswerInv

LEMMA PollKeeps ==
  ASSUME TypeOK, AnswerInv, NEW c \in Payers, Poll(c)
  PROVE  TypeOK' /\ AnswerInv'
  <1>1. CASE PollSucceeded(c)
    BY <1>1, AnswerKeeps DEF PollSucceeded, Polls
  <1>2. CASE PollFailed(c)
    BY <1>2, AnswerKeeps DEF PollFailed, Polls
  <1>3. CASE PollPending(c)
    <2>1. /\ paying[c] # NoPayment /\ paying[c].tries < MaxAttempts
          /\ paying' = [paying EXCEPT ![c].tries = @ + 1]
          /\ UNCHANGED <<payments, now, bill, listing>>
      BY <1>3 DEF PollPending, Polls
    <2> DEFINE call == [paying[c] EXCEPT !.tries = @ + 1]
    <2>2. paying' = [paying EXCEPT ![c] = call]
      BY <2>1
    <2>3. paying[c] \in [id : Ids, bill : Bills, tries : 0..MaxAttempts]
      BY <2>1 DEF TypeOK, Paying
    <2>4. call \in Paying /\ call.id = paying[c].id /\ call.bill = paying[c].bill
      BY <2>1, <2>3, LdkAssumption DEF Paying
    <2> HIDE DEF call
    <2>5. TypeOK'
      BY <2>1, <2>2, <2>4 DEF TypeOK
    <2>6. \A d \in Payers : /\ paying'[d] # NoPayment => paying[d] # NoPayment
                            /\ paying'[d].id = paying[d].id /\ paying'[d].bill = paying[d].bill
      BY <2>1, <2>2, <2>4 DEF TypeOK
    <2>7. AnswerInv'
      BY <2>1, <2>6 DEF AnswerInv, PayingInv, OneLive, OthersFailed, OneEntry, BillInv, PaidInv
    <2> QED BY <2>5, <2>7
  <1>4. CASE PollsOver(c)
    BY <1>4, AnswerKeeps DEF PollsOver
  <1> QED BY <1>1, <1>2, <1>3, <1>4 DEF Poll

LEMMA SendPaymentKeeps ==
  ASSUME TypeOK, AnswerInv, NEW c \in Payers, NEW b \in Bills, SendPayment(c, b)
  PROVE  TypeOK' /\ AnswerInv'
  <1>1. b \in Invoices /\ Due(c, b)
    BY DEF SendPayment
  <1>2. PICK i \in IF Of(b) = {} THEN {NextId} ELSE Of(b) : Put(i, b, "pending") /\ Starts(c, b, i)
    BY DEF SendPayment
  <1>3. i \in DOMAIN payments \cup {NextId} /\ (i \in DOMAIN payments => payments[i].bill = b)
    BY NextIdIsNew DEF Of
  <1>4. \A j \in DOMAIN payments : payments[j].bill = b => j = i
    BY <1>1 DEF Of, AnswerInv, OneEntry
  <1> QED BY <1>1, <1>2, <1>3, <1>4, SendKeeps

LEMMA PayOfferKeeps ==
  ASSUME TypeOK, AnswerInv, NEW c \in Payers, NEW b \in Bills, PayBolt12Offer(c, b)
  PROVE  TypeOK' /\ AnswerInv'
  BY SendKeeps, NextIdIsNew, BillsApart DEF PayBolt12Offer

\* The status of an invoice is the status of its only entry.
LEMMA StatusKeeps ==
  ASSUME TypeOK, AnswerInv, NEW b \in Bills, GetPaymentStatus(b)
  PROVE  TypeOK' /\ AnswerInv'
  <1>1. b \in Invoices /\ bill[b] = "pending" /\ UNCHANGED <<payments, now, paying, listing>>
    BY DEF GetPaymentStatus
  <1>2. PICK i \in Of(b) : bill' = [bill EXCEPT ![b] = StatusOf(i)]
    BY DEF GetPaymentStatus
  <1>3. i \in DOMAIN payments /\ payments[i].bill = b /\ payments[i] \in Payment
    BY DEF Of, TypeOK
  <1>4. /\ StatusOf(i) \in {"paid", "due", "pending"}
        /\ (StatusOf(i) = "paid" => payments[i].status = "succeeded")
        /\ (StatusOf(i) = "due" => payments[i].status = "failed")
    <2>1. payments[i].status \in Status
      BY <1>3 DEF Payment, Status
    <2>2. CASE payments[i].status = "succeeded"
      BY <2>2 DEF StatusOf
    <2>3. CASE payments[i].status = "failed"
      BY <2>3 DEF StatusOf
    <2>4. CASE payments[i].status = "pending"
      BY <2>4 DEF StatusOf
    <2> QED BY <2>1, <2>2, <2>3, <2>4 DEF Status
  <1>5. bill'[b] = StatusOf(i) /\ \A a \in Bills : a # b => bill'[a] = bill[a]
    BY <1>2 DEF TypeOK
  <1>6. TypeOK'
    BY <1>1, <1>2, <1>4 DEF TypeOK
  <1>7. PayingInv'
    <2>1. \A c \in Payers : paying[c] # NoPayment => paying[c].bill # b /\ paying[c].bill \in Bills
      BY <1>1 DEF AnswerInv, PayingInv, TypeOK, Paying
    <2> QED BY <1>1, <1>5, <2>1 DEF AnswerInv, PayingInv
  <1>8. OneLive' /\ OthersFailed' /\ OneEntry'
    BY <1>1 DEF AnswerInv, OneLive, OthersFailed, OneEntry
  <1>9. BillInv'
    BY <1>1, <1>3, <1>4, <1>5 DEF AnswerInv, BillInv, OneEntry
  <1>10. PaidInv'
    BY <1>1, <1>3, <1>4, <1>5 DEF AnswerInv, PaidInv
  <1> QED BY <1>6, <1>7, <1>8, <1>9, <1>10 DEF AnswerInv

-----------------------------------------------------------------------------
(* The history, page by page                                               *)

LEMMA SizeType == PageSizes \cup {0} \subseteq Nat
  <1>1. PageSizes \subseteq Nat
    BY LdkAssumption
  <1> QED BY <1>1

StampInv == \A i \in DOMAIN payments : payments[i].stamp <= now

\* What a listing of the history h counts, and what of it is newer than i.
Listed(h, outbound) == {i \in DOMAIN h : outbound => h[i].bill # None}

Newer(h, outbound, i) ==
  {k \in Listed(h, outbound) :
     h[k].stamp > h[i].stamp \/ (h[k].stamp = h[i].stamp /\ k < i)}

Newest(q) == q.order = "desc" /\ q.size > 0 /\ q.page > 0

\* What a listing has not shown lies behind the pages it has asked for.
Behind(q) ==
  \A i \in q.unseen \cap Listed(payments, q.outbound) :
    ~q.done /\ Cardinality(Newer(payments, q.outbound, i)) >= (q.page - 1) * q.size

BehindInv == \A r \in Readers : Newest(listing[r]) => Behind(listing[r])

PagesInv == \A r \in Readers : listing[r].done => listing[r].page > 0

ListingInv == StampInv /\ BehindInv /\ PagesInv

LEMMA ListingFollows == TypeOK /\ ListingInv => ListingComplete
  <1> SUFFICES ASSUME TypeOK, ListingInv, NEW r \in Readers, listing[r].done,
                      listing[r].order = "desc", listing[r].size > 0
               PROVE  listing[r].unseen \cap Filtered(listing[r]) = {}
    BY DEF ListingComplete
  <1>1. Newest(listing[r])
    BY DEF ListingInv, PagesInv, Newest
  <1>2. listing[r].unseen \cap Listed(payments, listing[r].outbound) = {}
    BY <1>1 DEF ListingInv, BehindInv, Behind
  <1>3. Filtered(listing[r]) = Listed(payments, listing[r].outbound)
    BY DEF Filtered, Listed
  <1> QED BY <1>2, <1>3

LEMMA EntryType ==
  ASSUME NEW h \in Seq(Payment), NEW j \in DOMAIN h
  PROVE  h[j] \in Payment /\ h[j].stamp \in Int /\ j \in Int
  <1>1. h[j] \in Payment /\ j \in Int
    OBVIOUS
  <1> QED BY <1>1 DEF Payment

LEMMA ListedFinite ==
  ASSUME NEW h \in Seq(Payment), NEW outbound, NEW i
  PROVE  /\ IsFiniteSet(Listed(h, outbound)) /\ Cardinality(Listed(h, outbound)) \in Nat
         /\ IsFiniteSet(Newer(h, outbound, i)) /\ Cardinality(Newer(h, outbound, i)) \in Nat
  <1>1. DOMAIN h = 1..Len(h) /\ Len(h) \in Nat
    OBVIOUS
  <1>2. IsFiniteSet(DOMAIN h)
    BY <1>1, FS_Interval
  <1>3. Listed(h, outbound) \subseteq DOMAIN h
        /\ Newer(h, outbound, i) \subseteq Listed(h, outbound)
    BY DEF Listed, Newer
  <1>4. IsFiniteSet(Listed(h, outbound)) /\ IsFiniteSet(Newer(h, outbound, i))
    BY <1>2, <1>3, FS_Subset
  <1> QED BY <1>4, FS_CardinalityType

LEMMA NewerBound ==
  ASSUME NEW h \in Seq(Payment), NEW outbound, NEW i \in Listed(h, outbound)
  PROVE  Cardinality(Newer(h, outbound, i)) < Cardinality(Listed(h, outbound))
  <1>1. i \in DOMAIN h
    BY DEF Listed
  <1>2. i \notin Newer(h, outbound, i)
    BY <1>1, EntryType DEF Newer
  <1>3. Newer(h, outbound, i) \subseteq Listed(h, outbound) \ {i}
    BY <1>2 DEF Newer
  <1>4. /\ IsFiniteSet(Listed(h, outbound)) /\ Cardinality(Listed(h, outbound)) \in Nat
        /\ Cardinality(Newer(h, outbound, i)) \in Nat
    BY ListedFinite
  <1>5. IsFiniteSet(Listed(h, outbound) \ {i})
        /\ Cardinality(Listed(h, outbound) \ {i}) = Cardinality(Listed(h, outbound)) - 1
    BY <1>4, FS_RemoveElement
  <1>6. Cardinality(Newer(h, outbound, i)) <= Cardinality(Listed(h, outbound) \ {i})
    BY <1>3, <1>5, FS_Subset
  <1> QED BY <1>4, <1>5, <1>6

LEMMA PositionIs ==
  ASSUME NEW q, q.order = "desc", NEW i
  PROVE  /\ Filtered(q) = Listed(payments, q.outbound)
         /\ Position(i, q) = Cardinality(Newer(payments, q.outbound, i))
  <1>1. Filtered(q) = Listed(payments, q.outbound)
    BY DEF Filtered, Listed
  <1>2. {j \in Filtered(q) : Before(j, i, q.order)} = Newer(payments, q.outbound, i)
    <2>1. ASSUME NEW j
          PROVE  Before(j, i, q.order) <=>
                   \/ payments[j].stamp > payments[i].stamp
                   \/ payments[j].stamp = payments[i].stamp /\ j < i
      <3>1. q.order = "desc" /\ q.order # "asc"
        OBVIOUS
      <3> QED BY <3>1 DEF Before
    <2> QED BY <1>1, <2>1 DEF Newer
  <1> QED BY <1>1, <1>2 DEF Position

\* A change of another payment moves none that is newer behind.
LEMMA PutBehind ==
  ASSUME TypeOK, ListingInv, TypeOK',
         NEW i \in DOMAIN payments \cup {NextId}, NEW b \in Bills \cup {None},
         NEW status \in Status, Put(i, b, status), i \in DOMAIN payments => payments[i].bill = b
  PROVE  ListingInv'
  <1>1. /\ DOMAIN payments' = DOMAIN payments \cup {i}
        /\ payments'[i].bill = b /\ payments'[i].stamp = now'
        /\ \A j \in DOMAIN payments : j # i => payments'[j] = payments[j]
        /\ now' \in 0..MaxNow /\ now <= now'
        /\ listing' = [r \in Readers |-> [listing[r] EXCEPT !.unseen = @ \ {i}]]
    BY PutKeeps
  <1>2. now \in Int /\ now' \in Int /\ payments \in Seq(Payment) /\ payments' \in Seq(Payment)
    BY DEF TypeOK
  <1>3. \A j \in DOMAIN payments : payments[j].stamp \in Int /\ payments[j].stamp <= now'
    BY <1>1, <1>2, EntryType DEF ListingInv, StampInv
  <1>4. StampInv'
    BY <1>1, <1>2, <1>3 DEF StampInv
  <1>5. \A r \in Readers : listing[r] \in Listing
    BY DEF TypeOK
  <1>6. \A r \in Readers :
          /\ listing'[r].unseen = listing[r].unseen \ {i}
          /\ listing'[r].page = listing[r].page /\ listing'[r].size = listing[r].size
          /\ listing'[r].order = listing[r].order /\ listing'[r].done = listing[r].done
          /\ listing'[r].outbound = listing[r].outbound
    BY <1>1, <1>5 DEF Listing
  <1>7. PagesInv'
    BY <1>6 DEF ListingInv, PagesInv
  <1>8. BehindInv'
    <2> SUFFICES ASSUME NEW r \in Readers, Newest(listing'[r]),
                        NEW j \in listing'[r].unseen \cap Listed(payments', listing'[r].outbound)
                 PROVE  /\ ~listing'[r].done
                        /\ Cardinality(Newer(payments', listing'[r].outbound, j))
                             >= (listing'[r].page - 1) * listing'[r].size
      BY DEF BehindInv, Behind, Newest
    <2> DEFINE q == listing[r]
               before == Newer(payments, q.outbound, j)
               after == Newer(payments', q.outbound, j)
    <2>1. j # i /\ j \in q.unseen /\ j \in DOMAIN payments /\ payments'[j] = payments[j]
      BY <1>1, <1>6 DEF Listed
    <2>2. j \in Listed(payments, q.outbound) /\ Newest(q)
      BY <1>6, <2>1 DEF Listed, Newest
    <2>3. ~q.done /\ Cardinality(before) >= (q.page - 1) * q.size
      BY <2>1, <2>2 DEF ListingInv, BehindInv, Behind
    <2>4. before \subseteq after
      <3> SUFFICES ASSUME NEW k \in before
                   PROVE  k \in after
        OBVIOUS
      <3>1. k \in DOMAIN payments /\ (q.outbound => payments[k].bill # None)
            /\ \/ payments[k].stamp > payments[j].stamp
               \/ payments[k].stamp = payments[j].stamp /\ k < j
        BY DEF Newer, Listed
      <3>2. k \in Listed(payments', q.outbound)
        BY <1>1, <3>1 DEF Listed
      <3>3. payments'[k].stamp >= payments[k].stamp /\ payments'[k].stamp \in Int
            /\ payments[k].stamp \in Int /\ payments[j].stamp \in Int
        BY <1>1, <1>2, <1>3, <2>1, <3>1
      <3>4. \/ payments'[k].stamp > payments'[j].stamp
            \/ payments'[k].stamp = payments'[j].stamp /\ k < j
        BY <2>1, <3>1, <3>3
      <3> QED BY <3>2, <3>4 DEF Newer
    <2>5. IsFiniteSet(after) /\ Cardinality(after) \in Nat
      BY <1>2, ListedFinite
    <2>6. Cardinality(before) <= Cardinality(after) /\ Cardinality(before) \in Nat
      BY <2>4, <2>5, FS_Subset, FS_CardinalityType
    <2>7. (q.page - 1) * q.size \in Int
      <3>1. q \in Listing
        BY <1>5
      <3>2. q.page \in Nat /\ q.size \in PageSizes \cup {0}
        BY <3>1 DEF Listing
      <3>3. q.size \in Nat
        BY <3>2, SizeType
      <3> QED BY <3>2, <3>3
    <2>8. Cardinality(after) >= (q.page - 1) * q.size
      BY <2>3, <2>5, <2>6, <2>7
    <2> QED BY <1>6, <2>3, <2>8
  <1> QED BY <1>4, <1>7, <1>8 DEF ListingInv

StartListings(r) ==
  \E size \in PageSizes, order \in Orders, outbound \in BOOLEAN :
    StartListing(r, size, order, outbound)

ReadStep(r) == StartListings(r) \/ ListPage(r) \/ EndListing(r)

LEMMA ReadFrame ==
  ASSUME TypeOK, NEW r \in Readers, ReadStep(r)
  PROVE  /\ UNCHANGED <<payments, now, bill, paying>>
         /\ listing' \in [Readers -> Listing]
         /\ \A s \in Readers : s # r => listing'[s] = listing[s]
  <1>1. CASE StartListings(r)
    <2>1. PICK size \in PageSizes, order \in Orders, outbound \in BOOLEAN :
            StartListing(r, size, order, outbound)
      BY <1>1 DEF StartListings
    <2> DEFINE q == [page |-> 1, size |-> size, order |-> order, outbound |-> outbound,
                     done |-> FALSE, unseen |-> DOMAIN payments]
    <2>2. q \in Listing
      <3>1. DOMAIN payments \in SUBSET Ids
        BY LdkAssumption DEF TypeOK, Ids
      <3> QED BY <3>1, LdkAssumption DEF Listing
    <2>3. listing' = [listing EXCEPT ![r] = q] /\ UNCHANGED <<payments, now, bill, paying>>
      BY <2>1 DEF StartListing
    <2> HIDE DEF q
    <2> QED BY <2>2, <2>3 DEF TypeOK
  <1>2. CASE ListPage(r)
    <2> DEFINE unseen == listing[r].unseen \ Page(listing[r])
               q == IF listing[r].page < TotalPages(listing[r])
                    THEN [listing[r] EXCEPT !.unseen = unseen, !.page = @ + 1]
                    ELSE [listing[r] EXCEPT !.unseen = unseen, !.done = TRUE]
    <2>1. q \in Listing
      <3>1. listing[r] \in Listing /\ unseen \in SUBSET Ids
        BY DEF TypeOK, Listing
      <3> HIDE DEF unseen
      <3>2. CASE listing[r].page < TotalPages(listing[r])
        <4>1. q = [listing[r] EXCEPT !.unseen = unseen, !.page = @ + 1]
          BY <3>2
        <4>2. listing[r].page \in Nat /\ listing[r].page + 1 \in Nat
          BY <3>1 DEF Listing
        <4> HIDE DEF q
        <4>3. q = [page |-> listing[r].page + 1, size |-> listing[r].size,
                   order |-> listing[r].order, outbound |-> listing[r].outbound,
                   done |-> listing[r].done, unseen |-> unseen]
          BY <3>1, <4>1 DEF Listing
        <4> QED BY <3>1, <4>2, <4>3 DEF Listing
      <3>3. CASE ~(listing[r].page < TotalPages(listing[r]))
        <4>1. q = [listing[r] EXCEPT !.unseen = unseen, !.done = TRUE]
          BY <3>3
        <4> HIDE DEF q
        <4> QED BY <3>1, <4>1 DEF Listing
      <3> QED BY <3>2, <3>3
    <2>2. listing' = [listing EXCEPT ![r] = q] /\ UNCHANGED <<payments, now, bill, paying>>
      BY <1>2 DEF ListPage
    <2> HIDE DEF q
    <2> QED BY <2>1, <2>2 DEF TypeOK
  <1>3. CASE EndListing(r)
    <2>1. NoListing \in Listing
      BY DEF NoListing, Listing
    <2> QED BY <1>3, <2>1 DEF EndListing, TypeOK
  <1> QED BY <1>1, <1>2, <1>3 DEF ReadStep

\* The pages cut so far and the last page leave nothing behind.
LEMMA Pages ==
  ASSUME NEW n \in Nat, NEW size \in Nat, size > 0
  PROVE  ((n + size - 1) \div size) * size >= n /\ (n + size - 1) \div size \in Nat
  OBVIOUS

LEMMA TimesGrows ==
  ASSUME NEW m \in Int, NEW n \in Int, NEW size \in Nat, m >= n
  PROVE  m * size >= n * size
  OBVIOUS

LEMMA ReadKeeps ==
  ASSUME TypeOK, ListingInv, NEW r \in Readers, ReadStep(r)
  PROVE  ListingInv'
  <1>1. /\ UNCHANGED <<payments, now, bill, paying>>
        /\ listing' \in [Readers -> Listing]
        /\ \A s \in Readers : s # r => listing'[s] = listing[s]
    BY ReadFrame
  <1>2. StampInv'
    BY <1>1 DEF ListingInv, StampInv
  <1>3. listing[r] \in Listing /\ listing[r].page \in Nat /\ listing[r].size \in Nat
        /\ payments \in Seq(Payment)
    <2>1. listing[r] \in Listing
      BY DEF TypeOK
    <2>2. listing[r].page \in Nat /\ listing[r].size \in PageSizes \cup {0}
      BY <2>1 DEF Listing
    <2> QED BY <2>1, <2>2, SizeType DEF TypeOK
  <1>4. (listing'[r].done => listing'[r].page > 0)
        /\ (Newest(listing'[r]) => Behind(listing'[r]))
    <2>1. CASE StartListings(r)
      <3>1. listing'[r].page = 1 /\ ~listing'[r].done /\ listing'[r].size \in Nat
        BY <2>1, LdkAssumption DEF StartListings, StartListing, TypeOK
      <3>2. \A i : Cardinality(Newer(payments, listing'[r].outbound, i)) \in Nat
        BY <1>3, ListedFinite
      <3> QED BY <3>1, <3>2 DEF Behind
    <2>2. CASE ListPage(r)
      <3> DEFINE q == listing[r]
                 unseen == q.unseen \ Page(q)
      <3>1. q.page > 0 /\ ~q.done
            /\ listing'[r] = IF q.page < TotalPages(q)
                             THEN [q EXCEPT !.unseen = unseen, !.page = @ + 1]
                             ELSE [q EXCEPT !.unseen = unseen, !.done = TRUE]
        BY <2>2 DEF ListPage, TypeOK
      <3>2. listing'[r].done => listing'[r].page > 0
        BY <1>3, <3>1 DEF Listing
      <3>3. ASSUME Newest(listing'[r]), NEW i \in listing'[r].unseen,
                   i \in Listed(payments, listing'[r].outbound)
            PROVE  /\ ~listing'[r].done
                   /\ Cardinality(Newer(payments, listing'[r].outbound, i))
                        >= (listing'[r].page - 1) * listing'[r].size
        <4>1. /\ listing'[r].order = q.order /\ listing'[r].size = q.size
              /\ listing'[r].outbound = q.outbound /\ listing'[r].unseen = unseen
          BY <1>3, <3>1 DEF Listing
        <4>2. q.order = "desc" /\ q.size > 0 /\ Newest(q)
          BY <3>1, <3>3, <4>1 DEF Newest
        <4> DEFINE place == Cardinality(Newer(payments, q.outbound, i))
                   count == Cardinality(Listed(payments, q.outbound))
        <4>3. place \in Nat /\ count \in Nat /\ place < count
          BY <1>3, <3>3, <4>1, ListedFinite, NewerBound
        <4>4. Filtered(q) = Listed(payments, q.outbound) /\ Position(i, q) = place
          BY <4>2, PositionIs
        <4>5. i \in Filtered(q) /\ i \in q.unseen /\ i \notin Page(q)
          BY <3>3, <4>1, <4>4
        <4>6. place >= (q.page - 1) * q.size
          BY <3>3, <4>1, <4>2, <4>5 DEF ListingInv, BehindInv, Behind
        <4>7. place >= q.page * q.size
          <5>1. place \notin (q.page - 1) * q.size .. (q.page - 1) * q.size + q.size - 1
            BY <4>4, <4>5 DEF Page
          <5>2. (q.page - 1) * q.size \in Int
                /\ (q.page - 1) * q.size + q.size = q.page * q.size
            BY <1>3
          <5> HIDE DEF place
          <5> QED BY <1>3, <4>3, <4>6, <5>1, <5>2
        <4>8. q.page < TotalPages(q)
          <5> SUFFICES ASSUME q.page >= TotalPages(q) PROVE FALSE
            BY <1>3, <4>2, <4>3, <4>4, Pages DEF TotalPages
          <5>1. TotalPages(q) = (count + q.size - 1) \div q.size
            BY <4>2, <4>4 DEF TotalPages
          <5>2. TotalPages(q) \in Nat /\ TotalPages(q) * q.size >= count
            BY <1>3, <4>2, <4>3, <5>1, Pages
          <5>3. q.page * q.size >= TotalPages(q) * q.size
            BY <1>3, <5>2, TimesGrows
          <5> QED BY <1>3, <4>3, <4>7, <5>2, <5>3
        <4>9. listing'[r].page = q.page + 1 /\ ~listing'[r].done
          BY <1>3, <3>1, <4>8 DEF Listing
        <4> QED BY <1>3, <4>1, <4>7, <4>9
      <3> QED BY <3>2, <3>3 DEF Behind
    <2>3. CASE EndListing(r)
      BY <2>3 DEF EndListing, NoListing, TypeOK, Newest
    <2> QED BY <2>1, <2>2, <2>3 DEF ReadStep
  <1>5. PagesInv'
    BY <1>1, <1>4 DEF ListingInv, PagesInv
  <1>6. BehindInv'
    <2> SUFFICES ASSUME NEW s \in Readers, Newest(listing'[s])
                 PROVE  Behind(listing[s])'
      BY DEF BehindInv
    <2> QED BY <1>1, <1>4 DEF ListingInv, BehindInv, Behind
  <1> QED BY <1>2, <1>5, <1>6 DEF ListingInv

-----------------------------------------------------------------------------
(* The theorems                                                            *)

Inv == TypeOK /\ AnswerInv /\ ListingInv

LEMMA InitHolds == Init => Inv
  <1> SUFFICES ASSUME Init PROVE Inv
    OBVIOUS
  <1>1. payments = <<>> /\ DOMAIN payments = {} /\ Len(payments) = 0 /\ payments \in Seq(Payment)
    BY DEF Init
  <1>2. NoPayment \in Paying /\ NoListing \in Listing
    BY DEF Paying, NoListing, Listing
  <1>3. TypeOK
    BY <1>1, <1>2, LdkAssumption DEF Init, TypeOK
  <1>4. \A c \in Payers : paying[c] = NoPayment
    BY DEF Init
  <1>5. \A b \in Bills : bill[b] = "due"
    BY DEF Init
  <1>6. AnswerInv
    BY <1>1, <1>4, <1>5
    DEF AnswerInv, PayingInv, OneLive, OthersFailed, OneEntry, BillInv, PaidInv
  <1>7. \A r \in Readers : listing[r].page = 0 /\ ~listing[r].done
    BY DEF Init, NoListing
  <1>8. ListingInv
    BY <1>1, <1>7 DEF ListingInv, StampInv, BehindInv, Newest, PagesInv
  <1> QED BY <1>3, <1>6, <1>8 DEF Inv

LEMMA StepKeeps == Inv /\ [Next]_vars => Inv'
  <1> SUFFICES ASSUME TypeOK, AnswerInv, ListingInv, [Next]_vars
               PROVE  TypeOK' /\ AnswerInv' /\ ListingInv'
    BY DEF Inv
  <1>1. ASSUME NEW c \in Payers, Poll(c)
        PROVE  TypeOK' /\ AnswerInv' /\ ListingInv'
    <2>1. TypeOK' /\ AnswerInv'
      BY <1>1, PollKeeps
    <2>2. UNCHANGED <<payments, now, listing>>
      BY <1>1 DEF Poll, PollSucceeded, PollFailed, PollPending, PollsOver, Answer
    <2> QED BY <2>1, <2>2 DEF ListingInv, StampInv, BehindInv, PagesInv, Behind
  <1>2. ASSUME NEW c \in Payers, NEW b \in Bills, SendPayment(c, b)
        PROVE  TypeOK' /\ AnswerInv' /\ ListingInv'
    <2>1. TypeOK' /\ AnswerInv'
      BY <1>2, SendPaymentKeeps
    <2>2. PICK i \in IF Of(b) = {} THEN {NextId} ELSE Of(b) : Put(i, b, "pending")
      BY <1>2 DEF SendPayment
    <2>3. i \in DOMAIN payments \cup {NextId} /\ (i \in DOMAIN payments => payments[i].bill = b)
      BY <2>2, NextIdIsNew DEF Of
    <2> QED BY <2>1, <2>2, <2>3, PutBehind DEF Status
  <1>3. ASSUME NEW c \in Payers, NEW b \in Bills, PayBolt12Offer(c, b)
        PROVE  TypeOK' /\ AnswerInv' /\ ListingInv'
    <2>1. TypeOK' /\ AnswerInv'
      BY <1>3, PayOfferKeeps
    <2>2. Put(NextId, b, "pending")
      BY <1>3 DEF PayBolt12Offer
    <2> QED BY <2>1, <2>2, NextIdIsNew, PutBehind DEF Status
  <1>4. ASSUME NEW b \in Bills, GetPaymentStatus(b)
        PROVE  TypeOK' /\ AnswerInv' /\ ListingInv'
    <2>1. TypeOK' /\ AnswerInv'
      BY <1>4, StatusKeeps
    <2>2. UNCHANGED <<payments, now, listing>>
      BY <1>4 DEF GetPaymentStatus
    <2> QED BY <2>1, <2>2 DEF ListingInv, StampInv, BehindInv, PagesInv, Behind
  <1>5. ASSUME NEW r \in Readers, ReadStep(r)
        PROVE  TypeOK' /\ AnswerInv' /\ ListingInv'
    <2>1. UNCHANGED <<payments, now, bill, paying>> /\ listing' \in [Readers -> Listing]
      BY <1>5, ReadFrame
    <2>2. TypeOK'
      BY <2>1 DEF TypeOK
    <2>3. AnswerInv'
      BY <2>1 DEF AnswerInv, PayingInv, OneLive, OthersFailed, OneEntry, BillInv, PaidInv
    <2>4. ListingInv'
      BY <1>5, ReadKeeps
    <2> QED BY <2>2, <2>3, <2>4
  <1>6. ASSUME NEW status \in Status, Put(NextId, None, status), UNCHANGED <<bill, paying>>
        PROVE  TypeOK' /\ AnswerInv' /\ ListingInv'
    <2>1. TypeOK' /\ AnswerInv'
      BY <1>6, ForeignKeeps
    <2> QED BY <1>6, <2>1, NextIdIsNew, PutBehind
  <1>7. CASE CreateInvoice
    BY <1>6, <1>7 DEF CreateInvoice, Status
  <1>8. CASE Arrive
    BY <1>6, <1>8 DEF Arrive, Status
  <1>9. ASSUME NEW i \in DOMAIN payments, Resolve(i)
        PROVE  TypeOK' /\ AnswerInv' /\ ListingInv'
    <2>1. TypeOK' /\ AnswerInv'
      BY <1>9, ResolveKeeps
    <2>2. PICK status \in {"succeeded", "failed"} : Put(i, payments[i].bill, status)
      BY <1>9 DEF Resolve
    <2>3. payments[i].bill \in Bills \cup {None}
      BY EntryType DEF TypeOK, Payment
    <2> QED BY <2>1, <2>2, <2>3, PutBehind DEF Status
  <1>10. CASE UNCHANGED vars
    <2>1. UNCHANGED <<payments, now, bill, paying, listing>>
      BY <1>10 DEF vars
    <2> QED BY <2>1 DEF TypeOK, AnswerInv, PayingInv, OneLive, OthersFailed, OneEntry, BillInv,
                        PaidInv, ListingInv, StampInv, BehindInv, PagesInv, Behind
  <1> QED BY <1>1, <1>2, <1>3, <1>4, <1>5, <1>7, <1>8, <1>9, <1>10
          DEF Next, ReadStep, StartListings

LEMMA Invariance == Spec => []Inv
  BY InitHolds, StepKeeps, PTL DEF Spec

\* Every state is of the declared types (TypeOK), whatever the clients ask for.
THEOREM TypeCorrect == Spec => []TypeOK
  <1>1. Inv => TypeOK
    BY DEF Inv
  <1> QED BY <1>1, Invariance, PTL

\* What send_payment, pay_bolt12_offer and get_payment_status answer stays
\* true, and no bill is paid twice (AnswersHold).
THEOREM AnswersAreTrue == Spec => []AnswersHold
  <1>1. Inv => AnswersHold
    BY AnswersFollow DEF Inv
  <1> QED BY <1>1, Invariance, PTL

\* Reading list_payments newest first to the last page misses no payment that
\* was there from the first page on and did not change (ListingComplete).
THEOREM NoPaymentMissed == Spec => []ListingComplete
  <1>1. Inv => ListingComplete
    BY ListingFollows DEF Inv
  <1> QED BY <1>1, Invariance, PTL
-----------------------------------------------------------------------------
(* Polling comes to an end                                                  *)

\* Polls a payer may still make, the last answer included.
PollsLeft(c) == IF paying[c] = NoPayment THEN 0 ELSE MaxAttempts + 1 - paying[c].tries

\* A payment call comes closer to its answer with each poll, and nothing else
\* moves it.
PollsWindDown ==
  \A c \in Payers : paying[c] # NoPayment =>
    IF Poll(c) THEN PollsLeft(c)' < PollsLeft(c) ELSE PollsLeft(c)' = PollsLeft(c)

LEMMA PollsLeftRange ==
  ASSUME TypeOK, NEW c \in Payers
  PROVE  /\ PollsLeft(c) \in 0 .. MaxAttempts + 1
         /\ paying[c] # NoPayment => PollsLeft(c) > 0
  <1>1. MaxAttempts \in Nat
    BY LdkAssumption
  <1>2. paying[c] # NoPayment => paying[c].tries \in 0 .. MaxAttempts
    BY DEF TypeOK, Paying
  <1> QED BY <1>1, <1>2 DEF PollsLeft

LEMMA PollCounts ==
  ASSUME TypeOK, NEW c \in Payers, Poll(c)
  PROVE  PollsLeft(c)' < PollsLeft(c)
  <1>1. CASE PollPending(c)
    <2>1. paying[c] # NoPayment /\ paying[c].tries < MaxAttempts
      BY <1>1 DEF PollPending, Polls
    <2>2. paying[c].tries \in 0 .. MaxAttempts /\ MaxAttempts \in Nat
      BY <2>1, LdkAssumption DEF TypeOK, Paying
    <2>3. paying'[c] = [paying[c] EXCEPT !.tries = paying[c].tries + 1]
      BY <1>1 DEF PollPending, TypeOK
    <2>4. paying'[c] # NoPayment /\ paying'[c].tries = paying[c].tries + 1
      <3>1. paying[c] \in [id : Ids, bill : Bills, tries : 0..MaxAttempts]
        BY <2>1 DEF TypeOK, Paying
      <3>2. paying'[c].bill = paying[c].bill /\ paying[c].bill \in Bills
        BY <2>3, <3>1
      <3> QED BY <2>3, <3>1, <3>2, BillsApart DEF NoPayment
    <2> QED BY <2>1, <2>2, <2>4 DEF PollsLeft
  <1>2. CASE paying' = [paying EXCEPT ![c] = NoPayment] /\ paying[c] # NoPayment
    <2>1. PollsLeft(c)' = 0
      BY <1>2 DEF PollsLeft, TypeOK
    <2> QED BY <1>2, <2>1, PollsLeftRange
  <1> QED BY <1>1, <1>2 DEF Poll, PollSucceeded, PollFailed, PollsOver, Polls, Answer

LEMMA PollerNotMoved ==
  ASSUME TypeOK, [Next]_vars, NEW c \in Payers, paying[c] # NoPayment, ~Poll(c)
  PROVE  paying'[c] = paying[c]
  <1>1. ASSUME NEW d \in Payers, Poll(d)
        PROVE  paying'[c] = paying[c]
    <2>1. d # c
      BY <1>1
    <2> QED BY <1>1, <2>1 DEF Poll, PollSucceeded, PollFailed, PollPending, PollsOver,
                              Answer, TypeOK
  <1>2. ASSUME NEW d \in Payers, NEW b \in Bills, SendPayment(d, b) \/ PayBolt12Offer(d, b)
        PROVE  paying'[c] = paying[c]
    <2>1. d # c
      BY <1>2 DEF SendPayment, PayBolt12Offer, Due
    <2> QED BY <1>2, <2>1 DEF SendPayment, PayBolt12Offer, Starts, TypeOK
  <1>3. CASE UNCHANGED paying
    BY <1>3
  <1> QED
    BY <1>1, <1>2, <1>3
    DEF Next, vars, GetPaymentStatus, StartListing, ListPage, EndListing, CreateInvoice,
        Arrive, Resolve

\* A payment call answers within MaxAttempts + 1 polls, also when the node never
\* settles the payment and whatever other threads send or read.
THEOREM PollingEnds ==
  Spec => [](\A c \in Payers : PollsLeft(c) \in 0 .. MaxAttempts + 1) /\ [][PollsWindDown]_vars
  <1>1. Inv => TypeOK /\ \A c \in Payers : PollsLeft(c) \in 0 .. MaxAttempts + 1
    BY PollsLeftRange DEF Inv
  <1>2. TypeOK /\ [Next]_vars => [PollsWindDown]_vars
    BY PollCounts, PollerNotMoved DEF PollsWindDown, PollsLeft
  <1> QED BY <1>1, <1>2, Invariance, PTL DEF Spec
=============================================================================
