------------------------------ MODULE LdkPayments ------------------------------
(***************************************************************************)
(* The payment capabilities of the LDK app                                 *)
(* (cross-node-rental/src/ldk_bolt12_capabilities.rs): sending with its    *)
(* polling, the status of a payment, and the history page by page.  Each   *)
(* call runs on a thread of its own and each call of the node is a step.   *)
(*                                                                         *)
(* The node (ldk-node) and the clients are external: the node settles or   *)
(* fails a payment whenever it likes, and a client pays a bill again only  *)
(* after an answer that says it was not paid.                              *)
(***************************************************************************)
EXTENDS Integers, FiniteSets, Sequences

CONSTANTS Payers,       \* threads that pay
          Readers,      \* threads that read the history
          Invoices,     \* BOLT11 bills: the node pays one at most once
          Offers,       \* BOLT12 bills: reusable, each send is a new payment
          PageSizes,    \* page_size of list_payments
          Orders,       \* sort_order of list_payments
          MaxAttempts,  \* polls of a payment (50 in the code)
          MaxPayments,  \* bound: payments in the node's history
          MaxNow,       \* bound: seconds of the timestamps
          None

Bills == Invoices \cup Offers

ASSUME LdkAssumption ==
  /\ MaxAttempts \in Nat /\ MaxPayments \in Nat /\ MaxNow \in Nat
  /\ PageSizes \subseteq Nat /\ Orders \subseteq {"asc", "desc"}
  /\ Invoices \cap Offers = {} /\ None \notin Bills

VARIABLES payments,   \* the node's history
          now,        \* seconds
          bill,       \* what the client of a bill knows
          paying,     \* per payer: the payment it polls, or NoPayment
          listing     \* per reader: the pages it reads, or NoListing

vars == <<payments, now, bill, paying, listing>>

Ids == 1..MaxPayments
Payment == [bill : Bills \cup {None}, status : {"pending", "succeeded", "failed"},
            stamp : 0..MaxNow]

NoPayment == [id |-> 0, bill |-> None, tries |-> 0]
Paying == [id : Ids, bill : Bills, tries : 0..MaxAttempts] \cup {NoPayment}

\* unseen: payments listed at the first page, unchanged since and not seen yet.
NoListing == [page |-> 0, size |-> 0, order |-> "desc", outbound |-> FALSE,
              done |-> FALSE, unseen |-> {}]
Listing == [page : Nat, size : PageSizes \cup {0}, order : {"asc", "desc"},
            outbound : BOOLEAN, done : BOOLEAN, unseen : SUBSET Ids]

TypeOK ==
  /\ payments \in Seq(Payment) /\ Len(payments) <= MaxPayments
  /\ now \in 0..MaxNow
  /\ bill \in [Bills -> {"due", "asked", "pending", "paid"}]
  /\ paying \in [Payers -> Paying]
  /\ listing \in [Readers -> Listing]

Init ==
  /\ payments = <<>> /\ now = 0
  /\ bill = [b \in Bills |-> "due"]
  /\ paying = [c \in Payers |-> NoPayment]
  /\ listing = [r \in Readers |-> NoListing]

-----------------------------------------------------------------------------
(* The node's history.  A listing under way can no longer count on finding *)
(* a payment that changes.                                                 *)

Changed(i) == listing' = [r \in Readers |-> [listing[r] EXCEPT !.unseen = @ \ {i}]]

Put(i, b, status) ==
  /\ i \in Ids
  /\ \E second \in now..MaxNow :
       LET entry == [bill |-> b, status |-> status, stamp |-> second] IN
       /\ now' = second
       /\ payments' = IF i \in DOMAIN payments THEN [payments EXCEPT ![i] = entry]
                                               ELSE Append(payments, entry)
  /\ Changed(i)

Of(b) == {i \in DOMAIN payments : payments[i].bill = b}
With(b, status) == {i \in Of(b) : payments[i].status = status}
NextId == Len(payments) + 1

\* A pending payment settles or fails.
Resolve(i) ==
  /\ payments[i].status = "pending"
  /\ \E status \in {"succeeded", "failed"} : Put(i, payments[i].bill, status)
  /\ UNCHANGED <<bill, paying>>

\* A payment for one of the node's offers comes in.
Arrive ==
  /\ Put(NextId, None, "succeeded")
  /\ UNCHANGED <<bill, paying>>

\* create_invoice: the node keeps the payment it waits for as pending.
CreateInvoice ==
  /\ Put(NextId, None, "pending")
  /\ UNCHANGED <<bill, paying>>

-----------------------------------------------------------------------------
(* send_payment and pay_bolt12_offer: a send, then up to MaxAttempts polls *)

Starts(c, b, i) ==
  /\ paying' = [paying EXCEPT ![c] = [id |-> i, bill |-> b, tries |-> 0]]
  /\ bill' = [bill EXCEPT ![b] = "asked"]

Due(c, b) == paying[c] = NoPayment /\ bill[b] = "due"

\* A BOLT11 payment's id is the hash of its invoice: the node refuses a second
\* one unless the first failed, and then replaces it.  An error changes nothing.
SendPayment(c, b) ==
  /\ b \in Invoices /\ Due(c, b)
  /\ Of(b) = With(b, "failed")
  /\ \E i \in IF Of(b) = {} THEN {NextId} ELSE Of(b) :
       Put(i, b, "pending") /\ Starts(c, b, i)

PayBolt12Offer(c, b) ==
  /\ b \in Offers /\ Due(c, b)
  /\ Put(NextId, b, "pending") /\ Starts(c, b, NextId)

Answer(c, known) ==
  /\ bill' = [bill EXCEPT ![paying[c].bill] = known]
  /\ paying' = [paying EXCEPT ![c] = NoPayment]
  /\ UNCHANGED <<payments, now, listing>>

\* Fault for testing: one poll too many.
Polls_OneMore(c, status) ==
  /\ paying[c] # NoPayment /\ paying[c].tries <= MaxAttempts
  /\ payments[paying[c].id].status = status

Polls(c, status) ==
  /\ paying[c] # NoPayment /\ paying[c].tries < MaxAttempts
  /\ payments[paying[c].id].status = status

\* A settled invoice whose preimage is not in the history is answered as pending.
PollSucceeded(c) ==
  /\ Polls(c, "succeeded")
  /\ \/ Answer(c, "paid")
     \/ paying[c].bill \in Invoices /\ Answer(c, "pending")

PollFailed(c) == Polls(c, "failed") /\ Answer(c, "due")

\* Fault for testing: nothing counts the polls.
PollPending_ForEver(c) == Polls(c, "pending") /\ UNCHANGED vars

PollPending(c) ==
  /\ Polls(c, "pending")
  /\ paying' = [paying EXCEPT ![c].tries = @ + 1]
  /\ UNCHANGED <<payments, now, bill, listing>>

\* Fault for testing: what is not settled in time is answered as failed.
PollsOver_Failed(c) ==
  /\ paying[c] # NoPayment /\ paying[c].tries = MaxAttempts
  /\ Answer(c, "due")

PollsOver(c) ==
  /\ paying[c] # NoPayment /\ paying[c].tries = MaxAttempts
  /\ Answer(c, "pending")

-----------------------------------------------------------------------------
(* get_payment_status finds a payment by its hash.  Only the client of an  *)
(* invoice has one to ask with: pay_bolt12_offer answers a payment id.     *)

\* Fault for testing: everything but a success is answered as failed.
StatusOf_NotPaid(i) == IF payments[i].status = "succeeded" THEN "paid" ELSE "due"

StatusOf(i) == CASE payments[i].status = "succeeded" -> "paid"
                 [] payments[i].status = "failed"    -> "due"
                 [] payments[i].status = "pending"   -> "pending"

GetPaymentStatus(b) ==
  /\ b \in Invoices /\ bill[b] = "pending"
  /\ \E i \in Of(b) : bill' = [bill EXCEPT ![b] = StatusOf(i)]
  /\ UNCHANGED <<payments, now, paying, listing>>

-----------------------------------------------------------------------------
(* list_payments, asked for page after page while has_next says so.  Each  *)
(* page is cut out of the history as it is when the page is asked for.     *)

Filtered(q) == {i \in DOMAIN payments : q.outbound => payments[i].bill # None}

\* sort_by is stable: entries of one second stay in the node's order, which is
\* assumed not to change but for new payments at its end.
Before(i, j, order) ==
  \/ order = "asc"  /\ payments[i].stamp < payments[j].stamp
  \/ order = "desc" /\ payments[i].stamp > payments[j].stamp
  \/ payments[i].stamp = payments[j].stamp /\ i < j

Position(i, q) == Cardinality({j \in Filtered(q) : Before(j, i, q.order)})

\* Fault for testing: pages are counted from zero.
Page_FromZero(q) ==
  LET offset == q.page * q.size
  IN  {i \in Filtered(q) : Position(i, q) \in offset .. offset + q.size - 1}

Page(q) ==
  LET offset == (q.page - 1) * q.size
  IN  {i \in Filtered(q) : Position(i, q) \in offset .. offset + q.size - 1}

\* Line 757 narrows both numbers to u32, which is the identity for page sizes
\* below 2^32, the only ones listed here: a multiple of 2^32 would divide by zero.
TotalPages(q) ==
  IF q.size > 0 THEN (Cardinality(Filtered(q)) + q.size - 1) \div q.size ELSE 1

StartListing(r, size, order, outbound) ==
  /\ listing[r].page = 0
  /\ listing' = [listing EXCEPT ![r] =
       [page |-> 1, size |-> size, order |-> order, outbound |-> outbound,
        done |-> FALSE, unseen |-> DOMAIN payments]]
  /\ UNCHANGED <<payments, now, bill, paying>>

ListPage(r) ==
  LET q == listing[r]
      unseen == q.unseen \ Page(q)
  IN  /\ q.page > 0 /\ ~q.done
      /\ listing' = [listing EXCEPT ![r] =
           IF q.page < TotalPages(q) THEN [q EXCEPT !.unseen = unseen, !.page = @ + 1]
                                     ELSE [q EXCEPT !.unseen = unseen, !.done = TRUE]]
      /\ UNCHANGED <<payments, now, bill, paying>>

EndListing(r) ==
  /\ listing[r].done
  /\ listing' = [listing EXCEPT ![r] = NoListing]
  /\ UNCHANGED <<payments, now, bill, paying>>

-----------------------------------------------------------------------------
Poll(c) == PollSucceeded(c) \/ PollFailed(c) \/ PollPending(c) \/ PollsOver(c)

Next ==
  \/ \E c \in Payers : Poll(c) \/ \E b \in Bills : SendPayment(c, b) \/ PayBolt12Offer(c, b)
  \/ \E b \in Bills : GetPaymentStatus(b)
  \/ \E r \in Readers :
       \/ \E size \in PageSizes, order \in Orders, outbound \in BOOLEAN :
            StartListing(r, size, order, outbound)
       \/ ListPage(r) \/ EndListing(r)
  \/ CreateInvoice \/ Arrive
  \/ \E i \in DOMAIN payments : Resolve(i)

Spec == Init /\ [][Next]_vars

\* A thread runs to the end of its call.  Nothing is assumed of the node: a
\* payment may stay pending for ever.
FairSpec == Spec /\ \A c \in Payers : WF_vars(Poll(c))

-----------------------------------------------------------------------------
\* What a client was told stays true, so that a client that pays again only
\* after an error pays no bill twice, however late the node settles: nothing is
\* under way or paid of a bill it may pay again, a bill it holds for paid is
\* paid, and none is paid twice.
AnswersHold ==
  \A b \in Bills :
    /\ bill[b] = "due" => Of(b) = With(b, "failed")
    /\ bill[b] = "paid" => With(b, "succeeded") # {}
    /\ \A i, j \in With(b, "succeeded") : i = j

\* Reading the history newest first, page by page, misses no payment that was
\* there from the first page on and did not change meanwhile, whatever other
\* payments arrived, settled or failed between two pages.
ListingComplete ==
  \A r \in Readers :
    LET q == listing[r] IN
    q.done /\ q.order = "desc" /\ q.size > 0 => q.unseen \cap Filtered(q) = {}

\* Every payment call returns, even when the node never settles the payment.
PayReturns == \A c \in Payers : paying[c] # NoPayment ~> paying[c] = NoPayment
=============================================================================
