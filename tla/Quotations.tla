----------------------------- MODULE Quotations -----------------------------
(***************************************************************************)
(* One quotation of the shop (src/shop/shop.service.ts): its status, the   *)
(* sales its approvals record (recordSale of src/products/                 *)
(* products.service.ts), and the editing of its items.                     *)
(*                                                                         *)
(* Staff change the status within a table of transitions, the client       *)
(* decides through a review token, or edits the items.  Every operation    *)
(* reads and checks the quotation and writes it some awaits later, without *)
(* looking again.  The client has an e-mail address (without one, a        *)
(* decision by token records no sale), and the quotation does not expire.  *)
(***************************************************************************)
EXTENDS Naturals, FiniteSets

CONSTANTS
    QuotationUser,   \* users, each with one call in progress at most
    Targets,         \* the statuses staff ask for
    MaxApprovals,    \* bound on the approvals, which are counted
    NoTarget

OrderStatus == {"draft", "pending_internal", "pending_client", "negotiation",
                "approved", "rejected", "sourcing", "packing", "in_fulfillment",
                "paid", "outfordelivery", "delivered", "returned", "completed",
                "cancelled", "postponed", "inprogress", "pending"}

ASSUME QuotationsAssumption ==
    /\ Targets \subseteq OrderStatus
    /\ MaxApprovals \in Nat
    /\ NoTarget \notin OrderStatus

VARIABLES
    quotation,    \* its row: the status, and a version of the items
    approvals,    \* how many times it has become approved
    sold,         \* salesCount in the analytics of its product
    quoteCall,    \* each user's call: where it is, the status it writes, whether
                  \* it came by token, and salesCount as it has read it
    overlaps      \* calls have overlapped, or one has failed

quoteVars == <<quotation, approvals, sold, quoteCall, overlaps>>

QuotePC == {"idle", "counting", "selling", "updating", "editing"}

Idle == [pc |-> "idle", status |-> NoTarget, token |-> FALSE, read |-> 0]

(* createQuotation() saves it as pending_internal, createBlankQuotation()  *)
(* as a draft.                                                             *)
QuotationsInit ==
    /\ \E s \in {"draft", "pending_internal"} : quotation = [status |-> s, items |-> 0]
    /\ approvals = 0
    /\ sold = 0
    /\ quoteCall = [u \in QuotationUser |-> Idle]
    /\ overlaps = FALSE

(* Mutant: goods may be sourced while the client still negotiates. *)
TransitionsFromNegotiation(s) ==
    CASE s = "pending_internal" -> {"pending_client", "draft", "cancelled"}
      [] s \in {"draft", "pending_client"} -> {"negotiation", "pending_internal"}
      [] s = "negotiation"      -> {"pending_client", "approved", "sourcing"}
      [] OTHER                  -> {}

(* isValidStatusTransition                                                 *)
Transitions(s) ==
    CASE s = "draft"            -> {"pending_internal", "pending_client", "cancelled"}
      [] s = "pending_internal" -> {"pending_client", "draft", "cancelled"}
      [] s = "pending_client"   -> {"approved", "rejected", "negotiation",
                                    "pending_internal", "cancelled"}
      [] s = "negotiation"      -> {"pending_internal", "pending_client", "approved",
                                    "rejected", "cancelled"}
      [] s = "approved"         -> {"sourcing", "packing", "in_fulfillment",
                                    "cancelled", "negotiation"}
      [] s = "sourcing"         -> {"packing", "in_fulfillment", "cancelled"}
      [] s = "packing"          -> {"in_fulfillment", "outfordelivery", "cancelled"}
      [] s = "in_fulfillment"   -> {"paid", "packing", "outfordelivery", "cancelled"}
      [] s = "paid"             -> {"packing", "outfordelivery", "delivered", "cancelled"}
      [] s = "outfordelivery"   -> {"delivered", "returned", "cancelled"}
      [] s = "delivered"        -> {"completed", "returned", "cancelled"}
      [] s = "returned"         -> {"completed", "cancelled", "sourcing", "packing"}
      [] s = "pending"          -> {"inprogress", "approved", "rejected", "cancelled",
                                    "pending_internal", "pending_client"}
      [] s = "inprogress"       -> {"completed", "cancelled", "in_fulfillment",
                                    "sourcing", "packing", "outfordelivery", "delivered"}
      [] OTHER                  -> {}

Busy == {u \in QuotationUser : quoteCall[u] # Idle}

At(u, p) == quoteCall[u].pc = p

GoTo(u, p) == quoteCall' = [quoteCall EXCEPT ![u] = IF p = "idle" THEN Idle
                                                    ELSE [@ EXCEPT !.pc = p]]

(* A call that has passed its checks goes on to p, to write status s.      *)
StartCall(u, p, s, token) ==
    /\ At(u, "idle")
    /\ s = "approved" => approvals < MaxApprovals /\ sold < MaxApprovals      \* bound
    /\ quoteCall' = [quoteCall EXCEPT ![u] = [pc |-> p, status |-> s, token |-> token,
                                              read |-> 0]]
    /\ overlaps' = (overlaps \/ Busy # {})
    /\ UNCHANGED <<quotation, approvals, sold>>

-----------------------------------------------------------------------------
(* updateQuotationStatus: an approval records its sale before the status   *)
(* is updated.                                                             *)
RequestStatus(u) ==
    \E s \in Targets \cap Transitions(quotation.status) :
       StartCall(u, IF s = "approved" THEN "counting" ELSE "updating", s, FALSE)

(* updateQuotationStatusByToken: validateReviewToken checks the status.    *)
Reviewable == {"pending_client", "negotiation", "pending"}

Review(u) ==
    /\ quotation.status \in Reviewable
    /\ \E s \in {"approved", "rejected", "negotiation"} : StartCall(u, "updating", s, TRUE)

(* sendQuotationToClient                                                   *)
Send(u) ==
    /\ quotation.status \in {"pending_internal", "draft"}
    /\ StartCall(u, "updating", "pending_client", FALSE)

(* canEditQuotation, which lets a returned quotation be edited, and an     *)
(* approved one; the items are replaced in a transaction, after the        *)
(* products have been read, whatever the status is by then.                *)
NonEditable == {"sourcing", "packing", "in_fulfillment", "paid", "outfordelivery",
                "delivered", "completed", "cancelled"}

Edit(u) ==
    /\ quotation.status \notin NonEditable
    /\ StartCall(u, "editing", NoTarget, TRUE)

SaveEdit(u) ==
    /\ At(u, "editing")
    /\ quotation' = [quotation EXCEPT !.items = 1 - @]
    /\ GoTo(u, "idle")
    /\ UNCHANGED <<approvals, sold, overlaps>>

(* Mutant: a decision by token records a sale whatever the client decided. *)
AfterUpdateAlways(c) == IF c.token THEN "counting" ELSE "idle"

(* The status is updated, whatever it has become.  After an approval by    *)
(* token the sale is recorded.                                             *)
AfterUpdate(c) == IF c.token /\ c.status = "approved" THEN "counting" ELSE "idle"

UpdateStatus(u) ==
    /\ At(u, "updating")
    /\ LET c == quoteCall[u] IN
         /\ quotation' = [quotation EXCEPT !.status = c.status]
         /\ approvals' = IF c.status = "approved" THEN approvals + 1 ELSE approvals
         /\ GoTo(u, AfterUpdate(c))
    /\ UNCHANGED <<sold, overlaps>>

(* recordSale reads the product's analytics and writes them back with one  *)
(* sale more.                                                              *)
ReadSales(u) ==
    /\ At(u, "counting")
    /\ quoteCall' = [quoteCall EXCEPT ![u].pc = "selling", ![u].read = sold]
    /\ UNCHANGED <<quotation, approvals, sold, overlaps>>

AfterSale(c) == IF c.token THEN "idle" ELSE "updating"

RecordSale(u) ==
    /\ At(u, "selling")
    /\ sold' = quoteCall[u].read + 1
    /\ GoTo(u, AfterSale(quoteCall[u]))
    /\ UNCHANGED <<quotation, approvals, overlaps>>

(* recordSale swallows its errors; a failing update ends the call.         *)
FailSale(u) ==
    /\ At(u, "counting") \/ At(u, "selling")
    /\ GoTo(u, AfterSale(quoteCall[u]))
    /\ overlaps' = TRUE
    /\ UNCHANGED <<quotation, approvals, sold>>

FailUpdate(u) ==
    /\ At(u, "updating") \/ At(u, "editing")
    /\ GoTo(u, "idle")
    /\ overlaps' = TRUE
    /\ UNCHANGED <<quotation, approvals, sold>>

QuotationStep(u) ==
    \/ RequestStatus(u)
    \/ Review(u)
    \/ Send(u)
    \/ Edit(u)
    \/ SaveEdit(u)
    \/ UpdateStatus(u)
    \/ ReadSales(u)
    \/ RecordSale(u)
    \/ FailSale(u)
    \/ FailUpdate(u)

QuotationsNext == \E u \in QuotationUser : QuotationStep(u)

QuotationsSpec == QuotationsInit /\ [][QuotationsNext]_quoteVars

-----------------------------------------------------------------------------
QuotationsTypeOK ==
    /\ quotation \in [status: OrderStatus, items: {0, 1}]
    /\ approvals \in Nat
    /\ sold \in Nat
    /\ quoteCall \in [QuotationUser ->
                       [pc: QuotePC, status: OrderStatus \cup {NoTarget},
                        token: BOOLEAN, read: Nat]]
    /\ overlaps \in BOOLEAN

Fulfilment == {"sourcing", "packing", "in_fulfillment", "paid", "outfordelivery",
               "delivered", "returned", "completed"}

(* Goods are sourced, packed, paid for or delivered only on a quotation    *)
(* that was approved at some time, however the calls of staff and client   *)
(* overlap: a call that read the status before another changed it can      *)
(* undo an approval, and cannot do without one.                            *)
FulfilledWasApproved == quotation.status \in Fulfilment => approvals > 0

(* Unless calls overlap or one fails, each approval, by staff or by token, *)
(* is one sale in the product's analytics, and nothing else is.            *)
SalesMatchApprovals == (Busy = {} /\ ~overlaps) => sold = approvals
=============================================================================
