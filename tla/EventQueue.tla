----------------------------- MODULE EventQueue -----------------------------
(***************************************************************************)
(* EventQueueService (src/lib/services/event-queue.service.ts) with those  *)
(* who use it: the shop queues the PDF of a new quotation, and             *)
(* QuotationPdfListener queues the mail that carries it.                   *)
(*                                                                         *)
(* The queues are entries of the process's memory cache, one per priority  *)
(* (nothing queues at critical or low).  The cache answers without leaving *)
(* the event loop's turn, so queueEvent and a whole tick of the processor  *)
(* are each one step; what a listener awaits from the database or from the *)
(* PDF service is not.                                                     *)
(*                                                                         *)
(* emit() hands an event to listeners that Nest wraps: their failures are  *)
(* caught there and never reach processEvent.  So retryEvent is never      *)
(* called, no event is scheduled for later, and the dead letters stay      *)
(* empty: none of them has an action here.                                 *)
(***************************************************************************)
EXTENDS Naturals, Sequences

CONSTANTS
    Quote,       \* the quotations placed
    ByStaff,     \* those placed by a sales representative
    WithMail,    \* those with a recipient's address
    BatchSize    \* BATCH_SIZE

ASSUME EventQueueAssumption ==
    /\ BatchSize \in Nat \ {0}
    /\ ByStaff \subseteq Quote
    /\ WithMail \subseteq Quote

EventPriority == {"high", "normal"}

QueuedEvent == [event: {"target", "pdf", "mail"}, quote: Quote]

(* Each quotation's PDF is asked for twice: by an event emitted at once    *)
(* "for backward compatibility", and by the one in the queue.              *)
Via == {"direct", "queued"}

HandlerPC == {"none", "generating", "storing", "mailing", "failed", "ended"}

VARIABLES
    placed,     \* the quotations placed so far
    queue,      \* the queue of each priority
    accepted,   \* the events each queue has been given
    emitted,    \* the events it has emitted
    intact,     \* nothing was lost: no restart, and the queue was not evicted
    handler,    \* the run of handleQuotationPdfGeneration for each event
    pdfURL      \* the quotations whose row has its PDF

eventVars == <<placed, queue, accepted, emitted, intact, handler, pdfURL>>

EventsInit ==
    /\ placed = {}
    /\ queue = [p \in EventPriority |-> <<>>]
    /\ accepted = [p \in EventPriority |-> <<>>]
    /\ emitted = [p \in EventPriority |-> <<>>]
    /\ intact = TRUE
    /\ handler = [q \in Quote |-> [v \in Via |-> "none"]]
    /\ pdfURL = {}

Event(e, q) == [event |-> e, quote |-> q]

(* queueEvent: one more event at the end of the priority's queue.          *)
QueueEvent(p, e) ==
    /\ queue' = [queue EXCEPT ![p] = Append(@, e)]
    /\ accepted' = [accepted EXCEPT ![p] = Append(@, e)]

(* After createQuotation has answered: the target's update, the PDF's      *)
(* generation, and the same event emitted.                                 *)
Publish(q) ==
    LET target == IF q \in ByStaff THEN <<Event("target", q)>> ELSE <<>>
        Grow(s) == [s EXCEPT !["normal"] = @ \o target,
                             !["high"] = Append(@, Event("pdf", q))]
    IN  /\ q \notin placed
        /\ placed' = placed \cup {q}
        /\ queue' = Grow(queue)
        /\ accepted' = Grow(accepted)
        /\ handler' = [handler EXCEPT ![q]["direct"] = "generating"]
        /\ UNCHANGED <<emitted, intact, pdfURL>>

Least(a, b) == IF a < b THEN a ELSE b

(* Mutant: the batch is one shorter than what is taken off the queue. *)
BatchOffByOne(s) == SubSeq(s, 1, Least(BatchSize - 1, Len(s)))

(* processPriorityQueue takes a batch off the front, and stores the rest.  *)
Batch(s) == SubSeq(s, 1, Least(BatchSize, Len(s)))

Rest(s) == SubSeq(s, Least(BatchSize, Len(s)) + 1, Len(s))

(* Mutant: the tick ends when the first queue is empty. *)
TurnWhileHigh(p) == queue[p] # <<>> /\ queue["high"] # <<>>

(* processQueue comes to every priority at every tick.                     *)
Turn(p) == queue[p] # <<>>

(* A tick: of every priority in turn, a batch is emitted.  The listener of *)
(* a PDF's event begins its work.                                          *)
Tick ==
    LET turns == {p \in EventPriority : Turn(p)}
        begun == {Batch(queue["high"])[i].quote : i \in DOMAIN Batch(queue["high"])}
    IN  /\ \E p \in EventPriority : queue[p] # <<>>
        /\ emitted' = [p \in EventPriority |-> IF p \in turns
                                               THEN emitted[p] \o Batch(queue[p])
                                               ELSE emitted[p]]
        /\ queue' = [p \in EventPriority |-> IF p \in turns THEN Rest(queue[p])
                                             ELSE queue[p]]
        /\ handler' = [q \in Quote |-> IF q \in begun
                                       THEN [handler[q] EXCEPT !["queued"] = "generating"]
                                       ELSE handler[q]]
        /\ UNCHANGED <<placed, accepted, intact, pdfURL>>

Becomes(q, v, p) == handler' = [handler EXCEPT ![q][v] = p]

-----------------------------------------------------------------------------
(* handleQuotationPdfGeneration: the quotation is read and its PDF made.   *)
(* generateQuotationPDF answers null to every error, which ends the run.   *)
Generate(q, v) ==
    /\ handler[q][v] = "generating"
    /\ \E p \in {"storing", "ended"} : Becomes(q, v, p)
    /\ UNCHANGED <<placed, queue, accepted, emitted, intact, pdfURL>>

(* Mutant: the mail goes out even if the row was not updated. *)
StoreSkipped(q, v) ==
    /\ handler[q][v] = "storing"
    /\ Becomes(q, v, "mailing")
    /\ UNCHANGED <<placed, queue, accepted, emitted, intact, pdfURL>>

Store(q, v) ==
    /\ handler[q][v] = "storing"
    /\ pdfURL' = pdfURL \cup {q}
    /\ Becomes(q, v, "mailing")
    /\ UNCHANGED <<placed, queue, accepted, emitted, intact>>

QueueMail(q, v) ==
    /\ handler[q][v] = "mailing"
    /\ Becomes(q, v, "ended")
    /\ IF q \in WithMail THEN QueueEvent("normal", Event("mail", q))
                         ELSE UNCHANGED <<queue, accepted>>
    /\ UNCHANGED <<placed, emitted, intact, pdfURL>>

(* A database call fails: the listener throws, "event queue will handle    *)
(* retry automatically".                                                   *)
FailHandler(q, v) ==
    /\ handler[q][v] \in {"generating", "storing"}
    /\ Becomes(q, v, "failed")
    /\ UNCHANGED <<placed, queue, accepted, emitted, intact, pdfURL>>

(* The cache holds a hundred entries for five seconds, shared with other   *)
(* modules: a queue may be evicted.                                        *)
EvictQueue(p) ==
    /\ queue[p] # <<>>
    /\ queue' = [queue EXCEPT ![p] = <<>>]
    /\ intact' = FALSE
    /\ UNCHANGED <<placed, accepted, emitted, handler, pdfURL>>

(* A restart loses the queues, and the runs in progress.                   *)
RestartQueue ==
    /\ placed # {}
    /\ queue' = [p \in EventPriority |-> <<>>]
    /\ intact' = FALSE
    /\ handler' = [q \in Quote |-> [v \in Via |-> IF handler[q][v] = "none" THEN "none"
                                                  ELSE "ended"]]
    /\ UNCHANGED <<placed, accepted, emitted, pdfURL>>

ContinueHandler(q, v) == Generate(q, v) \/ Store(q, v) \/ QueueMail(q, v)

EventsNext ==
    \/ \E q \in Quote : Publish(q)
    \/ Tick
    \/ \E q \in Quote, v \in Via : ContinueHandler(q, v) \/ FailHandler(q, v)
    \/ \E p \in EventPriority : EvictQueue(p)
    \/ RestartQueue

(* The interval fires every second, and what is awaited comes or fails.    *)
EventsFairness ==
    /\ WF_eventVars(Tick)
    /\ \A q \in Quote, v \in Via : WF_eventVars(ContinueHandler(q, v))

EventsSpec == EventsInit /\ [][EventsNext]_eventVars /\ EventsFairness

-----------------------------------------------------------------------------
EventsTypeOK ==
    /\ placed \subseteq Quote
    /\ queue \in [EventPriority -> Seq(QueuedEvent)]
    /\ accepted \in [EventPriority -> Seq(QueuedEvent)]
    /\ emitted \in [EventPriority -> Seq(QueuedEvent)]
    /\ intact \in BOOLEAN
    /\ handler \in [Quote -> [Via -> HandlerPC]]
    /\ pdfURL \subseteq Quote

Waits(e, s) == \E i \in DOMAIN s : s[i] = e

(* Unless the cache loses a queue, every event is emitted once and in the  *)
(* order of its priority, or still waits: none is lost, duplicated or      *)
(* overtaken between listeners that add to a queue and the tick that cuts  *)
(* it.                                                                     *)
NothingLost ==
    intact => \A p \in EventPriority : accepted[p] = emitted[p] \o queue[p]

(* No mail about a PDF is queued before the quotation's row has it,        *)
(* whichever of the two runs of the listener comes first, restarts         *)
(* included: what the client's review page shows is there when the mail is.*)
MailedIsStored ==
    \A i \in DOMAIN accepted["normal"] :
      LET e == accepted["normal"][i] IN e.event = "mail" => e.quote \in pdfURL

(* Every queue is empty again and again, however listeners add to it: no   *)
(* event waits for ever behind others of its priority or of a higher one,  *)
(* and by NothingLost it was emitted.                                      *)
QueuesDrain == []<>(\A p \in EventPriority : queue[p] = <<>>)

(* quotation-pdf.listener.ts:98 "Event queue will handle retry             *)
(* automatically": a generation that failed comes back to a queue.         *)
FailedIsRetried ==
    \A q \in Quote :
      (handler[q]["queued"] = "failed")
        ~> (~intact \/ Waits(Event("pdf", q), queue["high"]))
=============================================================================
