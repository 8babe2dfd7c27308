----------------------------- MODULE Approvals -----------------------------
(***************************************************************************)
(* ApprovalsService (src/approvals/approvals.service.ts) for one approval: *)
(* its row and its history and signature rows in the database, the copies  *)
(* findOne keeps in the cache for each user, and the requests that read,   *)
(* change, save and record it.                                             *)
(*                                                                         *)
(* A request is one HTTP call, performed at most once.  It is split where  *)
(* the code awaits the database, so that the requests of several users,    *)
(* and of one user in two tabs, interleave at every await:                 *)
(*                                                                         *)
(*   Hit / Miss; Fill     findOne, the checks and the assignments          *)
(*   AddSignature         signatureRepository.save, in signApproval        *)
(*   Compare; Write       approvalRepository.save: TypeORM selects the     *)
(*                        row, computes the changed columns, updates them  *)
(*   Record               createHistoryEntry                               *)
(*   Announce             invalidateApprovalCache, approval.action.performed*)
(*                                                                         *)
(* The cache is cache-manager's memory store: set stores a deep clone, get *)
(* returns the stored object itself.  A request that hits therefore works  *)
(* on the cached object ("shared"): what it assigns is seen by the next    *)
(* request of that user, whether or not its save succeeds.                 *)
(***************************************************************************)
EXTENDS Naturals, Sequences

CONSTANTS
    Request,            \* HTTP calls, each performed at most once
    User,
    NoUser,
    Level,              \* the access level of each user
    Requester,          \* approval.requesterClerkUserId
    Approver,           \* approval.approverClerkUserId
    Delegates,          \* the users an approval may be delegated to
    Ops,                \* the operations the requests may ask for
    RequiresSignature,  \* approval.requiresSignature
    ReasonRequired,     \* the approval is of type CREDIT_LIMIT
    Failures,           \* database calls may fail and the process may restart
    NoCopy, NoEntry, NoCall

Levels == {"member", "manager", "admin"}

Creates   == {"create_draft", "create_pending"}
Decisions == {"approve", "reject", "request_info", "delegate", "escalate"}
AllOps    == Creates \cup Decisions
               \cup {"view", "update", "submit", "sign", "withdraw", "archive", "remove"}

ASSUME ApprovalsAssumption ==
    /\ NoUser \notin User
    /\ Level \in [User -> Levels]
    /\ Requester \in User
    /\ Approver \in User
    /\ Delegates \subseteq User
    /\ Ops \subseteq AllOps
    /\ RequiresSignature \in BOOLEAN
    /\ ReasonRequired \in BOOLEAN
    /\ Failures \in BOOLEAN

(***************************************************************************)
(* Data.  Of the columns of the row those are kept that a guard reads or   *)
(* that tell two writes apart.  A copy is an entity object as findOne      *)
(* loads it: the columns, and how many of the history and signature rows   *)
(* (both are only ever appended to) its joined collections hold.           *)
(***************************************************************************)
(* The statuses the service names; no operation sets submitted,            *)
(* under_review, completed or cancelled.                                   *)
Status == {"draft", "pending", "submitted", "under_review",
           "additional_info_required", "approved", "rejected", "signed",
           "completed", "withdrawn", "cancelled", "escalated"}

Row == [status: Status, delegate: User \cup {NoUser},
        version: Nat, archived: BOOLEAN, deleted: BOOLEAN]

(* before the approval is created *)
NoRow == [status |-> "none", delegate |-> NoUser, version |-> 0,
          archived |-> FALSE, deleted |-> FALSE]

Copy  == [row: Row, hist: Nat, sigs: Nat]
Entry == [action: AllOps, from: Status \cup {"none"}, to: Status, by: User]
Call  == [user: User, op: Ops, target: Delegates \cup {NoUser}, reason: BOOLEAN]

ASSUME NothingAssumption ==
    /\ NoCopy \notin Copy
    /\ NoEntry \notin Entry

VARIABLES
    row,      \* the approval's row in the database
    hist,     \* its approval_history rows, in the order of their insertion
    sigs,     \* how many approval_signatures rows it has
    cache,    \* cache[u]: the object under key findOne_{id}_{u}, or NoCopy
    pc,       \* where each request is
    call,     \* what it asks for
    copy,     \* the entity object it holds, unless that is the cached one
    shared,   \* shared[r]: r holds the object cached for its user
    base,     \* the columns TypeORM selected at the start of r's save
    entry,    \* the history entry r is to insert
    events    \* the approval.action.performed events emitted

vars == <<row, hist, sigs, cache, pc, call, copy, shared, base, entry, events>>

PC == {"idle", "loaded", "signing", "saving", "writing", "recording",
       "announcing", "done"}

Init ==
    /\ row = NoRow
    /\ hist = <<>>
    /\ sigs = 0
    /\ cache = [u \in User |-> NoCopy]
    /\ pc = [r \in Request |-> "idle"]
    /\ call = [r \in Request |-> NoCall]
    /\ copy = [r \in Request |-> NoCopy]
    /\ shared = [r \in Request |-> FALSE]
    /\ base = [r \in Request |-> NoRow]
    /\ entry = [r \in Request |-> NoEntry]
    /\ events = <<>>

-----------------------------------------------------------------------------
(***************************************************************************)
(* Who may ask for what.  The roles are those of the controller's @Roles   *)
(* (RoleGuard compares them exactly); a manager decides only through       *)
(* bulkAction, which passes no reason, delegate or escalation target on,   *)
(* and reads only through the event listeners' findOne.                    *)
(***************************************************************************)
EndpointAllows(l, op) ==
    \/ l = "member"  /\ op \in AllOps \ {"archive", "remove"}
    \/ l = "manager" /\ op \in {"view", "approve", "reject", "request_info"}
    \/ l = "admin"   /\ op \in {"archive", "remove"}

Calls == {q \in Call :
            /\ EndpointAllows(Level[q.user], q.op)
            /\ q.op \in Creates => q.user = Requester
            /\ (q.target # NoUser) <=> (q.op = "delegate")
            /\ q.reason => (q.op = "reject" /\ ReasonRequired
                              /\ Level[q.user] # "manager")}

(* applyScopingFilters and validateApprovalAccess, within one organisation *)
Sees(u, x) ==
    \/ Level[u] \in {"manager", "admin"}
    \/ u \in {Requester, Approver, x.delegate}

(* validateActionPermissions *)
CanApprove(u, x) == u \in {Approver, x.delegate} \/ Level[u] = "admin"

(* Mutant: a decided approval may be decided again. *)
OpenStatusesWithApproved == {"pending", "under_review", "approved"}

OpenStatuses == {"pending", "under_review"}     \* getValidStatusesForAction

(* Mutant: withdraw() does not look at the status. *)
PermitsAnyWithdrawal(q, x) ==
    \/ q.op \in {"update", "submit"} /\ x.status = "draft" /\ q.user = Requester
    \/ /\ q.op \in Decisions
       /\ CanApprove(q.user, x)
       /\ x.status \in OpenStatuses
    \/ q.op = "withdraw" /\ q.user = Requester
    \/ q.op = "remove"

(* The checks each operation makes on the copy x that findOne returned. *)
Permits(q, x) ==
    \/ q.op = "update"   /\ x.status = "draft" /\ q.user = Requester
    \/ q.op = "submit"   /\ x.status = "draft" /\ q.user = Requester
    \/ /\ q.op \in Decisions
       /\ CanApprove(q.user, x)
       /\ x.status \in OpenStatuses
       /\ q.op = "reject" /\ ReasonRequired => q.reason
    \/ q.op = "withdraw" /\ q.user = Requester /\ x.status \in OpenStatuses
    \/ q.op = "sign"     /\ x.status = "approved" /\ RequiresSignature
    \/ q.op = "archive"  /\ x.status \in {"completed", "rejected", "cancelled"}
    \/ q.op = "remove"

(* Mutant: request_info sets a status the enum does not have. *)
StatusAfterUnlisted(q, x) ==
    CASE q.op = "request_info" -> "info_required"
      [] q.op = "submit"       -> "pending"
      [] OTHER                 -> x.status

StatusAfter(q, x) ==
    CASE q.op = "submit"       -> "pending"
      [] q.op = "approve"      -> "approved"
      [] q.op = "reject"       -> "rejected"
      [] q.op = "request_info" -> "additional_info_required"
      [] q.op = "escalate"     -> "escalated"
      [] q.op = "withdraw"     -> "withdrawn"
      [] q.op = "sign"         -> "signed"
      [] OTHER                 -> x.status

(* The assignments each operation makes to the copy before it saves it. *)
Assign(q, x) ==
    [status   |-> StatusAfter(q, x),
     delegate |-> IF q.op = "delegate" THEN q.target ELSE x.delegate,
     version  |-> IF q.op = "update" THEN x.version + 1 ELSE x.version,
     archived |-> x.archived \/ q.op = "archive",
     deleted  |-> x.deleted \/ q.op = "remove"]

(* Mutant: the entry is taken before the status is assigned. *)
EntryForEarly(q, x) ==
    IF q.op \in {"archive", "remove", "view"} THEN NoEntry
    ELSE [action |-> q.op, from |-> x.status, to |-> x.status, by |-> q.user]

(* The history entry of each operation.  withdraw() reads approval.status  *)
(* after it has assigned it, so its entry's fromStatus is the new status;  *)
(* update() records its change as a submission; archive() and remove()     *)
(* record nothing.                                                         *)
EntryFor(q, x) ==
    IF q.op \in {"archive", "remove", "view"} THEN NoEntry
    ELSE [action |-> IF q.op = "update" THEN "submit" ELSE q.op,
          from   |-> IF q.op = "withdraw" THEN "withdrawn" ELSE x.status,
          to     |-> StatusAfter(q, x),
          by     |-> q.user]

-----------------------------------------------------------------------------
(***************************************************************************)
(* Objects.  Held(r) is the entity object request r works on.  When an     *)
(* entry leaves the cache, the requests that share it keep the object.     *)
(***************************************************************************)
Held(r) == IF shared[r] THEN cache[call[r].user] ELSE copy[r]

Sharers(u) == {r \in Request : shared[r] /\ call[r].user = u}

Kept(r, u) == IF r \in Sharers(u) THEN cache[u] ELSE copy[r]

Unshare(u) == shared' = [r \in Request |-> shared[r] /\ r \notin Sharers(u)]

With(c, x) == [row |-> x, hist |-> c.hist, sigs |-> c.sigs]

(* invalidateApprovalCache deletes these kinds of keys; the keys findOne   *)
(* writes, findOne_{id}_{user}, are of none of them.                       *)
InvalidatedKeys == {"id", "ref", "all", "stats", "pending", "user", "org",
                    "type", "status", "priority", "page", "search", "limit",
                    "filter"}

Invalidated(c) == [u \in User |-> IF "findOne" \in InvalidatedKeys THEN NoCopy
                                                                    ELSE c[u]]

Finish(r) ==
    /\ pc' = [pc EXCEPT ![r] = "done"]
    /\ copy' = [copy EXCEPT ![r] = NoCopy]
    /\ shared' = [shared EXCEPT ![r] = FALSE]
    /\ entry' = [entry EXCEPT ![r] = NoEntry]
    /\ call' = [call EXCEPT ![r] = NoCall]

-----------------------------------------------------------------------------
(* create(): the row is inserted, then its first history entry. *)
Create(r, q) ==
    /\ pc[r] = "idle"
    /\ q.op \in Creates
    /\ row = NoRow
    /\ LET s == IF q.op = "create_pending" THEN "pending" ELSE "draft" IN
         /\ row' = [status |-> s, delegate |-> NoUser, version |-> 1,
                    archived |-> FALSE, deleted |-> FALSE]
         /\ entry' = [entry EXCEPT ![r] = [action |-> "submit", from |-> "none",
                                           to |-> s, by |-> q.user]]
    /\ call' = [call EXCEPT ![r] = q]
    /\ pc' = [pc EXCEPT ![r] = "recording"]
    /\ UNCHANGED <<hist, sigs, cache, copy, shared, base, events>>

(* findOne() finds an entry for the user and returns that very object; the *)
(* operation refuses it, or assigns to it (signApproval inserts the        *)
(* signature row first).  No database call separates these steps.          *)
HitRefuse(r, q) ==
    /\ pc[r] = "idle"
    /\ q.op \notin Creates
    /\ cache[q.user] # NoCopy
    /\ ~(Sees(q.user, cache[q.user].row) /\ Permits(q, cache[q.user].row))
    /\ pc' = [pc EXCEPT ![r] = "done"]
    /\ UNCHANGED <<row, hist, sigs, cache, call, copy, shared, base, entry, events>>

HitProceed(r, q) ==
    /\ pc[r] = "idle"
    /\ q.op \notin Creates
    /\ cache[q.user] # NoCopy
    /\ LET x == cache[q.user].row IN
         /\ Sees(q.user, x)
         /\ Permits(q, x)
         /\ entry' = [entry EXCEPT ![r] = EntryFor(q, x)]
         /\ IF q.op = "sign"
            THEN /\ pc' = [pc EXCEPT ![r] = "signing"]
                 /\ UNCHANGED cache
            ELSE /\ pc' = [pc EXCEPT ![r] = "saving"]
                 /\ cache' = [cache EXCEPT ![q.user] = With(@, Assign(q, x))]
    /\ call' = [call EXCEPT ![r] = q]
    /\ shared' = [shared EXCEPT ![r] = TRUE]
    /\ UNCHANGED <<row, hist, sigs, copy, base, events>>

(* findOne() finds no entry: one query reads the row with its history and  *)
(* signatures; a deleted row, or one out of the user's scope, is not found.*)
MissNotFound(r, q) ==
    /\ pc[r] = "idle"
    /\ q.op \notin Creates
    /\ row # NoRow
    /\ cache[q.user] = NoCopy
    /\ row.deleted \/ ~Sees(q.user, row)
    /\ pc' = [pc EXCEPT ![r] = "done"]
    /\ UNCHANGED <<row, hist, sigs, cache, call, copy, shared, base, entry, events>>

Miss(r, q) ==
    /\ pc[r] = "idle"
    /\ q.op \notin Creates
    /\ row # NoRow
    /\ cache[q.user] = NoCopy
    /\ ~row.deleted
    /\ Sees(q.user, row)
    /\ copy' = [copy EXCEPT ![r] = [row |-> row, hist |-> Len(hist), sigs |-> sigs]]
    /\ call' = [call EXCEPT ![r] = q]
    /\ pc' = [pc EXCEPT ![r] = "loaded"]
    /\ UNCHANGED <<row, hist, sigs, cache, shared, base, entry, events>>

(* The query has answered: findOne() puts a clone into the cache, whatever *)
(* has been written meanwhile, and the operation goes on with its own      *)
(* object.                                                                 *)
FillRefuse(r) ==
    /\ pc[r] = "loaded"
    /\ ~Permits(call[r], copy[r].row)
    /\ cache' = [cache EXCEPT ![call[r].user] = copy[r]]
    /\ LET u == call[r].user IN
         /\ copy' = [s \in Request |-> IF s = r THEN NoCopy ELSE Kept(s, u)]
         /\ Unshare(u)
    /\ pc' = [pc EXCEPT ![r] = "done"]
    /\ call' = [call EXCEPT ![r] = NoCall]
    /\ UNCHANGED <<row, hist, sigs, base, entry, events>>

FillProceed(r) ==
    /\ pc[r] = "loaded"
    /\ LET q == call[r]
           x == copy[r].row
           u == q.user
           own == IF q.op = "sign" THEN copy[r] ELSE With(copy[r], Assign(q, x))
       IN  /\ Permits(q, x)
           /\ cache' = [cache EXCEPT ![u] = copy[r]]
           /\ copy' = [s \in Request |-> IF s = r THEN own ELSE Kept(s, u)]
           /\ Unshare(u)
           /\ entry' = [entry EXCEPT ![r] = EntryFor(q, x)]
           /\ pc' = [pc EXCEPT ![r] = IF q.op = "sign" THEN "signing" ELSE "saving"]
    /\ UNCHANGED <<row, hist, sigs, call, base, events>>

(* signApproval() inserts the signature row, and only then changes and     *)
(* saves the approval.                                                     *)
AddSignature(r) ==
    /\ pc[r] = "signing"
    /\ sigs' = sigs + 1
    /\ LET u == call[r].user
           c == With(Held(r), Assign(call[r], Held(r).row))
       IN IF shared[r]
          THEN /\ cache' = [cache EXCEPT ![u] = c]
               /\ UNCHANGED copy
          ELSE /\ copy' = [copy EXCEPT ![r] = c]
               /\ UNCHANGED cache
    /\ pc' = [pc EXCEPT ![r] = "saving"]
    /\ UNCHANGED <<row, hist, call, shared, base, entry, events>>

(* approvalRepository.save(), first half (TypeORM): select the row and the *)
(* ids of its history and signature rows, and compute what changed.  The   *)
(* collections are cascaded (approval.entity.ts:291-295), so a child row   *)
(* that the database has and the object lacks is an orphan: TypeORM sets   *)
(* its approvalUid to NULL, the NOT NULL column refuses, and the whole     *)
(* save is rolled back.                                                    *)
(* Mutant: the history collection is not cascaded. *)
CompleteSignatures(c) == c.sigs = sigs

Complete(c) == c.hist = Len(hist) /\ c.sigs = sigs

Compare(r) ==
    /\ pc[r] = "saving"
    /\ Complete(Held(r))
    /\ base' = [base EXCEPT ![r] = row]
    /\ copy' = [copy EXCEPT ![r] = Held(r)]
    /\ shared' = [shared EXCEPT ![r] = FALSE]
    /\ pc' = [pc EXCEPT ![r] = "writing"]
    /\ UNCHANGED <<row, hist, sigs, cache, call, entry, events>>

CompareOrphans(r) ==
    /\ pc[r] = "saving"
    /\ ~Complete(Held(r))
    /\ Finish(r)
    /\ UNCHANGED <<row, hist, sigs, cache, base, events>>

(* approvalRepository.save(), second half: update the columns in which the *)
(* object differed from the selected row, and no others.                   *)
Changed(b, x, now) == IF x # b THEN x ELSE now

Merge(b, x, now) ==
    [status   |-> Changed(b.status, x.status, now.status),
     delegate |-> Changed(b.delegate, x.delegate, now.delegate),
     version  |-> Changed(b.version, x.version, now.version),
     archived |-> Changed(b.archived, x.archived, now.archived),
     deleted  |-> Changed(b.deleted, x.deleted, now.deleted)]

(* Mutant: the decision is announced before its history entry is inserted. *)
WriteAndAnnounce(r) ==
    /\ pc[r] = "writing"
    /\ row' = Merge(base[r], copy[r].row, row)
    /\ pc' = [pc EXCEPT ![r] = "announcing"]
    /\ UNCHANGED <<hist, sigs, cache, events, base, copy, shared, entry, call>>

Write(r) ==
    /\ pc[r] = "writing"
    /\ row' = Merge(base[r], copy[r].row, row)
    /\ base' = [base EXCEPT ![r] = NoRow]
    /\ IF entry[r] = NoEntry
       THEN Finish(r)
       ELSE /\ pc' = [pc EXCEPT ![r] = "recording"]
            /\ copy' = [copy EXCEPT ![r] = NoCopy]
            /\ UNCHANGED <<shared, entry, call>>
    /\ UNCHANGED <<hist, sigs, cache, events>>

(* createHistoryEntry() *)
Record(r) ==
    /\ pc[r] = "recording"
    /\ hist' = Append(hist, entry[r])
    /\ IF call[r].op \in Decisions
       THEN /\ pc' = [pc EXCEPT ![r] = "announcing"]
            /\ UNCHANGED <<copy, shared, entry, call>>
       ELSE Finish(r)
    /\ UNCHANGED <<row, sigs, cache, base, events>>

(* The end of performAction(): the caches are invalidated and the listeners*)
(* of approval.action.performed are called.                                *)
Announce(r) ==
    /\ pc[r] = "announcing"
    /\ events' = Append(events, entry[r])
    /\ cache' = Invalidated(cache)
    /\ Finish(r)
    /\ UNCHANGED <<row, hist, sigs, base>>

(* A database call of the request fails: the error is rethrown, and what   *)
(* the request assigned to a cached object stays there.                    *)
Fail(r) ==
    /\ Failures
    /\ pc[r] \in {"signing", "saving", "writing", "recording"}
    /\ base' = [base EXCEPT ![r] = NoRow]
    /\ Finish(r)
    /\ UNCHANGED <<row, hist, sigs, cache, events>>

(* The entry expires after five minutes, or the store evicts it. *)
Evict(u) ==
    /\ cache[u] # NoCopy
    /\ copy' = [r \in Request |-> Kept(r, u)]
    /\ Unshare(u)
    /\ cache' = [cache EXCEPT ![u] = NoCopy]
    /\ UNCHANGED <<row, hist, sigs, pc, call, base, entry, events>>

(* The process restarts: the requests in flight and the cache are gone. *)
Restart ==
    /\ Failures
    /\ \E r \in Request : pc[r] \notin {"idle", "done"}
    /\ pc' = [r \in Request |-> IF pc[r] = "idle" THEN "idle" ELSE "done"]
    /\ cache' = [u \in User |-> NoCopy]
    /\ copy' = [r \in Request |-> NoCopy]
    /\ shared' = [r \in Request |-> FALSE]
    /\ base' = [r \in Request |-> NoRow]
    /\ entry' = [r \in Request |-> NoEntry]
    /\ call' = [r \in Request |-> NoCall]
    /\ UNCHANGED <<row, hist, sigs, events>>

Next ==
    \/ \E r \in Request : \E q \in Calls :
          \/ Create(r, q)
          \/ HitRefuse(r, q)
          \/ HitProceed(r, q)
          \/ MissNotFound(r, q)
          \/ Miss(r, q)
    \/ \E r \in Request :
          \/ FillRefuse(r)
          \/ FillProceed(r)
          \/ AddSignature(r)
          \/ Compare(r)
          \/ CompareOrphans(r)
          \/ Write(r)
          \/ Record(r)
          \/ Announce(r)
          \/ Fail(r)
    \/ \E u \in User : Evict(u)
    \/ Restart

Spec == Init /\ [][Next]_vars

-----------------------------------------------------------------------------
(***************************************************************************)
(* Properties.                                                             *)
(***************************************************************************)
TypeOK ==
    /\ row \in Row \cup {NoRow}
    /\ hist \in Seq(Entry)
    /\ sigs \in Nat
    /\ cache \in [User -> Copy \cup {NoCopy}]
    /\ pc \in [Request -> PC]
    /\ call \in [Request -> Calls \cup {NoCall}]
    /\ copy \in [Request -> Copy \cup {NoCopy}]
    /\ shared \in [Request -> BOOLEAN]
    /\ base \in [Request -> Row \cup {NoRow}]
    /\ entry \in [Request -> Entry \cup {NoEntry}]
    /\ events \in Seq(Entry)

(* The statuses that are meant to be final (signing apart, which never     *)
(* gets past the orphan check).  additional_info_required is not one:      *)
(* getValidStatusesForAction (2492) and approvals.controller.ts:3444 and   *)
(* 3616 have it withdrawn, although withdraw() refuses it, so that no      *)
(* operation leaves it either.                                             *)
Closing == {"approved", "rejected", "withdrawn", "escalated", "signed"}

(* The objects a save could still take its columns from. *)
Objects == {cache[u] : u \in User} \cup {copy[r] : r \in Request}

(* The status is closing, every object that a save would still accept      *)
(* shows it, and no save past its comparison is about to change it.        *)
Decided ==
    /\ row.status \in Closing
    /\ \A c \in Objects \ {NoCopy} : Complete(c) => c.row.status = row.status
    /\ \A r \in Request : pc[r] = "writing" =>
          Changed(base[r].status, copy[r].row.status, row.status) = row.status

Lifecycle == INSTANCE ApprovalLifecycle
    WITH Opening <- {"draft", "pending"}, status <- row.status, final <- Decided

(* The row's status moves as the abstract life cycle says: it is opened    *)
(* once, and once decided it never moves again.                            *)
LifecycleSpec == Lifecycle!Spec

(* A decided approval stays decided, with the same status, whatever stale  *)
(* copies requests and caches still hold and whatever fails.               *)
DecisionIsFinal == [][Decided => Decided' /\ row'.status = row.status]_vars

(* What makes a closing status final is its history entry: once any entry  *)
(* is inserted while the status is closing and no overlapping save is      *)
(* about to change it, every copy taken before is refused as incomplete.   *)
RecordDecides ==
    [][ (/\ hist' # hist
         /\ row.status \in Closing
         /\ \A r \in Request : pc[r] = "writing" =>
               Changed(base[r].status, copy[r].row.status, row.status) = row.status)
        => Decided' ]_vars

(* The listeners that change leaves, claims and clients are told only of   *)
(* actions whose history entry is in the database.                         *)
AnnouncedIsRecorded ==
    \A i \in DOMAIN events : \E j \in DOMAIN hist : hist[j] = events[i]

AtRest == \A r \in Request : pc[r] \in {"idle", "done"}

(* When nothing fails, the status an approval rests in is the outcome of   *)
(* an entry of its history (the audit trail the controller documents).     *)
(* Not so if the operations include update, submit or delegate: two        *)
(* requests of one user that share the cached object may save one status   *)
(* and record another.                                                     *)
RestingStatusIsAudited ==
    (AtRest /\ row # NoRow) => \E j \in DOMAIN hist : hist[j].to = row.status

-----------------------------------------------------------------------------
(* What the documentation says and the code does not keep.                 *)

(* approvals.service.ts:153 "Clears all relevant cache entries when        *)
(* approval data changes": at rest, a cached copy shows the stored status. *)
CacheIsCurrent ==
    AtRest => \A u \in User : cache[u] # NoCopy => cache[u].row.status = row.status

(* approvals.controller.ts:3457 "Withdrawal cannot be undone - requires    *)
(* new submission".                                                        *)
WithdrawalIsIrreversible ==
    [][row.status = "withdrawn" => row'.status = "withdrawn"]_vars

(* approvals.controller.ts:148 "Completion: Final status with optional     *)
(* digital signature": at rest, an approval with a signature row is signed.*)
SignatureCompletes == (AtRest /\ sigs > 0) => row.status = "signed"
=============================================================================
