-------------------------- MODULE ApprovalsProofs --------------------------
(***************************************************************************)
(* Proofs about Approvals, for any set of requests, users and operations.  *)
(***************************************************************************)
EXTENDS Approvals, TLAPS

Holding == {"loaded", "signing", "saving", "writing"}

(* Which objects a request holds at each place of its program.             *)
Shape ==
    \A r \in Request :
      /\ pc[r] \in Holding => call[r] \in Calls /\ row # NoRow
      /\ shared[r] => /\ pc[r] \in {"signing", "saving"}
                      /\ cache[call[r].user] \in Copy
      /\ pc[r] \in Holding /\ ~shared[r] => copy[r] \in Copy
      /\ pc[r] \in {"recording", "announcing"} => entry[r] \in Entry

(* Only an existing approval is cached. *)
CachedExists == \A u \in User : cache[u] # NoCopy => row # NoRow

Inv == TypeOK /\ Shape /\ CachedExists

-----------------------------------------------------------------------------
(* The assignments of an operation turn a row into a row. *)
LEMMA AssignType ==
    ASSUME NEW q \in Calls, NEW x \in Row
    PROVE  /\ StatusAfter(q, x) \in Status
           /\ Assign(q, x) \in Row
<1>0. x.status \in Status BY DEF Row
<1>1. StatusAfter(q, x) \in Status
  BY <1>0 DEF StatusAfter, Status
<1>2. q.target \in User \cup {NoUser}
  BY ApprovalsAssumption DEF Calls, Call
<1> QED BY <1>1, <1>2 DEF Assign, Row

LEMMA EntryType ==
    ASSUME NEW q \in Calls, NEW x \in Row
    PROVE  EntryFor(q, x) \in Entry \cup {NoEntry}
<1>1. x.status \in Status /\ StatusAfter(q, x) \in Status
  BY AssignType DEF Row
<1>2. q.user \in User /\ q.op \in AllOps
  BY ApprovalsAssumption DEF Calls, Call
<1>3. "submit" \in AllOps /\ "withdrawn" \in Status
  BY DEF AllOps, Status
<1> QED BY <1>1, <1>2, <1>3 DEF EntryFor, Entry

LEMMA MergeType ==
    ASSUME NEW b \in Row \cup {NoRow}, NEW x \in Row, NEW n \in Row
    PROVE  Merge(b, x, n) \in Row
BY DEF Merge, Changed, Row

LEMMA CallType ==
    ASSUME NEW q \in Calls
    PROVE  q.user \in User /\ q.op \in AllOps
BY ApprovalsAssumption DEF Calls, Call

(* The object a request holds is a copy. *)
LEMMA HeldType ==
    ASSUME Inv, NEW r \in Request, pc[r] \in Holding
    PROVE  Held(r) \in Copy
BY DEF Inv, Shape, Held

-----------------------------------------------------------------------------
LEMMA InitInv == Init => Inv
<1> SUFFICES ASSUME Init PROVE Inv OBVIOUS
<1>1. TypeOK
  BY DEF Init, TypeOK, PC
<1>2. Shape
  BY DEF Init, Shape, Holding
<1>3. CachedExists
  BY DEF Init, CachedExists
<1> QED BY <1>1, <1>2, <1>3 DEF Inv

(* One lemma per action: it keeps the types, the shapes and the cache.     *)
LEMMA CreateInv ==
    ASSUME Inv, NEW r \in Request, NEW q \in Calls, Create(r, q)
    PROVE  Inv'
<1> DEFINE s == IF q.op = "create_pending" THEN "pending" ELSE "draft"
           x == [status |-> s, delegate |-> NoUser, version |-> 1,
                 archived |-> FALSE, deleted |-> FALSE]
           e == [action |-> "submit", from |-> "none", to |-> s, by |-> q.user]
<1>1. x \in Row /\ e \in Entry /\ x # NoRow
  <2>1. q.user \in User BY CallType
  <2>2. s \in Status /\ s # "none" BY DEF Status
  <2>3. "submit" \in AllOps BY DEF AllOps
  <2> QED BY <2>1, <2>2, <2>3 DEF Row, Entry, NoRow
<1>2. /\ row' = x /\ entry' = [entry EXCEPT ![r] = e]
      /\ pc' = [pc EXCEPT ![r] = "recording"]
      /\ call' = [call EXCEPT ![r] = q] /\ pc[r] = "idle"
      /\ UNCHANGED <<hist, sigs, cache, copy, shared, base, events>>
  BY DEF Create
<1> HIDE DEF x, e
<1>3. TypeOK'
  BY <1>1, <1>2 DEF Inv, TypeOK, PC
<1>4. Shape'
  BY <1>1, <1>2 DEF Inv, TypeOK, Shape, Holding
<1>5. CachedExists'
  BY <1>1, <1>2 DEF Inv, CachedExists
<1> QED BY <1>3, <1>4, <1>5 DEF Inv

LEMMA RefuseInv ==
    ASSUME Inv, NEW r \in Request, NEW q \in Calls,
           HitRefuse(r, q) \/ MissNotFound(r, q)
    PROVE  Inv'
<1>1. /\ pc' = [pc EXCEPT ![r] = "done"] /\ pc[r] = "idle"
      /\ UNCHANGED <<row, hist, sigs, cache, call, copy, shared, base, entry, events>>
  BY DEF HitRefuse, MissNotFound
<1>2. TypeOK' BY <1>1 DEF Inv, TypeOK, PC
<1>3. Shape' BY <1>1 DEF Inv, TypeOK, Shape, Holding
<1>4. CachedExists' BY <1>1 DEF Inv, CachedExists
<1> QED BY <1>2, <1>3, <1>4 DEF Inv

LEMMA HitProceedInv ==
    ASSUME Inv, NEW r \in Request, NEW q \in Calls, HitProceed(r, q)
    PROVE  Inv'
<1> DEFINE u == q.user
           c == cache[u]
           d == With(c, Assign(q, c.row))
           e == EntryFor(q, c.row)
<1>0. u \in User BY CallType
<1>1. c \in Copy /\ c.row \in Row /\ c # NoCopy /\ row # NoRow
  BY <1>0 DEF HitProceed, Inv, TypeOK, CachedExists, Copy
<1>2. d \in Copy
  BY <1>1, AssignType DEF Copy, With
<1>3. e \in Entry \cup {NoEntry}
  BY <1>1, EntryType
<1>4. /\ pc[r] = "idle"
      /\ entry' = [entry EXCEPT ![r] = e]
      /\ pc' = [pc EXCEPT ![r] = "signing"] \/ pc' = [pc EXCEPT ![r] = "saving"]
      /\ cache' = cache \/ cache' = [cache EXCEPT ![u] = d]
      /\ call' = [call EXCEPT ![r] = q]
      /\ shared' = [shared EXCEPT ![r] = TRUE]
      /\ UNCHANGED <<row, hist, sigs, copy, base, events>>
  BY <1>0 DEF HitProceed
<1> HIDE DEF u, d, e
<1>5. cache' \in [User -> Copy \cup {NoCopy}] /\ cache'[u] \in Copy
  BY <1>0, <1>1, <1>2, <1>4 DEF Inv, TypeOK, c
<1>5a. \A v \in User : cache[v] \in Copy => cache'[v] \in Copy
  BY <1>0, <1>2, <1>4 DEF Inv, TypeOK
<1>6. TypeOK'
  BY <1>3, <1>4, <1>5 DEF Inv, TypeOK, PC
<1>7. Shape'
  <2> SUFFICES ASSUME NEW t \in Request
               PROVE  /\ pc'[t] \in Holding => call'[t] \in Calls /\ row' # NoRow
                      /\ shared'[t] => /\ pc'[t] \in {"signing", "saving"}
                                       /\ cache'[call'[t].user] \in Copy
                      /\ pc'[t] \in Holding /\ ~shared'[t] => copy'[t] \in Copy
                      /\ pc'[t] \in {"recording", "announcing"} => entry'[t] \in Entry
    BY DEF Shape
  <2>1. CASE t = r
    BY <2>1, <1>1, <1>4, <1>5 DEF Inv, TypeOK, u
  <2>2. CASE t # r
    <3>1. /\ pc'[t] = pc[t] /\ call'[t] = call[t] /\ shared'[t] = shared[t]
          /\ copy'[t] = copy[t] /\ entry'[t] = entry[t]
      BY <2>2, <1>4 DEF Inv, TypeOK
    <3>2. shared[t] => call[t].user \in User
      <4>1. shared[t] => call[t] \in Calls BY DEF Inv, Shape, Holding
      <4> QED BY <4>1, CallType
    <3> QED BY <3>1, <3>2, <1>1, <1>4, <1>5a DEF Inv, Shape
  <2> QED BY <2>1, <2>2
<1>8. CachedExists'
  BY <1>1, <1>4 DEF CachedExists
<1> QED BY <1>6, <1>7, <1>8 DEF Inv

LEMMA MissInv ==
    ASSUME Inv, NEW r \in Request, NEW q \in Calls, Miss(r, q)
    PROVE  Inv'
<1> DEFINE c == [row |-> row, hist |-> Len(hist), sigs |-> sigs]
<1>1. c \in Copy
  BY DEF Miss, Inv, TypeOK, Copy
<1>2. /\ pc[r] = "idle" /\ row # NoRow
      /\ copy' = [copy EXCEPT ![r] = c]
      /\ call' = [call EXCEPT ![r] = q]
      /\ pc' = [pc EXCEPT ![r] = "loaded"]
      /\ UNCHANGED <<row, hist, sigs, cache, shared, base, entry, events>>
  BY DEF Miss
<1> HIDE DEF c
<1>3. TypeOK' BY <1>1, <1>2 DEF Inv, TypeOK, PC
<1>4. Shape' BY <1>1, <1>2 DEF Inv, TypeOK, Shape, Holding
<1>5. CachedExists' BY <1>2 DEF Inv, CachedExists
<1> QED BY <1>3, <1>4, <1>5 DEF Inv

(* The requests that share the object cached for a user hold a call of     *)
(* that user, and the object is a copy.                                    *)
LEMMA SharerType ==
    ASSUME Inv, NEW t \in Request, shared[t]
    PROVE  /\ pc[t] \in {"signing", "saving"}
           /\ call[t] \in Calls
           /\ call[t].user \in User
           /\ cache[call[t].user] \in Copy
<1>1. pc[t] \in {"signing", "saving"} /\ cache[call[t].user] \in Copy
  BY DEF Inv, Shape
<1>2. call[t] \in Calls
  BY <1>1 DEF Inv, Shape, Holding
<1> QED BY <1>1, <1>2, CallType

LEMMA FillRefuseInv ==
    ASSUME Inv, NEW r \in Request, FillRefuse(r)
    PROVE  Inv'
<1> DEFINE u == call[r].user
<1>0. /\ pc[r] = "loaded" /\ call[r] \in Calls /\ row # NoRow /\ u \in User
      /\ ~shared[r] /\ copy[r] \in Copy
  BY CallType DEF FillRefuse, Inv, Shape, Holding
<1>1. /\ cache' = [cache EXCEPT ![u] = copy[r]]
      /\ copy' = [t \in Request |-> IF t = r THEN NoCopy ELSE Kept(t, u)]
      /\ shared' = [t \in Request |-> shared[t] /\ t \notin Sharers(u)]
      /\ pc' = [pc EXCEPT ![r] = "done"]
      /\ call' = [call EXCEPT ![r] = NoCall]
      /\ UNCHANGED <<row, hist, sigs, base, entry, events>>
  BY DEF FillRefuse, Unshare
<1>2. ASSUME NEW t \in Request, t # r
      PROVE  /\ pc'[t] = pc[t] /\ call'[t] = call[t] /\ entry'[t] = entry[t]
             /\ shared'[t] = (shared[t] /\ call[t].user # u)
             /\ copy'[t] = IF shared[t] /\ call[t].user = u THEN cache[u] ELSE copy[t]
  BY <1>1, <1>2 DEF Sharers, Kept, Inv, TypeOK
<1>3. copy'[r] = NoCopy /\ shared'[r] = FALSE /\ pc'[r] = "done"
  BY <1>0, <1>1 DEF Inv, TypeOK
<1>4. \A t \in Request : copy'[t] \in Copy \cup {NoCopy}
  BY <1>2, <1>3, <1>0 DEF Inv, TypeOK
<1>5. \A t \in Request : shared'[t] \in BOOLEAN
  BY <1>2, <1>3 DEF Inv, TypeOK
<1>6. TypeOK'
  BY <1>0, <1>1, <1>4, <1>5 DEF Inv, TypeOK, PC
<1>7. Shape'
  <2> SUFFICES ASSUME NEW t \in Request
               PROVE  /\ pc'[t] \in Holding => call'[t] \in Calls /\ row' # NoRow
                      /\ shared'[t] => /\ pc'[t] \in {"signing", "saving"}
                                       /\ cache'[call'[t].user] \in Copy
                      /\ pc'[t] \in Holding /\ ~shared'[t] => copy'[t] \in Copy
                      /\ pc'[t] \in {"recording", "announcing"} => entry'[t] \in Entry
    BY DEF Shape
  <2>1. CASE t = r BY <2>1, <1>3 DEF Holding
  <2>2. CASE t # r
    <3>1. shared[t] => call[t].user \in User /\ cache[call[t].user] \in Copy
      BY SharerType
    <3>2. shared'[t] => cache'[call'[t].user] \in Copy
      BY <3>1, <2>2, <1>0, <1>1, <1>2 DEF Inv, TypeOK
    <3>3. pc'[t] \in Holding /\ ~shared'[t] => copy'[t] \in Copy
      BY <3>1, <2>2, <1>2 DEF Inv, Shape
    <3> QED BY <3>2, <3>3, <2>2, <1>0, <1>1, <1>2 DEF Inv, Shape
  <2> QED BY <2>1, <2>2
<1>8. CachedExists'
  BY <1>0, <1>1 DEF CachedExists
<1> QED BY <1>6, <1>7, <1>8 DEF Inv

LEMMA FillProceedInv ==
    ASSUME Inv, NEW r \in Request, FillProceed(r)
    PROVE  Inv'
<1> DEFINE q == call[r]
           u == q.user
           c == copy[r]
           d == With(c, Assign(q, c.row))
           e == EntryFor(q, c.row)
<1>0. /\ pc[r] = "loaded" /\ q \in Calls /\ row # NoRow /\ u \in User
      /\ ~shared[r] /\ c \in Copy /\ c.row \in Row
  BY CallType DEF FillProceed, Inv, Shape, Holding, Copy
<1>0a. d \in Copy /\ e \in Entry \cup {NoEntry}
  BY <1>0, AssignType, EntryType DEF Copy, With
<1>1. /\ cache' = [cache EXCEPT ![u] = c]
      /\ copy' = [t \in Request |-> IF t = r THEN IF q.op = "sign" THEN c ELSE d
                                    ELSE Kept(t, u)]
      /\ shared' = [t \in Request |-> shared[t] /\ t \notin Sharers(u)]
      /\ pc' = [pc EXCEPT ![r] = IF q.op = "sign" THEN "signing" ELSE "saving"]
      /\ entry' = [entry EXCEPT ![r] = e]
      /\ UNCHANGED <<row, hist, sigs, call, base, events>>
  BY DEF FillProceed, Unshare
<1> HIDE DEF d, e
<1>2. ASSUME NEW t \in Request, t # r
      PROVE  /\ pc'[t] = pc[t] /\ call'[t] = call[t] /\ entry'[t] = entry[t]
             /\ shared'[t] = (shared[t] /\ call[t].user # u)
             /\ copy'[t] = IF shared[t] /\ call[t].user = u THEN cache[u] ELSE copy[t]
  BY <1>1, <1>2 DEF Sharers, Kept, Inv, TypeOK
<1>3. /\ copy'[r] = (IF q.op = "sign" THEN c ELSE d)
      /\ shared'[r] = FALSE /\ pc'[r] \in {"signing", "saving"}
  BY <1>0, <1>1 DEF Inv, TypeOK, Sharers
<1>4. \A t \in Request : copy'[t] \in Copy \cup {NoCopy}
  BY <1>2, <1>3, <1>0, <1>0a DEF Inv, TypeOK
<1>5. \A t \in Request : shared'[t] \in BOOLEAN
  BY <1>2, <1>3 DEF Inv, TypeOK
<1>6. TypeOK'
  BY <1>0, <1>0a, <1>1, <1>4, <1>5 DEF Inv, TypeOK, PC
<1>7. Shape'
  <2> SUFFICES ASSUME NEW t \in Request
               PROVE  /\ pc'[t] \in Holding => call'[t] \in Calls /\ row' # NoRow
                      /\ shared'[t] => /\ pc'[t] \in {"signing", "saving"}
                                       /\ cache'[call'[t].user] \in Copy
                      /\ pc'[t] \in Holding /\ ~shared'[t] => copy'[t] \in Copy
                      /\ pc'[t] \in {"recording", "announcing"} => entry'[t] \in Entry
    BY DEF Shape
  <2>1. CASE t = r BY <2>1, <1>0, <1>0a, <1>1, <1>3 DEF Holding
  <2>2. CASE t # r
    <3>1. shared[t] => call[t].user \in User /\ cache[call[t].user] \in Copy
      BY SharerType
    <3>2. shared'[t] => cache'[call'[t].user] \in Copy
      BY <3>1, <2>2, <1>0, <1>1, <1>2 DEF Inv, TypeOK
    <3>3. pc'[t] \in Holding /\ ~shared'[t] => copy'[t] \in Copy
      BY <3>1, <2>2, <1>2 DEF Inv, Shape
    <3> QED BY <3>2, <3>3, <2>2, <1>0, <1>1, <1>2 DEF Inv, Shape
  <2> QED BY <2>1, <2>2
<1>8. CachedExists'
  BY <1>0, <1>1 DEF CachedExists
<1> QED BY <1>6, <1>7, <1>8 DEF Inv

LEMMA AddSignatureInv ==
    ASSUME Inv, NEW r \in Request, AddSignature(r)
    PROVE  Inv'
<1> DEFINE u == call[r].user
           d == With(Held(r), Assign(call[r], Held(r).row))
<1>0. pc[r] = "signing" /\ call[r] \in Calls /\ row # NoRow /\ u \in User
  BY CallType DEF AddSignature, Inv, Shape, Holding
<1>1. Held(r) \in Copy /\ d \in Copy
  BY <1>0, HeldType, AssignType DEF Holding, Copy, With
<1>2. /\ sigs' = sigs + 1
      /\ pc' = [pc EXCEPT ![r] = "saving"]
      /\ shared[r] => cache' = [cache EXCEPT ![u] = d] /\ copy' = copy
      /\ ~shared[r] => copy' = [copy EXCEPT ![r] = d] /\ cache' = cache
      /\ UNCHANGED <<row, hist, call, shared, base, entry, events>>
  BY DEF AddSignature
<1> HIDE DEF d
<1>3. TypeOK'
  <2>1. CASE shared[r] BY <2>1, <1>0, <1>1, <1>2 DEF Inv, TypeOK, PC
  <2>2. CASE ~shared[r] BY <2>2, <1>0, <1>1, <1>2 DEF Inv, TypeOK, PC
  <2> QED BY <2>1, <2>2
<1>4. \A v \in User : cache[v] \in Copy => cache'[v] \in Copy
  BY <1>0, <1>1, <1>2 DEF Inv, TypeOK
<1>5. Shape'
  <2> SUFFICES ASSUME NEW t \in Request
               PROVE  /\ pc'[t] \in Holding => call'[t] \in Calls /\ row' # NoRow
                      /\ shared'[t] => /\ pc'[t] \in {"signing", "saving"}
                                       /\ cache'[call'[t].user] \in Copy
                      /\ pc'[t] \in Holding /\ ~shared'[t] => copy'[t] \in Copy
                      /\ pc'[t] \in {"recording", "announcing"} => entry'[t] \in Entry
    BY DEF Shape
  <2>1. shared[t] => call[t].user \in User /\ cache[call[t].user] \in Copy
    BY SharerType
  <2>2. shared'[t] => cache'[call'[t].user] \in Copy
    BY <2>1, <1>2, <1>4
  <2>3. CASE t = r BY <2>2, <2>3, <1>0, <1>1, <1>2 DEF Inv, TypeOK, Shape
  <2>4. CASE t # r BY <2>2, <2>4, <1>0, <1>1, <1>2 DEF Inv, TypeOK, Shape
  <2> QED BY <2>3, <2>4
<1>6. CachedExists'
  BY <1>0, <1>2 DEF CachedExists
<1> QED BY <1>3, <1>5, <1>6 DEF Inv

LEMMA CompareInv ==
    ASSUME Inv, NEW r \in Request, Compare(r)
    PROVE  Inv'
<1>1. /\ pc[r] = "saving" /\ Held(r) \in Copy
      /\ base' = [base EXCEPT ![r] = row]
      /\ copy' = [copy EXCEPT ![r] = Held(r)]
      /\ shared' = [shared EXCEPT ![r] = FALSE]
      /\ pc' = [pc EXCEPT ![r] = "writing"]
      /\ UNCHANGED <<row, hist, sigs, cache, call, entry, events>>
  BY HeldType DEF Compare, Holding
<1>2. TypeOK' BY <1>1 DEF Inv, TypeOK, PC
<1>3. Shape' BY <1>1 DEF Inv, TypeOK, Shape, Holding
<1>4. CachedExists' BY <1>1 DEF Inv, CachedExists
<1> QED BY <1>2, <1>3, <1>4 DEF Inv

(* A request that has finished holds nothing. *)
LEMMA FinishInv ==
    ASSUME Inv, NEW r \in Request, Finish(r),
           row' \in Row \cup {NoRow}, row # NoRow => row' # NoRow,
           hist' \in Seq(Entry), sigs' = sigs,
           cache' = cache, events' \in Seq(Entry),
           base' = base \/ base' = [base EXCEPT ![r] = NoRow]
    PROVE  Inv'
<1>1. /\ pc' = [pc EXCEPT ![r] = "done"]
      /\ copy' = [copy EXCEPT ![r] = NoCopy]
      /\ shared' = [shared EXCEPT ![r] = FALSE]
      /\ entry' = [entry EXCEPT ![r] = NoEntry]
      /\ call' = [call EXCEPT ![r] = NoCall]
  BY DEF Finish
<1>2. base' \in [Request -> Row \cup {NoRow}]
  BY DEF Inv, TypeOK
<1>3. TypeOK' BY <1>1, <1>2 DEF Inv, TypeOK, PC
<1>4. Shape' BY <1>1 DEF Inv, TypeOK, Shape, Holding
<1>5. CachedExists' BY DEF Inv, CachedExists
<1> QED BY <1>3, <1>4, <1>5 DEF Inv

LEMMA CompareOrphansInv ==
    ASSUME Inv, NEW r \in Request, CompareOrphans(r)
    PROVE  Inv'
BY FinishInv DEF CompareOrphans, Inv, TypeOK

LEMMA WriteInv ==
    ASSUME Inv, NEW r \in Request, Write(r)
    PROVE  Inv'
<1>1. /\ pc[r] = "writing" /\ row \in Row /\ base[r] \in Row \cup {NoRow}
      /\ copy[r] \in Copy /\ ~shared[r] /\ copy[r].row \in Row
  BY DEF Write, Inv, TypeOK, Shape, Holding, Copy
<1>2. row' \in Row
  BY <1>1, MergeType DEF Write
<1>3. row' # NoRow
  BY <1>2 DEF Row, NoRow, Status
<1>4. UNCHANGED <<hist, sigs, cache, events>> /\ base' = [base EXCEPT ![r] = NoRow]
  BY DEF Write
<1>5. CASE entry[r] = NoEntry
  <2>1. Finish(r) BY <1>5 DEF Write
  <2> QED BY <2>1, <1>2, <1>3, <1>4, FinishInv DEF Inv, TypeOK
<1>6. CASE entry[r] # NoEntry
  <2>1. /\ pc' = [pc EXCEPT ![r] = "recording"]
        /\ copy' = [copy EXCEPT ![r] = NoCopy]
        /\ UNCHANGED <<shared, entry, call>>
    BY <1>6 DEF Write
  <2>2. entry[r] \in Entry BY <1>6 DEF Inv, TypeOK
  <2>3. TypeOK' BY <2>1, <1>2, <1>4 DEF Inv, TypeOK, PC
  <2>4. Shape' BY <2>1, <2>2, <1>1, <1>3, <1>4 DEF Inv, TypeOK, Shape, Holding
  <2>5. CachedExists' BY <1>3, <1>4 DEF Inv, CachedExists
  <2> QED BY <2>3, <2>4, <2>5 DEF Inv
<1> QED BY <1>5, <1>6

LEMMA RecordInv ==
    ASSUME Inv, NEW r \in Request, Record(r)
    PROVE  Inv'
<1>1. /\ pc[r] = "recording" /\ entry[r] \in Entry /\ ~shared[r]
      /\ hist' = Append(hist, entry[r])
      /\ UNCHANGED <<row, sigs, cache, base, events>>
  BY DEF Record, Inv, Shape
<1>2. hist' \in Seq(Entry) BY <1>1 DEF Inv, TypeOK
<1>3. CASE call[r].op \in Decisions
  <2>1. /\ pc' = [pc EXCEPT ![r] = "announcing"]
        /\ UNCHANGED <<copy, shared, entry, call>>
    BY <1>3 DEF Record
  <2>2. TypeOK' BY <2>1, <1>1, <1>2 DEF Inv, TypeOK, PC
  <2>3. Shape' BY <2>1, <1>1 DEF Inv, TypeOK, Shape, Holding
  <2>4. CachedExists' BY <1>1 DEF Inv, CachedExists
  <2> QED BY <2>2, <2>3, <2>4 DEF Inv
<1>4. CASE call[r].op \notin Decisions
  <2>1. Finish(r) BY <1>4 DEF Record
  <2> QED BY <2>1, <1>1, <1>2, FinishInv DEF Inv, TypeOK
<1> QED BY <1>3, <1>4

(* invalidateApprovalCache leaves the copies findOne cached in place.      *)
LEMMA InvalidatedSame ==
    ASSUME cache \in [User -> Copy \cup {NoCopy}]
    PROVE  Invalidated(cache) = cache
<1>1. "findOne" \notin InvalidatedKeys BY DEF InvalidatedKeys
<1> QED BY <1>1 DEF Invalidated

LEMMA AnnounceInv ==
    ASSUME Inv, NEW r \in Request, Announce(r)
    PROVE  Inv'
<1>1. entry[r] \in Entry BY DEF Announce, Inv, Shape
<1>2. events' \in Seq(Entry) BY <1>1 DEF Announce, Inv, TypeOK
<1>3. cache' = cache BY InvalidatedSame DEF Announce, Inv, TypeOK
<1> QED BY <1>2, <1>3, FinishInv DEF Announce, Inv, TypeOK

LEMMA FailInv ==
    ASSUME Inv, NEW r \in Request, Fail(r)
    PROVE  Inv'
BY FinishInv DEF Fail, Inv, TypeOK

LEMMA EvictInv ==
    ASSUME Inv, NEW u \in User, Evict(u)
    PROVE  Inv'
<1>1. /\ cache[u] \in Copy
      /\ copy' = [r \in Request |-> Kept(r, u)]
      /\ shared' = [r \in Request |-> shared[r] /\ r \notin Sharers(u)]
      /\ cache' = [cache EXCEPT ![u] = NoCopy]
      /\ UNCHANGED <<row, hist, sigs, pc, call, base, entry, events>>
  BY DEF Evict, Unshare, Inv, TypeOK
<1>2. ASSUME NEW t \in Request
      PROVE  /\ shared'[t] = (shared[t] /\ call[t].user # u)
             /\ copy'[t] = IF shared[t] /\ call[t].user = u THEN cache[u] ELSE copy[t]
  BY <1>1 DEF Sharers, Kept, Inv, TypeOK
<1>3. copy' \in [Request -> Copy \cup {NoCopy}]
  BY <1>1, <1>2 DEF Inv, TypeOK
<1>4. shared' \in [Request -> BOOLEAN]
  BY <1>1, <1>2 DEF Inv, TypeOK
<1>5. TypeOK'
  BY <1>1, <1>3, <1>4 DEF Inv, TypeOK
<1>6. Shape'
  <2> SUFFICES ASSUME NEW t \in Request
               PROVE  /\ pc'[t] \in Holding => call'[t] \in Calls /\ row' # NoRow
                      /\ shared'[t] => /\ pc'[t] \in {"signing", "saving"}
                                       /\ cache'[call'[t].user] \in Copy
                      /\ pc'[t] \in Holding /\ ~shared'[t] => copy'[t] \in Copy
                      /\ pc'[t] \in {"recording", "announcing"} => entry'[t] \in Entry
    BY DEF Shape
  <2>1. shared[t] => call[t].user \in User /\ cache[call[t].user] \in Copy
    BY SharerType
  <2>2. shared'[t] => cache'[call'[t].user] \in Copy
    BY <2>1, <1>1, <1>2 DEF Inv, TypeOK
  <2>3. pc'[t] \in Holding /\ ~shared'[t] => copy'[t] \in Copy
    BY <2>1, <1>1, <1>2 DEF Inv, Shape
  <2> QED BY <2>2, <2>3, <1>1, <1>2 DEF Inv, Shape
<1>7. CachedExists'
  BY <1>1 DEF Inv, TypeOK, CachedExists
<1> QED BY <1>5, <1>6, <1>7 DEF Inv

LEMMA RestartInv ==
    ASSUME Inv, Restart
    PROVE  Inv'
<1>1. TypeOK' BY DEF Restart, Inv, TypeOK, PC
<1>2. Shape' BY DEF Restart, Inv, Shape, Holding
<1>3. CachedExists' BY DEF Restart, CachedExists
<1> QED BY <1>1, <1>2, <1>3 DEF Inv

-----------------------------------------------------------------------------
LEMMA NextInv == Inv /\ [Next]_vars => Inv'
<1> SUFFICES ASSUME Inv, [Next]_vars PROVE Inv' OBVIOUS
<1>1. ASSUME NEW r \in Request, NEW q \in Calls,
             \/ Create(r, q) \/ HitRefuse(r, q) \/ HitProceed(r, q)
             \/ MissNotFound(r, q) \/ Miss(r, q)
      PROVE  Inv'
  BY <1>1, CreateInv, RefuseInv, HitProceedInv, MissInv
<1>2. ASSUME NEW r \in Request,
             \/ FillRefuse(r) \/ FillProceed(r) \/ AddSignature(r) \/ Compare(r)
             \/ CompareOrphans(r) \/ Write(r) \/ Record(r) \/ Announce(r) \/ Fail(r)
      PROVE  Inv'
  BY <1>2, FillRefuseInv, FillProceedInv, AddSignatureInv, CompareInv,
     CompareOrphansInv, WriteInv, RecordInv, AnnounceInv, FailInv
<1>3. CASE \E u \in User : Evict(u) BY <1>3, EvictInv
<1>4. CASE Restart BY <1>4, RestartInv
<1>5. CASE UNCHANGED vars
  BY <1>5 DEF vars, Inv, TypeOK, Shape, CachedExists
<1> QED BY <1>1, <1>2, <1>3, <1>4, <1>5 DEF Next

(* Type correctness: every value the service stores, caches, holds and     *)
(* announces is of its type, and what a request holds fits its place.      *)
THEOREM Typing == Spec => []TypeOK
<1>1. Inv => TypeOK BY DEF Inv
<1> QED BY InitInv, NextInv, <1>1, PTL DEF Spec

-----------------------------------------------------------------------------
(***************************************************************************)
(* A decided approval stays decided, and the service implements the life   *)
(* cycle of ApprovalLifecycle: proofs for any set of requests and users.   *)
(***************************************************************************)
(* History and signature rows are only ever added, so no object has more   *)
(* of them than the database.                                              *)
NotAhead(c) == c # NoCopy => c.hist \in 0..Len(hist) /\ c.sigs \in 0..sigs

Behind == /\ \A u \in User : NotAhead(cache[u])
          /\ \A r \in Request : NotAhead(copy[r])

(* Decided, object by object. *)
Agrees(c)  == c # NoCopy /\ Complete(c) => c.row.status = row.status

Settled(r) == pc[r] = "writing" =>
                 Changed(base[r].status, copy[r].row.status, row.status) = row.status

LEMMA DecidedParts ==
    Decided <=> /\ row.status \in Closing
                /\ \A u \in User : Agrees(cache[u])
                /\ \A r \in Request : Agrees(copy[r])
                /\ \A r \in Request : Settled(r)
BY DEF Decided, Objects, Agrees, Settled

(* No operation but a signature moves a row out of a closing status.       *)
LEMMA ClosedStays ==
    ASSUME NEW q \in Calls, NEW x \in Row,
           x.status \in Closing, Permits(q, x), q.op # "sign"
    PROVE  StatusAfter(q, x) = x.status
<1>1. q.op \in {"archive", "remove"}
  BY DEF Permits, Closing, OpenStatuses, Decisions
<1> QED BY <1>1 DEF StatusAfter

(* A row that exists has a status, and one that does not has none. *)
LEMMA RowStatus ==
    ASSUME Inv
    PROVE  /\ row = NoRow <=> row.status = "none"
           /\ row # NoRow => row.status \in Status
           /\ row.status \in Closing => row # NoRow
BY DEF Inv, TypeOK, Row, NoRow, Status, Closing

LEMMA LenHist == Inv => Len(hist) \in Nat /\ sigs \in Nat
BY DEF Inv, TypeOK

-----------------------------------------------------------------------------
(* How a step moves the objects: each object a request or a user has after *)
(* it was there before (perhaps elsewhere), is the row just read, or is an *)
(* object with the assignments of an operation its holder was permitted.   *)
Comes(d) ==
    \/ d = NoCopy
    \/ \E u \in User : cache[u] = d
    \/ \E r \in Request : copy[r] = d
    \/ d = [row |-> row, hist |-> Len(hist), sigs |-> sigs]
    \/ \E q \in Calls : \E c \in Copy :
          /\ (\E u \in User : cache[u] = c) \/ (\E r \in Request : copy[r] = c)
          /\ Permits(q, c.row)
          /\ q.op # "sign"
          /\ d = With(c, Assign(q, c.row))

AllCome == (\A u \in User : Comes(cache'[u])) /\ (\A r \in Request : Comes(copy'[r]))

LEMMA ComesBehind ==
    ASSUME Inv, Behind, NEW d, Comes(d)
    PROVE  NotAhead(d)
<1>1. CASE d = [row |-> row, hist |-> Len(hist), sigs |-> sigs]
  BY <1>1, LenHist DEF NotAhead
<1>2. ASSUME NEW q \in Calls, NEW c \in Copy,
             (\E u \in User : cache[u] = c) \/ (\E r \in Request : copy[r] = c),
             d = With(c, Assign(q, c.row))
      PROVE  NotAhead(d)
  <2>1. c # NoCopy BY NothingAssumption
  <2>2. NotAhead(c) BY <1>2 DEF Behind
  <2> QED BY <1>2, <2>1, <2>2 DEF NotAhead, With
<1> QED BY <1>1, <1>2 DEF Comes, Behind, NotAhead

LEMMA ComesAgrees ==
    ASSUME Inv, row.status \in Closing, NEW d, Comes(d),
           \A u \in User : Agrees(cache[u]), \A r \in Request : Agrees(copy[r])
    PROVE  Agrees(d)
<1>1. CASE d = [row |-> row, hist |-> Len(hist), sigs |-> sigs]
  BY <1>1 DEF Agrees
<1>2. ASSUME NEW q \in Calls, NEW c \in Copy,
             (\E u \in User : cache[u] = c) \/ (\E r \in Request : copy[r] = c),
             Permits(q, c.row), q.op # "sign",
             d = With(c, Assign(q, c.row))
      PROVE  Agrees(d)
  <2>1. c # NoCopy /\ Agrees(c) BY <1>2, NothingAssumption
  <2>2. Complete(d) <=> Complete(c) BY <1>2 DEF With, Complete
  <2>3. d.row.status = StatusAfter(q, c.row) BY <1>2 DEF With, Assign
  <2>4. c.row \in Row BY DEF Copy
  <2> QED BY <1>2, <2>1, <2>2, <2>3, <2>4, ClosedStays DEF Agrees
<1> QED BY <1>1, <1>2 DEF Comes, Agrees

-----------------------------------------------------------------------------
(* The objects of every step but AddSignature come from those before it.   *)
LEMMA HeldComes ==
    ASSUME Inv, NEW r \in Request, pc[r] \in Holding
    PROVE  /\ Comes(Held(r))
           /\ (\E u \in User : cache[u] = Held(r)) \/ (\E s \in Request : copy[s] = Held(r))
<1>1. CASE shared[r]
  <2>1. call[r].user \in User BY <1>1, SharerType
  <2> QED BY <1>1, <2>1 DEF Held, Comes
<1>2. CASE ~shared[r] BY <1>2 DEF Held, Comes
<1> QED BY <1>1, <1>2

LEMMA KeptComes ==
    ASSUME Inv, NEW u \in User, NEW t \in Request
    PROVE  Comes(Kept(t, u))
BY DEF Kept, Comes

LEMMA CreateComes ==
    ASSUME Inv, NEW r \in Request, NEW q \in Calls,
           Create(r, q) \/ HitRefuse(r, q) \/ MissNotFound(r, q)
    PROVE  AllCome
<1>1. UNCHANGED <<cache, copy>> BY DEF Create, HitRefuse, MissNotFound
<1> QED BY <1>1 DEF AllCome, Comes

LEMMA HitProceedComes ==
    ASSUME Inv, NEW r \in Request, NEW q \in Calls, HitProceed(r, q)
    PROVE  AllCome
<1> DEFINE c == cache[q.user]
           d == With(c, Assign(q, c.row))
<1>0. q.user \in User BY CallType
<1>1. c \in Copy /\ Permits(q, c.row) BY <1>0 DEF HitProceed, Inv, TypeOK
<1>2. copy' = copy /\ (cache' = cache \/ (q.op # "sign" /\ cache' = [cache EXCEPT ![q.user] = d]))
  BY <1>0 DEF HitProceed
<1>3. q.op # "sign" => Comes(d) BY <1>0, <1>1 DEF Comes
<1> HIDE DEF d
<1>4. ASSUME NEW v \in User PROVE Comes(cache'[v])
  <2>1. cache'[v] = cache[v] \/ (q.op # "sign" /\ cache'[v] = d)
    BY <1>2 DEF Inv, TypeOK
  <2>2. Comes(cache[v]) BY DEF Comes
  <2> QED BY <2>1, <2>2, <1>3
<1>5. \A t \in Request : Comes(copy'[t]) BY <1>2 DEF Comes
<1> QED BY <1>4, <1>5 DEF AllCome

LEMMA MissComes ==
    ASSUME Inv, NEW r \in Request, NEW q \in Calls, Miss(r, q)
    PROVE  AllCome
<1>1. /\ cache' = cache
      /\ copy' = [copy EXCEPT ![r] = [row |-> row, hist |-> Len(hist), sigs |-> sigs]]
  BY DEF Miss
<1>2. ASSUME NEW t \in Request PROVE Comes(copy'[t])
  BY <1>1 DEF Comes, Inv, TypeOK
<1>3. \A v \in User : Comes(cache'[v]) BY <1>1 DEF Comes
<1> QED BY <1>2, <1>3 DEF AllCome

LEMMA FillComes ==
    ASSUME Inv, NEW r \in Request, FillRefuse(r) \/ FillProceed(r)
    PROVE  AllCome
<1> DEFINE q == call[r]
           c == copy[r]
           d == IF q.op = "sign" THEN c ELSE With(c, Assign(q, c.row))
<1>1. pc[r] = "loaded" /\ q \in Calls /\ q.user \in User /\ c \in Copy
  <2>1. pc[r] = "loaded" /\ ~shared[r] BY DEF FillRefuse, FillProceed, Inv, Shape
  <2> QED BY <2>1, CallType DEF Inv, Shape, Holding
<1>2. /\ cache' = [cache EXCEPT ![q.user] = c]
      /\ \/ copy' = [t \in Request |-> IF t = r THEN NoCopy ELSE Kept(t, q.user)]
         \/ /\ Permits(q, c.row)
            /\ copy' = [t \in Request |-> IF t = r THEN d ELSE Kept(t, q.user)]
  BY DEF FillRefuse, FillProceed
<1>3. Comes(c) /\ Comes(NoCopy) BY DEF Comes
<1>4. Permits(q, c.row) => Comes(d) BY <1>1, <1>3 DEF Comes
<1> HIDE DEF d, q, c
<1>5. ASSUME NEW v \in User PROVE Comes(cache'[v])
  <2>1. cache'[v] = cache[v] \/ cache'[v] = c BY <1>2 DEF Inv, TypeOK
  <2>2. Comes(cache[v]) BY DEF Comes
  <2> QED BY <2>1, <2>2, <1>3
<1>6. ASSUME NEW t \in Request PROVE Comes(copy'[t])
  BY <1>1, <1>2, <1>3, <1>4, KeptComes
<1> QED BY <1>5, <1>6 DEF AllCome

LEMMA CompareComes ==
    ASSUME Inv, NEW r \in Request, Compare(r)
    PROVE  AllCome
<1>1. pc[r] \in Holding /\ cache' = cache /\ copy' = [copy EXCEPT ![r] = Held(r)]
  BY DEF Compare, Holding
<1>2. Comes(Held(r)) BY <1>1, HeldComes
<1>3. ASSUME NEW t \in Request PROVE Comes(copy'[t])
  <2>1. copy'[t] = Held(r) \/ copy'[t] = copy[t] BY <1>1 DEF Inv, TypeOK
  <2>2. Comes(copy[t]) BY DEF Comes
  <2> QED BY <2>1, <2>2, <1>2
<1>4. \A v \in User : Comes(cache'[v]) BY <1>1 DEF Comes
<1> QED BY <1>3, <1>4 DEF AllCome

(* The steps after a save's comparison only drop objects. *)
LEMMA DropComes ==
    ASSUME Inv, NEW r \in Request,
           CompareOrphans(r) \/ Write(r) \/ Record(r) \/ Announce(r) \/ Fail(r)
    PROVE  AllCome
<1>1. cache' = cache
  BY InvalidatedSame DEF CompareOrphans, Write, Record, Announce, Fail, Inv, TypeOK
<1>2. copy' = copy \/ copy' = [copy EXCEPT ![r] = NoCopy]
  BY DEF CompareOrphans, Write, Record, Announce, Fail, Finish
<1>3. \A t \in Request : copy'[t] = copy[t] \/ copy'[t] = NoCopy
  BY <1>2 DEF Inv, TypeOK
<1> QED BY <1>1, <1>3 DEF AllCome, Comes

LEMMA EvictComes ==
    ASSUME Inv, NEW u \in User, Evict(u)
    PROVE  AllCome
<1>1. /\ copy' = [t \in Request |-> Kept(t, u)]
      /\ cache' = [cache EXCEPT ![u] = NoCopy]
  BY DEF Evict
<1>2. ASSUME NEW v \in User PROVE Comes(cache'[v])
  BY <1>1 DEF Inv, TypeOK, Comes
<1>3. ASSUME NEW t \in Request PROVE Comes(copy'[t])
  BY <1>1, KeptComes
<1> QED BY <1>2, <1>3 DEF AllCome

LEMMA NextComes ==
    ASSUME Inv, [Next]_vars, \A r \in Request : ~AddSignature(r)
    PROVE  AllCome
<1>1. ASSUME NEW r \in Request, NEW q \in Calls,
             \/ Create(r, q) \/ HitRefuse(r, q) \/ HitProceed(r, q)
             \/ MissNotFound(r, q) \/ Miss(r, q)
      PROVE  AllCome
  BY <1>1, CreateComes, HitProceedComes, MissComes
<1>2. ASSUME NEW r \in Request,
             \/ FillRefuse(r) \/ FillProceed(r) \/ Compare(r)
             \/ CompareOrphans(r) \/ Write(r) \/ Record(r) \/ Announce(r) \/ Fail(r)
      PROVE  AllCome
  BY <1>2, FillComes, CompareComes, DropComes
<1>3. CASE \E u \in User : Evict(u) BY <1>3, EvictComes
<1>4. CASE Restart BY <1>4 DEF Restart, AllCome, Comes
<1>5. CASE UNCHANGED vars BY <1>5 DEF vars, AllCome, Comes
<1> QED BY <1>1, <1>2, <1>3, <1>4, <1>5 DEF Next

(* A signature is one more row than any object holds. *)
LEMMA AddSignatureObjects ==
    ASSUME Inv, Behind, NEW r \in Request, AddSignature(r)
    PROVE  /\ row' = row /\ hist' = hist /\ sigs' = sigs + 1
           /\ \A u \in User : NotAhead(cache'[u])
           /\ \A t \in Request : NotAhead(copy'[t])
<1> DEFINE u == call[r].user
           c == Held(r)
           d == With(c, Assign(call[r], c.row))
<1>0. pc[r] \in Holding BY DEF AddSignature, Holding
<1>1. c \in Copy BY <1>0, HeldType
<1>2. NotAhead(c) BY <1>0, HeldComes, ComesBehind
<1>3. c # NoCopy BY <1>1, NothingAssumption
<1>4. NotAhead(d) BY <1>2, <1>3 DEF NotAhead, With
<1>5. /\ cache' = cache \/ cache' = [cache EXCEPT ![u] = d]
      /\ copy' = copy \/ copy' = [copy EXCEPT ![r] = d]
      /\ row' = row /\ hist' = hist /\ sigs' = sigs + 1
  BY DEF AddSignature
<1> HIDE DEF d, c, u
<1>6. ASSUME NEW v \in User PROVE NotAhead(cache'[v])
  <2>1. cache'[v] = cache[v] \/ cache'[v] = d BY <1>5 DEF Inv, TypeOK
  <2> QED BY <2>1, <1>4 DEF Behind
<1>7. ASSUME NEW t \in Request PROVE NotAhead(copy'[t])
  <2>1. copy'[t] = copy[t] \/ copy'[t] = d BY <1>5 DEF Inv, TypeOK
  <2> QED BY <2>1, <1>4 DEF Behind
<1> QED BY <1>5, <1>6, <1>7

(* Which steps add rows, and which writes the approval's row. *)
LEMMA NextRows ==
    ASSUME Inv, [Next]_vars
    PROVE  /\ \/ hist' = hist
              \/ \E r \in Request : Record(r) /\ Len(hist') = Len(hist) + 1
                                    /\ row' = row /\ sigs' = sigs
           /\ sigs' = sigs \/ \E r \in Request : AddSignature(r)
           /\ \/ row' = row
              \/ row = NoRow
              \/ \E r \in Request : Write(r)
<1>1. ASSUME NEW r \in Request, NEW q \in Calls,
             \/ Create(r, q) \/ HitRefuse(r, q) \/ HitProceed(r, q)
             \/ MissNotFound(r, q) \/ Miss(r, q)
      PROVE  hist' = hist /\ sigs' = sigs /\ (row' = row \/ row = NoRow)
  BY <1>1 DEF Create, HitRefuse, HitProceed, MissNotFound, Miss
<1>2. ASSUME NEW r \in Request, FillRefuse(r) \/ FillProceed(r)
      PROVE  hist' = hist /\ sigs' = sigs /\ row' = row
  BY <1>2 DEF FillRefuse, FillProceed
<1>3. ASSUME NEW r \in Request, AddSignature(r)
      PROVE  hist' = hist /\ row' = row
  BY <1>3 DEF AddSignature
<1>4. ASSUME NEW r \in Request, Compare(r) \/ CompareOrphans(r) \/ Announce(r) \/ Fail(r)
      PROVE  hist' = hist /\ sigs' = sigs /\ row' = row
  BY <1>4 DEF Compare, CompareOrphans, Announce, Fail
<1>5. ASSUME NEW r \in Request, Write(r)
      PROVE  hist' = hist /\ sigs' = sigs
  BY <1>5 DEF Write
<1>6. ASSUME NEW r \in Request, Record(r)
      PROVE  Len(hist') = Len(hist) + 1 /\ sigs' = sigs /\ row' = row
  <2>1. hist' = Append(hist, entry[r]) /\ hist \in Seq(Entry)
    BY <1>6 DEF Record, Inv, TypeOK
  <2> QED BY <2>1, <1>6 DEF Record
<1>7. CASE (\E u \in User : Evict(u)) \/ Restart \/ UNCHANGED vars
  BY <1>7 DEF Evict, Restart, vars
<1> QED BY <1>1, <1>2, <1>3, <1>4, <1>5, <1>6, <1>7 DEF Next

LEMMA InitBehind == Init => Behind
BY DEF Init, Behind, NotAhead

LEMMA NextBehind ==
    ASSUME Inv, Behind, [Next]_vars
    PROVE  Behind'
<1>0. Len(hist) \in Nat /\ sigs \in Nat BY LenHist
<1>1. CASE \E r \in Request : AddSignature(r)
  <2>1. PICK r \in Request : AddSignature(r) BY <1>1
  <2> QED BY <2>1, <1>0, AddSignatureObjects DEF Behind, NotAhead
<1>2. CASE \A r \in Request : ~AddSignature(r)
  <2>1. AllCome BY <1>2, NextComes
  <2>2. sigs' = sigs /\ (hist' = hist \/ Len(hist') = Len(hist) + 1)
    BY <1>2, NextRows
  <2>3. Len(hist') = Len(hist) \/ Len(hist') = Len(hist) + 1 BY <2>2
  <2>4. \A u \in User : NotAhead(cache'[u]) BY <2>1, ComesBehind DEF AllCome
  <2>5. \A r \in Request : NotAhead(copy'[r]) BY <2>1, ComesBehind DEF AllCome
  <2>6. ASSUME NEW d, NotAhead(d)
        PROVE  d # NoCopy => d.hist \in 0..Len(hist') /\ d.sigs \in 0..sigs'
    <3> USE DEF NotAhead
    <3>1. CASE d = NoCopy BY <3>1
    <3>2. CASE d # NoCopy
      BY <2>2, <2>3, <2>6, <3>2, <1>0
    <3> QED BY <3>1, <3>2
  <2> QED BY <2>4, <2>5, <2>6 DEF Behind, NotAhead
<1> QED BY <1>1, <1>2

-----------------------------------------------------------------------------
(* A save past its comparison was there before the step, unless this step  *)
(* is its comparison.                                                      *)
LEMMA WritingBefore ==
    ASSUME Inv, [Next]_vars, NEW t \in Request, pc'[t] = "writing"
    PROVE  \/ pc[t] = "writing" /\ base'[t] = base[t] /\ copy'[t] = copy[t]
           \/ Compare(t)
<1>0. pc[t] = "writing" => ~shared[t] BY DEF Inv, Shape
<1>1. ASSUME NEW r \in Request, NEW q \in Calls,
             \/ Create(r, q) \/ HitRefuse(r, q) \/ HitProceed(r, q)
             \/ MissNotFound(r, q) \/ Miss(r, q)
      PROVE  pc[t] = "writing" /\ base'[t] = base[t] /\ copy'[t] = copy[t]
  BY <1>1 DEF Create, HitRefuse, HitProceed, MissNotFound, Miss, Inv, TypeOK
<1>2. ASSUME NEW r \in Request, FillRefuse(r) \/ FillProceed(r)
      PROVE  pc[t] = "writing" /\ base'[t] = base[t] /\ copy'[t] = copy[t]
  <2>1. pc[t] = "writing" /\ t # r /\ base' = base
    BY <1>2 DEF FillRefuse, FillProceed, Inv, TypeOK
  <2>2. copy'[t] = Kept(t, call[r].user)
    BY <1>2, <2>1 DEF FillRefuse, FillProceed
  <2> QED BY <2>1, <2>2, <1>0 DEF Kept, Sharers
<1>3. ASSUME NEW r \in Request, AddSignature(r)
      PROVE  pc[t] = "writing" /\ base'[t] = base[t] /\ copy'[t] = copy[t]
  <2>1. pc[t] = "writing" /\ t # r /\ base' = base
    BY <1>3 DEF AddSignature, Inv, TypeOK
  <2>2. copy'[t] = copy[t]
    BY <1>3, <2>1 DEF AddSignature, Inv, TypeOK
  <2> QED BY <2>1, <2>2
<1>4. ASSUME NEW r \in Request, Compare(r)
      PROVE  \/ pc[t] = "writing" /\ base'[t] = base[t] /\ copy'[t] = copy[t]
             \/ Compare(t)
  BY <1>4 DEF Compare, Inv, TypeOK
<1>5. ASSUME NEW r \in Request,
             CompareOrphans(r) \/ Write(r) \/ Record(r) \/ Announce(r) \/ Fail(r)
      PROVE  pc[t] = "writing" /\ base'[t] = base[t] /\ copy'[t] = copy[t]
  <2>1. /\ base' = base \/ base' = [base EXCEPT ![r] = NoRow]
        /\ copy' = copy \/ copy' = [copy EXCEPT ![r] = NoCopy]
        /\ \/ pc' = [pc EXCEPT ![r] = "done"]
           \/ pc' = [pc EXCEPT ![r] = "recording"]
           \/ pc' = [pc EXCEPT ![r] = "announcing"]
    BY <1>5 DEF CompareOrphans, Write, Record, Announce, Fail, Finish
  <2>2. t # r BY <2>1 DEF Inv, TypeOK
  <2> QED BY <2>1, <2>2 DEF Inv, TypeOK
<1>6. ASSUME NEW u \in User, Evict(u)
      PROVE  pc[t] = "writing" /\ base'[t] = base[t] /\ copy'[t] = copy[t]
  BY <1>6, <1>0 DEF Evict, Kept, Sharers, Inv, TypeOK
<1>7. CASE Restart BY <1>7 DEF Restart, Inv, TypeOK
<1>8. CASE UNCHANGED vars BY <1>8 DEF vars
<1> QED BY <1>1, <1>2, <1>3, <1>4, <1>5, <1>6, <1>7, <1>8 DEF Next

(* When the rows the objects joined grow, no object is complete any more.  *)
LEMMA GrownIncomplete ==
    ASSUME Inv, Behind, [Next]_vars,
           \/ Len(hist') = Len(hist) + 1 /\ sigs' = sigs
           \/ sigs' = sigs + 1 /\ hist' = hist
    PROVE  /\ \A u \in User : cache'[u] # NoCopy => ~Complete(cache[u])'
           /\ \A r \in Request : copy'[r] # NoCopy => ~Complete(copy[r])'
<1>0. Len(hist) \in Nat /\ sigs \in Nat BY LenHist
<1>1. /\ \A u \in User : NotAhead(cache'[u])
      /\ \A r \in Request : NotAhead(copy'[r])
  <2>1. CASE \E r \in Request : AddSignature(r) BY <2>1, AddSignatureObjects
  <2>2. CASE \A r \in Request : ~AddSignature(r)
    BY <2>2, NextComes, ComesBehind DEF AllCome
  <2> QED BY <2>1, <2>2
<1>2. ASSUME NEW d, NotAhead(d), d # NoCopy
      PROVE  ~(d.hist = Len(hist') /\ d.sigs = sigs')
  BY <1>0, <1>2 DEF NotAhead
<1> QED BY <1>1, <1>2 DEF Complete

(* Decided is kept by every step, and so is the status. *)
LEMMA DecidedStep ==
    ASSUME Inv, Behind, [Next]_vars, Decided
    PROVE  Decided' /\ row'.status = row.status
<1> USE DecidedParts
<1>1. /\ row.status \in Closing
      /\ \A u \in User : Agrees(cache[u])
      /\ \A r \in Request : Agrees(copy[r])
      /\ \A r \in Request : Settled(r)
  OBVIOUS
<1>2. row'.status = row.status
  <2>1. row # NoRow BY <1>1, RowStatus
  <2>2. ASSUME NEW r \in Request, Write(r) PROVE row'.status = row.status
    BY <1>1, <2>2 DEF Write, Merge, Settled
  <2> QED BY <2>1, <2>2, NextRows
<1>3. /\ \A u \in User : cache'[u] # NoCopy /\ Complete(cache[u])'
                            => cache'[u].row.status = row'.status
      /\ \A r \in Request : copy'[r] # NoCopy /\ Complete(copy[r])'
                            => copy'[r].row.status = row'.status
  <2>1. CASE hist' = hist /\ sigs' = sigs
    <3>1. \A r \in Request : ~AddSignature(r)
      BY <2>1, AddSignatureObjects, LenHist
    <3>2. AllCome BY <3>1, NextComes
    <3>3. /\ \A u \in User : Agrees(cache'[u])
          /\ \A r \in Request : Agrees(copy'[r])
      BY <1>1, <3>2, ComesAgrees DEF AllCome
    <3> QED BY <2>1, <3>3, <1>2 DEF Agrees, Complete
  <2>2. CASE \E r \in Request : AddSignature(r)
    BY <2>2, AddSignatureObjects, GrownIncomplete
  <2>3. CASE \E r \in Request : Len(hist') = Len(hist) + 1 /\ sigs' = sigs
    BY <2>3, GrownIncomplete
  <2> QED BY <2>1, <2>2, <2>3, NextRows
<1>4. ASSUME NEW t \in Request, pc'[t] = "writing"
      PROVE  Changed(base'[t].status, copy'[t].row.status, row'.status) = row'.status
  <2>1. CASE pc[t] = "writing" /\ base'[t] = base[t] /\ copy'[t] = copy[t]
    BY <2>1, <1>1, <1>2 DEF Settled
  <2>2. CASE Compare(t)
    <3>1. /\ base'[t] = row /\ copy'[t] = Held(t) /\ row' = row
          /\ Complete(Held(t)) /\ pc[t] \in Holding
      BY <2>2 DEF Compare, Inv, TypeOK, Holding
    <3>2. Held(t) # NoCopy /\ Agrees(Held(t))
      BY <3>1, <1>1, HeldComes, HeldType, NothingAssumption
    <3> QED BY <3>1, <3>2 DEF Agrees, Changed
  <2> QED BY <2>1, <2>2, <1>4, WritingBefore
<1>5. Decided'
  BY <1>1, <1>2, <1>3, <1>4 DEF Decided, Objects
<1> QED BY <1>2, <1>5

-----------------------------------------------------------------------------
LEMMA InvBehind == Spec => [](Inv /\ Behind)
<1>1. Inv /\ Behind /\ [Next]_vars => (Inv /\ Behind)'
  BY NextInv, NextBehind
<1> QED BY InitInv, InitBehind, <1>1, PTL DEF Spec

(* DecisionIsFinal: whatever requests, caches, failures and restarts do, a *)
(* decided approval stays decided with the same status.                    *)
THEOREM Finality == Spec => DecisionIsFinal
<1>1. Inv /\ Behind /\ [Next]_vars
        => [Decided => Decided' /\ row'.status = row.status]_vars
  BY DecidedStep
<1> QED BY InvBehind, <1>1, PTL DEF Spec, DecisionIsFinal

(* RecordDecides: inserting a history entry makes every copy taken before  *)
(* it incomplete, and so decides a closing status no save is about to      *)
(* change.                                                                 *)
THEOREM RecordingDecides == Spec => RecordDecides
<1>1. ASSUME Inv, Behind, [Next]_vars, hist' # hist, row.status \in Closing,
             \A r \in Request : Settled(r)
      PROVE  Decided'
  <2>1. PICK r \in Request : Record(r) /\ Len(hist') = Len(hist) + 1
                             /\ row' = row /\ sigs' = sigs
    BY <1>1, NextRows
  <2>2. /\ \A u \in User : cache'[u] # NoCopy => ~Complete(cache[u])'
        /\ \A t \in Request : copy'[t] # NoCopy => ~Complete(copy[t])'
    BY <1>1, <2>1, GrownIncomplete
  <2>3. ASSUME NEW t \in Request, pc'[t] = "writing"
        PROVE  Changed(base'[t].status, copy'[t].row.status, row'.status) = row'.status
    <3>1. ~Compare(t)
      BY <2>1, LenHist DEF Compare
    <3> QED BY <3>1, <2>1, <2>3, <1>1, WritingBefore DEF Settled
  <2> QED BY <1>1, <2>1, <2>2, <2>3 DEF Decided, Objects
<1>2. Inv /\ Behind /\ [Next]_vars
        => [ (/\ hist' # hist
              /\ row.status \in Closing
              /\ \A r \in Request : pc[r] = "writing" =>
                    Changed(base[r].status, copy[r].row.status, row.status) = row.status)
             => Decided' ]_vars
  BY <1>1 DEF Settled
<1> QED BY InvBehind, <1>2, PTL DEF Spec, RecordDecides

-----------------------------------------------------------------------------
(* The refinement of ApprovalLifecycle. *)
LEMMA InitLifecycle == Init => Lifecycle!Init
BY DEF Init, NoRow, Decided, Closing, Lifecycle!Init

(* Nothing but create() brings the row into being. *)
LEMMA NoRowStays ==
    ASSUME Inv, [Next]_vars, row = NoRow,
           \A r \in Request : \A q \in Calls : ~Create(r, q)
    PROVE  row' = NoRow
<1>1. ASSUME NEW r \in Request PROVE ~Write(r)
  BY <1>1 DEF Write, Inv, Shape, Holding
<1>2. ASSUME NEW r \in Request, NEW q \in Calls,
             HitRefuse(r, q) \/ HitProceed(r, q) \/ MissNotFound(r, q) \/ Miss(r, q)
      PROVE  row' = row
  BY <1>2 DEF HitRefuse, HitProceed, MissNotFound, Miss
<1>3. ASSUME NEW r \in Request,
             \/ FillRefuse(r) \/ FillProceed(r) \/ AddSignature(r) \/ Compare(r)
             \/ CompareOrphans(r) \/ Record(r) \/ Announce(r) \/ Fail(r)
      PROVE  row' = row
  BY <1>3 DEF FillRefuse, FillProceed, AddSignature, Compare, CompareOrphans,
              Record, Announce, Fail
<1>4. CASE (\E u \in User : Evict(u)) \/ Restart \/ UNCHANGED vars
  BY <1>4 DEF Evict, Restart, vars
<1> QED BY <1>1, <1>2, <1>3, <1>4 DEF Next

LEMMA NextLifecycle ==
    ASSUME Inv, Inv', Behind, [Next]_vars
    PROVE  [Lifecycle!Next]_<<row.status, Decided>>
<1>0. Decided \in BOOLEAN /\ Decided' \in BOOLEAN BY DEF Decided
<1>1. Decided' => row'.status \in Closing
  BY DEF Decided
<1>2. ASSUME NEW r \in Request, NEW q \in Calls, Create(r, q)
      PROVE  Lifecycle!Open
  <2>1. row.status = "none" /\ row'.status \in {"draft", "pending"}
    BY <1>2 DEF Create, NoRow
  <2>2. Decided' = FALSE BY <2>1 DEF Decided, Closing
  <2> QED BY <2>1, <2>2 DEF Lifecycle!Open
<1>3. CASE row = NoRow /\ \A r \in Request : \A q \in Calls : ~Create(r, q)
  <2>1. row' = NoRow BY <1>3, NoRowStays
  <2>2. row.status = "none" /\ row'.status = "none" BY <1>3, <2>1 DEF NoRow
  <2>3. Decided = FALSE /\ Decided' = FALSE BY <2>2 DEF Decided, Closing
  <2> QED BY <2>2, <2>3
<1>4. CASE row # NoRow
  <2>1. row.status # "none" BY <1>4, RowStatus
  <2>2. row'.status \in Status
    <3>1. row \in Row BY <1>4 DEF Inv, TypeOK
    <3>2. ASSUME NEW r \in Request, Write(r) PROVE row' \in Row
      <4>1. base[r] \in Row \cup {NoRow} /\ copy[r].row \in Row
        BY <3>2 DEF Write, Inv, TypeOK, Shape, Holding, Copy
      <4> QED BY <4>1, <3>1, <3>2, MergeType DEF Write
    <3>3. row' \in Row BY <1>4, <3>1, <3>2, NextRows
    <3> QED BY <3>3 DEF Row
  <2>3. CASE Decided
    <3>1. Decided' /\ row'.status = row.status BY <2>3, DecidedStep
    <3>2. Decided = TRUE /\ Decided' = TRUE BY <2>3, <3>1, <1>0
    <3> QED BY <3>1, <3>2
  <2>4. CASE ~Decided
    BY <2>1, <2>2, <2>4, <1>0, <1>1 DEF Lifecycle!Move, Lifecycle!Next
  <2> QED BY <2>3, <2>4
<1> QED BY <1>2, <1>3, <1>4 DEF Lifecycle!Next

(* The service implements the abstract life cycle: opened once, moved only *)
(* while it is not decided, never afterwards.                              *)
THEOREM Refinement == Spec => LifecycleSpec
<1>1. Inv /\ Inv' /\ Behind /\ [Next]_vars => [Lifecycle!Next]_<<row.status, Decided>>
  BY NextLifecycle
<1> QED BY InitLifecycle, InvBehind, <1>1, PTL DEF Spec, LifecycleSpec, Lifecycle!Spec

-----------------------------------------------------------------------------
(* An entry about to be announced is in the history, and the history only  *)
(* grows, so what the listeners are told of is recorded.                   *)
InHistory(e) == \E j \in DOMAIN hist : hist[j] = e

Recorded == /\ \A r \in Request : pc[r] = "announcing" => InHistory(entry[r])
            /\ AnnouncedIsRecorded

LEMMA InitRecorded == Init => Recorded
BY DEF Init, Recorded, AnnouncedIsRecorded

LEMMA NextRecorded ==
    ASSUME Inv, Recorded, [Next]_vars
    PROVE  Recorded'
<1>0. hist \in Seq(Entry) /\ events \in Seq(Entry) BY DEF Inv, TypeOK
<1>1. hist' = hist \/ \E r \in Request : hist' = Append(hist, entry[r])
  <2>1. ASSUME NEW r \in Request, Record(r) PROVE hist' = Append(hist, entry[r])
    BY <2>1 DEF Record
  <2> QED BY <2>1, NextRows
<1>2. ASSUME NEW e, InHistory(e) PROVE InHistory(e)'
  <2>1. CASE hist' = hist BY <2>1, <1>2 DEF InHistory
  <2>2. ASSUME NEW r \in Request, hist' = Append(hist, entry[r]) PROVE InHistory(e)'
    <3>1. PICK j \in DOMAIN hist : hist[j] = e BY <1>2 DEF InHistory
    <3>2. j \in DOMAIN hist' /\ hist'[j] = e BY <3>1, <2>2, <1>0
    <3> QED BY <3>2 DEF InHistory
  <2> QED BY <2>1, <2>2, <1>1
<1>3. ASSUME NEW t \in Request, pc'[t] = "announcing" PROVE InHistory(entry[t])'
  <2>1. \/ pc[t] = "announcing" /\ entry'[t] = entry[t]
        \/ Record(t) /\ entry'[t] = entry[t]
    BY <1>3 DEF Next, vars, Create, HitRefuse, HitProceed, MissNotFound, Miss,
                FillRefuse, FillProceed, AddSignature, Compare, CompareOrphans,
                Write, Record, Announce, Fail, Evict, Restart, Finish, Inv, TypeOK
  <2>2. CASE pc[t] = "announcing" /\ entry'[t] = entry[t]
    BY <2>2, <1>2 DEF Recorded, InHistory
  <2>3. CASE Record(t) /\ entry'[t] = entry[t]
    <3>1. hist' = Append(hist, entry[t]) BY <2>3 DEF Record
    <3>2. Len(hist') \in DOMAIN hist' /\ hist'[Len(hist')] = entry[t]
      <4>1. entry[t] \in Entry BY <2>3 DEF Record, Inv, Shape
      <4> QED BY <3>1, <4>1, <1>0
    <3> QED BY <3>2, <2>3 DEF InHistory
  <2> QED BY <2>1, <2>2, <2>3
<1>4. AnnouncedIsRecorded'
  <2> SUFFICES ASSUME NEW i \in DOMAIN events' PROVE InHistory(events[i])'
    BY DEF AnnouncedIsRecorded, InHistory
  <2>1. CASE events' = events
    BY <2>1, <1>2 DEF Recorded, AnnouncedIsRecorded, InHistory
  <2>2. ASSUME NEW r \in Request, Announce(r) PROVE InHistory(events[i])'
    <3>1. events' = Append(events, entry[r]) /\ hist' = hist /\ InHistory(entry[r])
      BY <2>2 DEF Announce, Recorded
    <3>2. entry[r] \in Entry BY <2>2 DEF Announce, Inv, Shape
    <3>3. CASE i \in DOMAIN events
      <4>1. events'[i] = events[i] BY <3>1, <3>2, <3>3, <1>0
      <4> QED BY <4>1, <3>1, <3>3 DEF Recorded, AnnouncedIsRecorded, InHistory
    <3>4. CASE i \notin DOMAIN events
      <4>1. events'[i] = entry[r] BY <3>1, <3>2, <3>4, <1>0
      <4> QED BY <4>1, <3>1 DEF InHistory
    <3> QED BY <3>3, <3>4
  <2>3. events' = events \/ \E r \in Request : Announce(r)
    BY DEF Next, vars, Create, HitRefuse, HitProceed, MissNotFound, Miss,
           FillRefuse, FillProceed, AddSignature, Compare, CompareOrphans,
           Write, Record, Fail, Evict, Restart
  <2> QED BY <2>1, <2>2, <2>3
<1> QED BY <1>3, <1>4 DEF Recorded, InHistory

(* AnnouncedIsRecorded: the listeners of approval.action.performed are     *)
(* told only of actions whose history entry is in the database.            *)
THEOREM Announcing == Spec => []AnnouncedIsRecorded
<1>1. Inv /\ Recorded /\ [Next]_vars => Recorded'
  BY NextRecorded
<1>2. Recorded => AnnouncedIsRecorded BY DEF Recorded
<1> QED BY InitRecorded, InvBehind, <1>1, <1>2, PTL DEF Spec

-----------------------------------------------------------------------------
(***************************************************************************)
(* The audit trail.  A status is sure when an entry of the history has it  *)
(* as its outcome, or a request whose save is past its comparison is to    *)
(* insert one that has: no failure hinders it.  The row's status is sure,  *)
(* and so is that of the copies of administrators, who only archive and    *)
(* remove.  A decision that is about to be saved shows its own outcome, as *)
(* long as its object lacks no row: another decision of the same user, who *)
(* shares the object, was not permitted.                                   *)
(***************************************************************************)
Recording == {q \in Request : pc[q] \in {"writing", "recording"} /\ entry[q] # NoEntry}

Sure == {hist[j].to : j \in DOMAIN hist} \cup {entry[q].to : q \in Recording}

(* What a decision, a withdrawal or a signature leaves: none of them is a  *)
(* status from which another is permitted.                                 *)
Outcomes == {"approved", "rejected", "withdrawn", "escalated",
             "additional_info_required", "signed"}

HeldNext(r) == IF shared'[r] THEN cache'[call'[r].user] ELSE copy'[r]

AuditOf(r) ==
    /\ pc[r] \in {"loaded", "writing"} => copy[r].row.status \in Sure
    /\ pc[r] = "signing" => call[r].op = "sign" /\ entry[r] # NoEntry /\ entry[r].to \in Outcomes
    /\ (pc[r] = "saving" /\ entry[r] = NoEntry) =>
         /\ Level[call[r].user] = "admin"
         /\ Held(r).row.status \in Sure
    /\ (pc[r] = "saving" /\ entry[r] # NoEntry) =>
         /\ Level[call[r].user] # "admin"
         /\ entry[r].to \in Outcomes
         /\ Complete(Held(r)) => entry[r].to = Held(r).row.status

RowAudited == row # NoRow => row.status \in Sure

AdminCopies == \A u \in User :
                 (Level[u] = "admin" /\ cache[u] # NoCopy) => cache[u].row.status \in Sure

Audited == RowAudited /\ AdminCopies /\ \A r \in Request : AuditOf(r)

(* The operations that leave a status which another operation of the same  *)
(* user may change before the first is saved.                              *)
LeavesOpen == {"update", "submit", "delegate"}

(* What an operation that is permitted assigns, and records. *)
LEMMA PermittedRecords ==
    ASSUME Ops \cap LeavesOpen = {}, NEW q \in Calls, NEW x \in Row, Permits(q, x)
    PROVE  /\ StatusAfter(q, x) = Assign(q, x).status
           /\ Level[q.user] = "admin"
                => /\ q.op # "sign" /\ StatusAfter(q, x) = x.status
                   /\ EntryFor(q, x) = NoEntry
           /\ Level[q.user] # "admin"
                => /\ EntryFor(q, x) # NoEntry
                   /\ EntryFor(q, x).to = StatusAfter(q, x)
                   /\ StatusAfter(q, x) \in Outcomes
                   /\ q.op # "sign" => x.status \notin Outcomes
<1>1. /\ q.op \in Ops /\ q.user \in User /\ EndpointAllows(Level[q.user], q.op)
      /\ q.op \notin LeavesOpen
  BY DEF Calls, Call
<1>2. q.op \in {"approve", "reject", "request_info", "escalate", "withdraw", "sign",
                "archive", "remove"}
  BY <1>1 DEF Permits, Decisions, LeavesOpen
<1>3. Level[q.user] = "admin" <=> q.op \in {"archive", "remove"}
  BY <1>1, <1>2 DEF EndpointAllows
<1>4. StatusAfter(q, x) = Assign(q, x).status BY DEF Assign
<1>5. CASE q.op \in {"archive", "remove"}
  BY <1>3, <1>4, <1>5 DEF StatusAfter, EntryFor
<1>6. CASE q.op \notin {"archive", "remove"}
  <2>1. EntryFor(q, x) \in Entry /\ EntryFor(q, x).to = StatusAfter(q, x)
    <3>1. /\ x.status \in Status /\ StatusAfter(q, x) \in Status /\ q.op \in AllOps
          /\ "withdrawn" \in Status
      BY AssignType, CallType DEF Row, Status
    <3>2. EntryFor(q, x) = [action |-> q.op,
                            from |-> IF q.op = "withdraw" THEN "withdrawn" ELSE x.status,
                            to |-> StatusAfter(q, x), by |-> q.user]
      BY <1>2, <1>6 DEF EntryFor
    <3> QED BY <1>1, <3>1, <3>2 DEF Entry
  <2>2. StatusAfter(q, x) \in Outcomes BY <1>2, <1>6 DEF StatusAfter, Outcomes
  <2>3. q.op # "sign" => x.status \notin Outcomes
    BY <1>2, <1>6 DEF Permits, OpenStatuses, Decisions, Outcomes
  <2> QED BY <1>3, <1>4, <1>6, <2>1, <2>2, <2>3, NothingAssumption
<1> QED BY <1>5, <1>6

(* Without failures, what is sure stays sure. *)
LEMMA SureStays ==
    ASSUME Inv, [Next]_vars, ~Failures
    PROVE  Sure \subseteq Sure'
<1>0. hist \in Seq(Entry) BY DEF Inv, TypeOK
<1>1. ASSUME NEW j \in DOMAIN hist PROVE hist[j].to \in Sure'
  <2>1. hist' = hist \/ \E r \in Request : hist' = Append(hist, entry[r])
    <3>1. ASSUME NEW r \in Request, Record(r) PROVE hist' = Append(hist, entry[r])
      BY <3>1 DEF Record
    <3> QED BY <3>1, NextRows
  <2>2. j \in DOMAIN hist' /\ hist'[j] = hist[j] BY <2>1, <1>0
  <2> QED BY <2>2 DEF Sure
<1>2. ASSUME NEW q \in Recording PROVE entry[q].to \in Sure'
  <2>1. q \in Request /\ pc[q] \in {"writing", "recording"} /\ entry[q] # NoEntry
    BY <1>2 DEF Recording
  <2>2. \/ pc'[q] \in {"writing", "recording"} /\ entry'[q] = entry[q]
        \/ Record(q)
    <3> DEFINE Remains == pc'[q] \in {"writing", "recording"} /\ entry'[q] = entry[q]
    <3>1. ASSUME NEW r \in Request, NEW c \in Calls,
                 \/ Create(r, c) \/ HitRefuse(r, c) \/ HitProceed(r, c)
                 \/ MissNotFound(r, c) \/ Miss(r, c)
          PROVE  Remains
      BY <2>1, <3>1 DEF Create, HitRefuse, HitProceed, MissNotFound, Miss, Inv, TypeOK
    <3>2. ASSUME NEW r \in Request, FillRefuse(r) \/ FillProceed(r) \/ AddSignature(r)
          PROVE  Remains
      BY <2>1, <3>2 DEF FillRefuse, FillProceed, AddSignature, Inv, TypeOK
    <3>3. ASSUME NEW r \in Request, Compare(r) \/ CompareOrphans(r) \/ Announce(r)
          PROVE  Remains
      BY <2>1, <3>3 DEF Compare, CompareOrphans, Announce, Finish, Inv, TypeOK
    <3>4. ASSUME NEW r \in Request, Write(r)
          PROVE  Remains
      BY <2>1, <3>4 DEF Write, Finish, Inv, TypeOK
    <3>5. ASSUME NEW r \in Request, Record(r), r # q
          PROVE  Remains
      BY <2>1, <3>5 DEF Record, Finish, Inv, TypeOK
    <3>6. ASSUME (\E u \in User : Evict(u)) \/ UNCHANGED vars PROVE Remains
      BY <2>1, <3>6 DEF Evict, vars
    <3>7. ~Restart /\ \A r \in Request : ~Fail(r)
      BY DEF Restart, Fail
    <3> HIDE DEF Remains
    <3>8. ASSUME ~Record(q), \E r \in Request :
                    \/ FillRefuse(r) \/ FillProceed(r) \/ AddSignature(r)
                    \/ Compare(r) \/ CompareOrphans(r) \/ Write(r) \/ Record(r)
                    \/ Announce(r)
          PROVE  Remains
      BY <3>2, <3>3, <3>4, <3>5, <3>8
    <3>9. Remains \/ Record(q)
      <4>1. CASE Next
        <5>1. \/ \E r \in Request : \E c \in Calls :
                   \/ Create(r, c) \/ HitRefuse(r, c) \/ HitProceed(r, c)
                   \/ MissNotFound(r, c) \/ Miss(r, c)
              \/ \E r \in Request :
                   \/ FillRefuse(r) \/ FillProceed(r) \/ AddSignature(r)
                   \/ Compare(r) \/ CompareOrphans(r) \/ Write(r) \/ Record(r)
                   \/ Announce(r)
              \/ \E u \in User : Evict(u)
          BY <3>7, <4>1 DEF Next
        <5> QED BY <5>1, <3>1, <3>6, <3>8
      <4> QED BY <4>1, <3>6
    <3> QED BY <3>9 DEF Remains
  <2>3. CASE Record(q)
    <3>1. hist' = Append(hist, entry[q]) /\ entry[q] \in Entry
      BY <2>1, <2>3 DEF Record, Inv, Shape
    <3>2. Len(hist') \in DOMAIN hist' /\ hist'[Len(hist')] = entry[q]
      BY <3>1, <1>0
    <3> QED BY <3>2 DEF Sure
  <2>4. CASE pc'[q] \in {"writing", "recording"} /\ entry'[q] = entry[q]
    BY <2>1, <2>4 DEF Sure, Recording
  <2> QED BY <2>2, <2>3, <2>4
<1> QED BY <1>1, <1>2 DEF Sure

(* An object that lacks no row after a step lacked none before it. *)
LEMMA CompleteBefore ==
    ASSUME Inv, Behind, [Next]_vars, NEW c \in Copy, NotAhead(c),
           c.hist = Len(hist') /\ c.sigs = sigs'
    PROVE  Complete(c)
<1>0. Len(hist) \in Nat /\ sigs \in Nat /\ c # NoCopy BY LenHist, NothingAssumption
<1>1. c.hist \in 0..Len(hist) /\ c.sigs \in 0..sigs BY <1>0 DEF NotAhead
<1>2. Len(hist') = Len(hist) \/ Len(hist') = Len(hist) + 1 BY NextRows
<1>3. sigs' = sigs \/ sigs' = sigs + 1 BY NextRows DEF AddSignature
<1> QED BY <1>0, <1>1, <1>2, <1>3 DEF Complete

-----------------------------------------------------------------------------
(* A request that the step of another leaves where it is, with its object. *)
Steady(t) ==
    /\ pc'[t] = pc[t] /\ call'[t] = call[t] /\ entry'[t] = entry[t]
    /\ pc[t] \in Holding => HeldNext(t) = Held(t)

LEMMA OwnObject ==
    ASSUME Inv, NEW t \in Request, pc[t] \in {"loaded", "writing"}
    PROVE  ~shared[t] /\ Held(t) = copy[t] /\ copy[t] \in Copy
BY DEF Inv, Shape, Holding, Held

LEMMA AuditStays ==
    ASSUME Inv, Inv', Behind, [Next]_vars, ~Failures, NEW t \in Request, AuditOf(t), Steady(t)
    PROVE  AuditOf(t)'
<1>1. CASE pc[t] \in {"loaded", "writing"}
  <2>1. Held(t) = copy[t] BY <1>1, OwnObject
  <2>2. ~shared'[t] BY <1>1 DEF Steady, Inv, Shape
  <2>3. copy'[t] = copy[t] BY <1>1, <2>1, <2>2 DEF Steady, HeldNext, Holding
  <2> QED BY <1>1, <2>3, SureStays DEF AuditOf, Steady
<1>2. CASE pc[t] = "signing" BY <1>2 DEF AuditOf, Steady
<1>3. CASE pc[t] = "saving"
  <2>1. Held(t) \in Copy /\ NotAhead(Held(t)) /\ HeldNext(t) = Held(t)
    BY <1>3, HeldType, HeldComes, ComesBehind DEF Holding, Steady
  <2>2. HeldNext(t).hist = Len(hist') /\ HeldNext(t).sigs = sigs' => Complete(Held(t))
    BY <2>1, CompleteBefore
  <2>3. Sure \subseteq Sure' BY SureStays
  <2> QED BY <1>3, <2>1, <2>2, <2>3 DEF AuditOf, Steady, Held, HeldNext, Complete
<1>4. CASE pc[t] \notin {"loaded", "writing", "signing", "saving"}
  BY <1>4 DEF AuditOf, Steady
<1> QED BY <1>1, <1>2, <1>3, <1>4

(* Which requests a step of r leaves steady: those whose object it neither *)
(* shares nor changes.                                                     *)
LEMMA OthersSteady ==
    ASSUME Inv, NEW t \in Request, NEW r \in Request, t # r,
           \/ \E q \in Calls : Create(r, q) \/ HitRefuse(r, q) \/ MissNotFound(r, q) \/ Miss(r, q)
           \/ Compare(r) \/ CompareOrphans(r) \/ Write(r) \/ Record(r) \/ Announce(r)
    PROVE  Steady(t)
<1>1. cache' = cache
  BY InvalidatedSame DEF Create, HitRefuse, MissNotFound, Miss, Compare, CompareOrphans,
     Write, Record, Announce, Inv, TypeOK
<1>2. /\ pc'[t] = pc[t] /\ call'[t] = call[t] /\ entry'[t] = entry[t]
      /\ shared'[t] = shared[t] /\ copy'[t] = copy[t]
  <2>1. CASE \E q \in Calls : Create(r, q) \/ HitRefuse(r, q) \/ MissNotFound(r, q) \/ Miss(r, q)
    BY <2>1 DEF Create, HitRefuse, MissNotFound, Miss, Inv, TypeOK
  <2>2. CASE Compare(r) \/ CompareOrphans(r)
    BY <2>2 DEF Compare, CompareOrphans, Finish, Inv, TypeOK
  <2>3. CASE Write(r) BY <2>3 DEF Write, Finish, Inv, TypeOK
  <2>4. CASE Record(r) \/ Announce(r) BY <2>4 DEF Record, Announce, Finish, Inv, TypeOK
  <2> QED BY <2>1, <2>2, <2>3, <2>4
<1> QED BY <1>1, <1>2 DEF Steady, HeldNext, Held

(* When the object cached for u leaves the cache, those who share it keep it. *)
LEMMA UnsharedSteady ==
    ASSUME Inv, NEW u \in User, NEW t \in Request,
           pc'[t] = pc[t], call'[t] = call[t], entry'[t] = entry[t],
           copy'[t] = Kept(t, u),
           shared' = [s \in Request |-> shared[s] /\ s \notin Sharers(u)],
           \A v \in User \ {u} : cache'[v] = cache[v]
    PROVE  Steady(t)
<1>1. CASE shared[t] /\ call[t].user = u
  BY <1>1 DEF Steady, HeldNext, Held, Kept, Sharers
<1>2. CASE shared[t] /\ call[t].user # u
  <2>1. call[t].user \in User BY <1>2, SharerType
  <2> QED BY <1>2, <2>1 DEF Steady, HeldNext, Held, Kept, Sharers
<1>3. CASE ~shared[t]
  BY <1>3 DEF Steady, HeldNext, Held, Kept, Sharers
<1> QED BY <1>1, <1>2, <1>3

LEMMA FillSteady ==
    ASSUME Inv, NEW r \in Request, FillRefuse(r) \/ FillProceed(r), NEW t \in Request, t # r
    PROVE  Steady(t)
<1> DEFINE u == call[r].user
<1>1. u \in User /\ call[r] \in Calls
  <2>1. pc[r] \in Holding BY DEF FillRefuse, FillProceed, Holding
  <2> QED BY <2>1, CallType DEF Inv, Shape
<1>2. /\ shared' = [s \in Request |-> shared[s] /\ s \notin Sharers(u)]
      /\ cache' = [cache EXCEPT ![u] = copy[r]]
      /\ copy'[t] = Kept(t, u)
      /\ pc'[t] = pc[t] /\ call'[t] = call[t] /\ entry'[t] = entry[t]
  <2>1. CASE FillRefuse(r) BY <2>1 DEF FillRefuse, Unshare, Inv, TypeOK
  <2>2. CASE FillProceed(r) BY <2>2 DEF FillProceed, Unshare, Inv, TypeOK
  <2> QED BY <2>1, <2>2
<1>3. \A v \in User \ {u} : cache'[v] = cache[v] BY <1>2 DEF Inv, TypeOK
<1> HIDE DEF u
<1> QED BY <1>1, <1>2, <1>3, UnsharedSteady

LEMMA EvictSteady ==
    ASSUME Inv, NEW u \in User, Evict(u), NEW t \in Request
    PROVE  Steady(t)
<1>1. /\ shared' = [s \in Request |-> shared[s] /\ s \notin Sharers(u)]
      /\ cache' = [cache EXCEPT ![u] = NoCopy]
      /\ copy'[t] = Kept(t, u)
      /\ pc'[t] = pc[t] /\ call'[t] = call[t] /\ entry'[t] = entry[t]
  BY DEF Evict, Unshare
<1>2. \A v \in User \ {u} : cache'[v] = cache[v] BY <1>1 DEF Inv, TypeOK
<1> QED BY <1>1, <1>2, UnsharedSteady

(* An operation of the same user on the shared object: an administrator's  *)
(* leaves the status, and a decided object permits no other's.             *)
LEMMA HitAudit ==
    ASSUME Inv, Inv', Behind, [Next]_vars, ~Failures, Ops \cap LeavesOpen = {}, Audited,
           NEW r \in Request, NEW q \in Calls, HitProceed(r, q), NEW t \in Request
    PROVE  AuditOf(t)'
<1> DEFINE u == q.user
           x == cache[u].row
           c == With(cache[u], Assign(q, x))
<1>1. /\ u \in User /\ cache[u] \in Copy /\ x \in Row /\ Permits(q, x)
      /\ cache[u] # NoCopy /\ q.op \notin Creates
  BY CallType DEF HitProceed, Inv, TypeOK, Copy
<1>2. /\ pc[r] = "idle"
      /\ entry' = [entry EXCEPT ![r] = EntryFor(q, x)]
      /\ call' = [call EXCEPT ![r] = q] /\ shared' = [shared EXCEPT ![r] = TRUE]
      /\ q.op = "sign" => pc' = [pc EXCEPT ![r] = "signing"] /\ cache' = cache
      /\ q.op # "sign" => /\ pc' = [pc EXCEPT ![r] = "saving"]
                          /\ cache' = [cache EXCEPT ![u] = c]
      /\ UNCHANGED <<row, hist, sigs, copy, base, events>>
  BY DEF HitProceed
<1>3. /\ c.row.status = StatusAfter(q, x) /\ c.hist = cache[u].hist /\ c.sigs = cache[u].sigs
      /\ Level[u] = "admin" => /\ q.op # "sign" /\ StatusAfter(q, x) = x.status
                               /\ EntryFor(q, x) = NoEntry
      /\ Level[u] # "admin" => /\ EntryFor(q, x) # NoEntry
                               /\ EntryFor(q, x).to = StatusAfter(q, x)
                               /\ StatusAfter(q, x) \in Outcomes
                               /\ q.op # "sign" => x.status \notin Outcomes
  BY <1>1, PermittedRecords DEF With
<1>4. Sure \subseteq Sure' BY SureStays
<1> HIDE DEF c, x, u
<1>5. CASE t = r
  <2> SUFFICES AuditOf(r)' BY <1>5
  <2>1. call'[r] = q /\ shared'[r] /\ entry'[r] = EntryFor(q, x)
    BY <1>2 DEF Inv, TypeOK
  <2>2. CASE q.op = "sign"
    <3>1. pc'[r] = "signing" BY <1>2, <2>2 DEF Inv, TypeOK
    <3>2. call'[r].op = "sign" /\ entry'[r] # NoEntry /\ entry'[r].to \in Outcomes
      <4>1. Level[u] # "admin" BY <1>3, <2>2
      <4>2. EntryFor(q, x) # NoEntry BY <1>3, <4>1
      <4>3. EntryFor(q, x).to \in Outcomes BY <1>3, <4>1
      <4> QED BY <2>1, <2>2, <4>2, <4>3
    <3> QED BY <3>1, <3>2 DEF AuditOf
  <2>3. CASE q.op # "sign"
    <3>1. pc'[r] = "saving" /\ cache'[u] = c BY <1>1, <1>2, <2>3 DEF Inv, TypeOK
    <3>2. Level[u] = "admin" => x.status \in Sure'
      BY <1>1, <1>4 DEF x, Audited, AdminCopies
    <3>3. Held(r)' = c /\ call'[r].user = u BY <2>1, <3>1 DEF Held, u
    <3> QED BY <1>3, <2>1, <3>1, <3>2, <3>3 DEF AuditOf
  <2> QED BY <2>2, <2>3
<1>6. CASE t # r
  <2>1. /\ pc'[t] = pc[t] /\ call'[t] = call[t] /\ entry'[t] = entry[t]
        /\ shared'[t] = shared[t] /\ copy'[t] = copy[t] /\ AuditOf(t)
    BY <1>2, <1>6 DEF Inv, TypeOK, Audited
  <2>2. CASE shared[t] /\ call[t].user = u /\ pc[t] = "saving" /\ q.op # "sign"
    <3>1. Held(t) = cache[u] /\ cache'[u] = c BY <1>1, <1>2, <2>2 DEF Held, Inv, TypeOK
    <3>0. Held(t)' = c BY <2>1, <2>2, <3>1 DEF Held
    <3>5. x = Held(t).row BY <3>1 DEF x
    <3>2. CASE entry[t] = NoEntry
      BY <1>3, <1>4, <2>1, <2>2, <3>0, <3>2, <3>5 DEF AuditOf
    <3>3. CASE entry[t] # NoEntry
      <4>1. Level[u] # "admin" /\ ~Complete(Held(t))
        BY <1>3, <2>1, <2>2, <3>3, <3>5 DEF AuditOf
      <4>2. ~Complete(Held(t))' BY <1>2, <1>3, <3>0, <3>1, <4>1 DEF Complete
      <4> QED BY <2>1, <2>2, <3>3, <4>2 DEF AuditOf
    <3> QED BY <3>2, <3>3
  <2>3. CASE pc[t] = "signing" BY <2>1, <2>3 DEF AuditOf
  <2>4. CASE pc[t] # "signing" /\ ~(shared[t] /\ call[t].user = u /\ pc[t] = "saving" /\ q.op # "sign")
    <3>1. shared[t] => pc[t] = "saving" /\ call[t].user \in User BY <2>4, SharerType
    <3>2. shared[t] => cache'[call[t].user] = cache[call[t].user]
      BY <1>2, <2>4, <3>1 DEF Inv, TypeOK
    <3>3. Steady(t) BY <2>1, <3>2 DEF Steady, HeldNext, Held
    <3> QED BY <2>1, <3>3, AuditStays
  <2> QED BY <2>2, <2>3, <2>4
<1> QED BY <1>5, <1>6

(* An operation of a request that read the database itself. *)
LEMMA FillAudit ==
    ASSUME Inv, Inv', Behind, [Next]_vars, ~Failures, Ops \cap LeavesOpen = {}, Audited,
           NEW r \in Request, FillRefuse(r) \/ FillProceed(r), NEW t \in Request
    PROVE  AuditOf(t)'
<1>1. CASE t # r
  <2>1. Steady(t) BY <1>1, FillSteady
  <2> QED BY <2>1, AuditStays DEF Audited
<1>2. CASE t = r /\ FillRefuse(r)
  <2>1. pc'[r] = "done" BY <1>2 DEF FillRefuse, Inv, TypeOK
  <2> QED BY <1>2, <2>1 DEF AuditOf
<1>3. CASE t = r /\ FillProceed(r)
  <2> DEFINE q == call[r]
             x == copy[r].row
             own == IF q.op = "sign" THEN copy[r] ELSE With(copy[r], Assign(q, x))
  <2> SUFFICES AuditOf(r)' BY <1>3
  <2>1. /\ pc[r] = "loaded" /\ Permits(q, x)
        /\ copy'[r] = own
        /\ pc'[r] = IF q.op = "sign" THEN "signing" ELSE "saving"
        /\ entry'[r] = EntryFor(q, x) /\ call'[r] = q /\ ~shared'[r]
    <3>1. pc[r] = "loaded" BY <1>3 DEF FillProceed
    <3> QED BY <1>3, <3>1, OwnObject DEF FillProceed, Unshare, Inv, TypeOK
  <2>2. q \in Calls /\ x \in Row
    BY <2>1, OwnObject DEF Inv, Shape, Holding, Copy
  <2>3. x.status \in Sure' BY <2>1, SureStays DEF Audited, AuditOf
  <2>4. Held(r)' = own BY <2>1 DEF Held
  <2>5. q.op # "sign" => own.row.status = StatusAfter(q, x)
    BY <2>1, <2>2, PermittedRecords DEF With
  <2>6. /\ Level[q.user] = "admin"
             => /\ q.op # "sign" /\ StatusAfter(q, x) = x.status
                /\ EntryFor(q, x) = NoEntry
        /\ Level[q.user] # "admin"
             => /\ EntryFor(q, x) # NoEntry
                /\ EntryFor(q, x).to = StatusAfter(q, x)
                /\ StatusAfter(q, x) \in Outcomes
    BY <2>1, <2>2, PermittedRecords
  <2> HIDE DEF q, x, own
  <2>7. CASE q.op = "sign" BY <2>1, <2>6, <2>7 DEF AuditOf
  <2>8. CASE q.op # "sign" BY <2>1, <2>3, <2>4, <2>5, <2>6, <2>8 DEF AuditOf
  <2> QED BY <2>7, <2>8
<1> QED BY <1>1, <1>2, <1>3

(* A signature leaves every object one row short, and is no administrator's. *)
LEMMA SignerLevel ==
    ASSUME Inv, NEW r \in Request, AddSignature(r), AuditOf(r)
    PROVE  /\ Level[call[r].user] # "admin"
           /\ entry[r] # NoEntry /\ entry[r].to \in Outcomes
<1>1. pc[r] = "signing" /\ call[r] \in Calls
  BY DEF AddSignature, Inv, Shape, Holding
<1>2. call[r].op = "sign" /\ entry[r] # NoEntry /\ entry[r].to \in Outcomes
  BY <1>1 DEF AuditOf
<1>3. EndpointAllows(Level[call[r].user], "sign") BY <1>1, <1>2 DEF Calls
<1> QED BY <1>2, <1>3 DEF EndpointAllows

LEMMA SignatureAudit ==
    ASSUME Inv, Inv', Behind, [Next]_vars, ~Failures, Audited,
           NEW r \in Request, AddSignature(r), NEW t \in Request
    PROVE  AuditOf(t)'
<1>1. /\ pc[r] = "signing" /\ pc' = [pc EXCEPT ![r] = "saving"]
      /\ sigs' = sigs + 1 /\ UNCHANGED <<hist, call, shared, entry>>
      /\ IF shared[r] THEN copy' = copy /\ \E d : cache' = [cache EXCEPT ![call[r].user] = d]
                      ELSE cache' = cache /\ \E d : copy' = [copy EXCEPT ![r] = d]
  BY DEF AddSignature
<1>2. /\ Level[call[r].user] # "admin"
      /\ entry[r] # NoEntry /\ entry[r].to \in Outcomes
  BY SignerLevel DEF Audited
<1>3. pc'[t] = "saving" => ~Complete(Held(t))'
  <2>1. CASE pc'[t] = "saving"
    <3>1. (Held(t) \in Copy)' /\ (shared'[t] => call'[t].user \in User)
      BY <2>1, <1>1, SharerType DEF Inv, Shape, Holding, Held
    <3>2. (Held(t))' # NoCopy BY <3>1, NothingAssumption
    <3> QED BY <3>1, <3>2, <1>1, GrownIncomplete DEF Held, Complete
  <2> QED BY <2>1
<1>4. CASE t = r
  <2>1. pc'[r] = "saving" BY <1>1 DEF Inv, TypeOK
  <2> QED BY <1>1, <1>2, <1>3, <1>4, <2>1 DEF AuditOf
<1>5. CASE t # r
  <2>1. pc'[t] = pc[t] /\ copy'[t] = copy[t] /\ AuditOf(t)
    BY <1>1, <1>5 DEF Inv, TypeOK, Audited
  <2>2. Sure \subseteq Sure' BY SureStays
  <2>3. CASE pc[t] = "saving" /\ entry[t] = NoEntry
    <3>1. Level[call[t].user] = "admin" /\ Held(t).row.status \in Sure
      BY <2>1, <2>3 DEF AuditOf
    <3>2. call[t].user # call[r].user BY <3>1, <1>2
    <3>3. shared[t] => cache'[call[t].user] = cache[call[t].user]
      BY <1>1, <3>2, SharerType DEF Inv, TypeOK
    <3>4. Held(t)' = Held(t) BY <1>1, <2>1, <3>3 DEF Held
    <3> QED BY <1>1, <2>1, <2>2, <2>3, <3>1, <3>4 DEF AuditOf
  <2>4. CASE ~(pc[t] = "saving" /\ entry[t] = NoEntry)
    BY <1>1, <1>3, <2>1, <2>2, <2>4 DEF AuditOf
  <2> QED BY <2>3, <2>4
<1> QED BY <1>4, <1>5

(* The other steps. *)
LEMMA OtherAudit ==
    ASSUME Inv, Inv', Behind, [Next]_vars, ~Failures, Audited, NEW r \in Request,
           \/ \E q \in Calls : Create(r, q) \/ HitRefuse(r, q) \/ MissNotFound(r, q) \/ Miss(r, q)
           \/ Compare(r) \/ CompareOrphans(r) \/ Write(r) \/ Record(r) \/ Announce(r),
           NEW t \in Request
    PROVE  AuditOf(t)'
<1>1. CASE t # r
  <2>1. Steady(t) BY <1>1, OthersSteady
  <2> QED BY <2>1, AuditStays DEF Audited
<1>2. Sure \subseteq Sure' BY SureStays
<1>3. CASE t = r /\ Compare(r)
  <2>1. /\ pc[r] = "saving" /\ Complete(Held(r)) /\ copy'[r] = Held(r)
        /\ pc'[r] = "writing" /\ entry' = entry
    BY <1>3 DEF Compare, Inv, TypeOK
  <2>2. entry[r] # NoEntry => entry[r].to \in Sure'
    BY <2>1 DEF Sure, Recording
  <2>3. Held(r).row.status \in Sure'
    BY <1>2, <2>1, <2>2 DEF Audited, AuditOf
  <2> QED BY <1>3, <2>1, <2>3 DEF AuditOf
<1>4. CASE t = r /\ \E q \in Calls : Miss(r, q)
  <2>1. pc'[r] = "loaded" /\ copy'[r].row = row /\ row # NoRow
    BY <1>4 DEF Miss, Inv, TypeOK
  <2>2. row.status \in Sure' BY <1>2, <2>1 DEF Audited, RowAudited
  <2> QED BY <1>4, <2>1, <2>2 DEF AuditOf
<1>5. CASE t = r /\ ~Compare(r) /\ \A q \in Calls : ~Miss(r, q)
  <2>1. pc'[r] \in {"done", "recording", "announcing"}
    BY <1>5 DEF Create, HitRefuse, MissNotFound, CompareOrphans, Write, Record, Announce,
                Finish, Inv, TypeOK
  <2> QED BY <1>5, <2>1 DEF AuditOf
<1> QED BY <1>1, <1>3, <1>4, <1>5

LEMMA AuditOfNext ==
    ASSUME Inv, Inv', Behind, [Next]_vars, ~Failures, Ops \cap LeavesOpen = {}, Audited,
           NEW t \in Request
    PROVE  AuditOf(t)'
<1>1. ASSUME NEW r \in Request, NEW q \in Calls,
             \/ Create(r, q) \/ HitRefuse(r, q) \/ HitProceed(r, q)
             \/ MissNotFound(r, q) \/ Miss(r, q)
      PROVE  AuditOf(t)'
  BY <1>1, HitAudit, OtherAudit
<1>2. ASSUME NEW r \in Request,
             \/ FillRefuse(r) \/ FillProceed(r) \/ AddSignature(r) \/ Compare(r)
             \/ CompareOrphans(r) \/ Write(r) \/ Record(r) \/ Announce(r)
      PROVE  AuditOf(t)'
  BY <1>2, FillAudit, SignatureAudit, OtherAudit
<1>3. ASSUME NEW u \in User, Evict(u) PROVE AuditOf(t)'
  BY <1>3, EvictSteady, AuditStays DEF Audited
<1>4. CASE UNCHANGED vars
  <2>1. Steady(t) BY <1>4 DEF vars, Steady, HeldNext, Held
  <2> QED BY <2>1, AuditStays DEF Audited
<1>5. ~Restart /\ \A r \in Request : ~Fail(r) BY DEF Restart, Fail
<1> QED BY <1>1, <1>2, <1>3, <1>4, <1>5 DEF Next

(* The status the row moves to is that of a save's object, or of create(). *)
LEMMA RowAuditedNext ==
    ASSUME Inv, Inv', [Next]_vars, ~Failures, Audited
    PROVE  RowAudited'
<1>1. Sure \subseteq Sure' BY SureStays
<1>2. CASE row' = row BY <1>1, <1>2 DEF Audited, RowAudited
<1>3. ASSUME NEW r \in Request, Write(r) PROVE RowAudited'
  <2>1. pc[r] = "writing" /\ row' = Merge(base[r], copy[r].row, row) BY <1>3 DEF Write
  <2>2. row # NoRow BY <2>1 DEF Inv, Shape, Holding
  <2>3. row.status \in Sure /\ copy[r].row.status \in Sure
    BY <2>1, <2>2 DEF Audited, RowAudited, AuditOf
  <2>4. row'.status = row.status \/ row'.status = copy[r].row.status
    BY <2>1 DEF Merge, Changed
  <2> QED BY <1>1, <2>3, <2>4 DEF RowAudited
<1>4. CASE row = NoRow /\ row' # NoRow
  <2>1. PICK r \in Request, q \in Calls : Create(r, q) BY <1>4, NoRowStays
  <2>2. /\ pc'[r] = "recording" /\ entry'[r] \in Entry
        /\ entry'[r].to = row'.status
    BY <2>1 DEF Create, Inv, TypeOK, Shape
  <2>3. r \in Recording' BY <2>2, NothingAssumption DEF Recording
  <2> QED BY <2>2, <2>3 DEF RowAudited, Sure
<1> QED BY <1>2, <1>3, <1>4, NextRows DEF RowAudited

(* What an administrator's request puts into the cache. *)
LEMMA AdminCopiesNext ==
    ASSUME Inv, Inv', Behind, [Next]_vars, ~Failures, Ops \cap LeavesOpen = {}, Audited
    PROVE  AdminCopies'
<1> SUFFICES ASSUME NEW u \in User, Level[u] = "admin", cache'[u] # NoCopy
             PROVE  cache'[u].row.status \in Sure'
  BY DEF AdminCopies
<1>1. Sure \subseteq Sure' BY SureStays
<1>2. CASE cache'[u] = cache[u] BY <1>1, <1>2 DEF Audited, AdminCopies
<1>3. ASSUME NEW r \in Request, NEW q \in Calls, HitProceed(r, q)
      PROVE  cache'[u] = cache[u] \/ cache'[u].row.status = cache[u].row.status
  <2>1. cache' = cache \/ cache' = [cache EXCEPT ![q.user] = With(@, Assign(q, @.row))]
    BY <1>3, CallType DEF HitProceed, Inv, TypeOK
  <2>2. CASE q.user = u /\ cache' # cache
    <3>1. cache[u] \in Copy /\ Permits(q, cache[u].row)
      BY <1>3, <2>2 DEF HitProceed, Inv, TypeOK
    <3>2. StatusAfter(q, cache[u].row) = Assign(q, cache[u].row).status
          /\ StatusAfter(q, cache[u].row) = cache[u].row.status
      BY <2>2, <3>1, PermittedRecords DEF Copy
    <3>3. cache'[u] = With(cache[u], Assign(q, cache[u].row))
      BY <2>1, <2>2 DEF Inv, TypeOK
    <3>4. cache'[u].row = Assign(q, cache[u].row) BY <3>3 DEF With
    <3> QED BY <3>2, <3>4
  <2>3. CASE ~(q.user = u /\ cache' # cache) BY <2>1, <2>3 DEF Inv, TypeOK
  <2> QED BY <2>2, <2>3
<1>4. ASSUME NEW r \in Request, FillRefuse(r) \/ FillProceed(r)
      PROVE  cache'[u] = cache[u] \/ cache'[u].row.status \in Sure
  <2>1. pc[r] = "loaded" /\ cache' = [cache EXCEPT ![call[r].user] = copy[r]]
    BY <1>4 DEF FillRefuse, FillProceed
  <2>2. copy[r].row.status \in Sure BY <2>1 DEF Audited, AuditOf
  <2> QED BY <2>1, <2>2 DEF Inv, TypeOK
<1>5. ASSUME NEW r \in Request, AddSignature(r) PROVE cache'[u] = cache[u]
  <2>1. call[r].user # u BY <1>5, SignerLevel DEF Audited
  <2> QED BY <1>5, <2>1 DEF AddSignature, Inv, TypeOK
<1>6. ASSUME NEW r \in Request, NEW q \in Calls,
             Create(r, q) \/ HitRefuse(r, q) \/ MissNotFound(r, q) \/ Miss(r, q)
      PROVE  cache'[u] = cache[u]
  BY <1>6 DEF Create, HitRefuse, MissNotFound, Miss
<1>7. ASSUME NEW r \in Request,
             Compare(r) \/ CompareOrphans(r) \/ Write(r) \/ Record(r) \/ Announce(r)
      PROVE  cache'[u] = cache[u]
  BY <1>7, InvalidatedSame DEF Compare, CompareOrphans, Write, Record, Announce, Inv, TypeOK
<1>8. ASSUME NEW v \in User, Evict(v) PROVE cache'[u] = cache[u]
  BY <1>8 DEF Evict, Inv, TypeOK
<1>9. ~Restart /\ \A r \in Request : ~Fail(r) BY DEF Restart, Fail
<1>10. UNCHANGED vars => cache'[u] = cache[u] BY DEF vars
<1>11. \/ cache'[u] = cache[u]
       \/ cache'[u].row.status \in Sure
       \/ \E r \in Request, q \in Calls : HitProceed(r, q)
  <2>1. CASE Next
    <3>1. \/ \E r \in Request : \E q \in Calls :
               \/ Create(r, q) \/ HitRefuse(r, q) \/ HitProceed(r, q)
               \/ MissNotFound(r, q) \/ Miss(r, q)
          \/ \E r \in Request : \/ FillRefuse(r) \/ FillProceed(r) \/ AddSignature(r)
                                \/ Compare(r) \/ CompareOrphans(r) \/ Write(r)
                                \/ Record(r) \/ Announce(r)
          \/ \E v \in User : Evict(v)
      BY <1>9, <2>1 DEF Next
    <3> QED BY <3>1, <1>4, <1>5, <1>6, <1>7, <1>8
  <2> QED BY <2>1, <1>10
<1>12. ASSUME NEW r \in Request, NEW q \in Calls, HitProceed(r, q),
              cache'[u] # cache[u]
       PROVE  cache[u].row.status \in Sure
  <2>1. q.user = u /\ cache[u] # NoCopy
    BY <1>12, CallType DEF HitProceed, Inv, TypeOK
  <2> QED BY <2>1 DEF Audited, AdminCopies
<1> QED BY <1>1, <1>2, <1>3, <1>11, <1>12

LEMMA InitAudited == Init => Audited
<1> SUFFICES ASSUME Init PROVE Audited OBVIOUS
<1>1. RowAudited BY DEF Init, RowAudited
<1>2. AdminCopies BY DEF Init, AdminCopies
<1>3. \A r \in Request : AuditOf(r) BY DEF Init, AuditOf
<1> QED BY <1>1, <1>2, <1>3 DEF Audited

(* RestingStatusIsAudited: when no request is in flight, the status of the *)
(* approval is the outcome of an entry of its history, whoever raced, as   *)
(* long as no call fails and no operation leaves a status that another     *)
(* request of the same user may overwrite in the shared object (update,    *)
(* submit and delegate do, and then the property fails).                   *)
THEOREM StatusAlwaysAudited ==
    ASSUME ~Failures, Ops \cap LeavesOpen = {}
    PROVE  Spec => []RestingStatusIsAudited
<1>1. Inv /\ Inv' /\ Behind /\ Audited /\ [Next]_vars => Audited'
  BY AuditOfNext, RowAuditedNext, AdminCopiesNext DEF Audited
<1>2. Audited => RestingStatusIsAudited
  <2> SUFFICES ASSUME Audited, AtRest, row # NoRow
               PROVE  \E j \in DOMAIN hist : hist[j].to = row.status
    BY DEF RestingStatusIsAudited
  <2>1. Recording = {} BY DEF AtRest, Recording
  <2>2. row.status \in Sure BY DEF Audited, RowAudited
  <2> QED BY <2>1, <2>2 DEF Sure
<1> QED BY InitAudited, InvBehind, <1>1, <1>2, PTL DEF Spec
=============================================================================
