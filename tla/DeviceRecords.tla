--------------------------- MODULE DeviceRecords ---------------------------
(***************************************************************************)
(* The opening and closing records of one device on one day                *)
(* (src/iot/iot.service.ts): recordTimeEvent with smartRecordManagement,   *)
(* and createOrUpdateRecord, which takes both times at once.               *)
(*                                                                         *)
(* Each call works in a transaction, but what it decides on comes from     *)
(* copies cached for all calls, filled and cleared inside the transactions *)
(* and cleared once more after the commit.  A copy found in the cache is   *)
(* the cached object itself.                                               *)
(*                                                                         *)
(* Times are in ticks of three to four minutes: times in one tick are      *)
(* duplicates (two minutes), times less than two ticks apart are too close *)
(* (five minutes).  Records are in the order of their creation.            *)
(*                                                                         *)
(* updateRecord and removeRecord ask for a relation the entity does not    *)
(* have, and are always refused: they have no action.                      *)
(***************************************************************************)
EXTENDS Naturals, Sequences, FiniteSets

CONSTANTS
    DeviceCaller,   \* calls, each performed once
    DeviceCalls,    \* what they may ask for
    Since,          \* the last update that is not recent, for each event
    MayAsk,         \* which of them each caller may make
    MaxDeviceCalls, \* calls under way at a time
    NoTime, NoRecord, Unknown, NoDeviceCall

Times == Nat \cup {NoTime}

(* A copy of a record.                                                     *)
View == [id: Nat, open: Times, close: Times]

(* An event has the time of its type; a record may have either, both or    *)
(* neither.                                                                *)
ASSUME DevicesAssumption ==
    /\ NoTime \notin Nat
    /\ NoRecord \notin View /\ Unknown \notin View
    /\ DeviceCalls \subseteq [op: {"open", "close", "pair"}, open: Times, close: Times]
    /\ Since \in [DeviceCalls -> Nat]
    /\ MayAsk \in [DeviceCaller -> SUBSET DeviceCalls]
    /\ \A q \in DeviceCalls :
          /\ q.op = "open" => q.open # NoTime /\ q.close = NoTime
          /\ q.op = "close" => q.open = NoTime /\ q.close # NoTime

VARIABLES
    records,        \* the rows, in the order of creation
    recordStamp,    \* the last updatedAt
    recordCache,    \* what the cache holds for each key
    deviceCall,     \* where each call is, and what it holds
    callsCrossed    \* calls have overlapped, or one has failed

deviceVars == <<records, recordStamp, recordCache, deviceCall, callsCrossed>>

EventType == {"open", "close"}

(* An event has one time; a record may have either, both or neither.       *)
OpenAt(t)  == [op |-> "open",  open |-> t,      close |-> NoTime]
CloseAt(t) == [op |-> "close", open |-> NoTime, close |-> t]
Pair(o, c) == [op |-> "pair",  open |-> o,      close |-> c]

(* The copies: the day's records, the latest of them, and, for each event, *)
(* the record last updated that has a time of its type, if it is recent.   *)
CacheKeys == {<<"today">>, <<"latest">>}
               \cup {<<"recent", q.op, q.open, q.close>> : q \in
                       {r \in DeviceCalls : r.op \in EventType}}

Live == {i \in DOMAIN records : records[i].live}

Copy(i) == [id |-> i, open |-> records[i].open, close |-> records[i].close]

(* Of the records in S the one of the highest rank: the order of creation, *)
(* or that of the last updates.                                            *)
LastOf(S, rank) ==
    IF S = {} THEN NoRecord ELSE Copy(CHOOSE i \in S : \A j \in S : rank[j] <= rank[i])

ByCreation == [i \in DOMAIN records |-> i]

ByUpdate == [i \in DOMAIN records |-> records[i].updated]

Recent(r, key) ==
    /\ r[key[2]] # NoTime
    /\ r.updated > Since[[op |-> key[2], open |-> key[3], close |-> key[4]]]

(* What the database answers for a key.                                    *)
Stored(key) ==
    CASE key[1] = "today"  -> {Copy(i) : i \in Live}
      [] key[1] = "latest" -> LastOf(Live, ByCreation)
      [] key[1] = "recent" -> LastOf({i \in Live : Recent(records[i], key)}, ByUpdate)

NoCopies == [k \in CacheKeys |-> Unknown]

Untouched == [pc |-> "idle", asks |-> NoDeviceCall, key |-> <<"today">>, value |-> Unknown,
              copy |-> NoRecord, id |-> 0, write |-> "none", outcome |-> "none"]

DevicesInit ==
    /\ records = <<>>
    /\ recordStamp = 0
    /\ recordCache = NoCopies
    /\ deviceCall = [c \in DeviceCaller |-> Untouched]
    /\ callsCrossed = FALSE

AtStep(c, p) == deviceCall[c].pc = p

Set(c, d) == deviceCall' = [deviceCall EXCEPT ![c] = d]

InCall == {c \in DeviceCaller : deviceCall[c].pc \notin {"idle", "done"}}

End(c, o) == [Untouched EXCEPT !.pc = "done", !.outcome = o]

-----------------------------------------------------------------------------
TooClose(open, close) == close < open + 2

Near(s, t) == s < t + 2 /\ t < s + 2

Complete(r) == r.open # NoTime /\ r.close # NoTime

Inserts == {"insert", "beside"}

Look(c, key) == [deviceCall[c] EXCEPT !.pc = "looking", !.key = key]

BeginDeviceCall(c, q) ==
    /\ AtStep(c, "idle")
    /\ Cardinality(InCall) < MaxDeviceCalls
    /\ Set(c, [Untouched EXCEPT !.pc = "looking", !.asks = q,
                 !.key = IF q.op = "pair" THEN <<"today">>
                         ELSE <<"recent", q.op, q.open, q.close>>])
    /\ callsCrossed' = (callsCrossed \/ InCall # {})
    /\ UNCHANGED <<records, recordStamp, recordCache>>

(* Mutant: a closing time is checked against the opening time of the call. *)
JoinedUnchecked(q, r) ==
    LET open  == IF r.open = NoTime THEN q.open ELSE r.open
        close == IF r.close = NoTime THEN q.close ELSE r.close
    IN  IF r.close = NoTime /\ q.close # NoTime /\ q.open # NoTime
           /\ TooClose(q.open, q.close)
        THEN <<"remove", open, close>> ELSE <<"update", open, close>>

(* createOrUpdateRecord adds what the latest record lacks; a record that   *)
(* would be closed too early is to be removed.                             *)
Joined(q, r) ==
    LET open  == IF r.open = NoTime THEN q.open ELSE r.open
        close == IF r.close = NoTime THEN q.close ELSE r.close
    IN  IF r.close = NoTime /\ q.close # NoTime /\ open # NoTime /\ TooClose(open, q.close)
        THEN <<"remove", open, close>> ELSE <<"update", open, close>>

(* What is decided on the latest record r: of an opening event, only the   *)
(* opening time is added.  Beside a complete record, createOrUpdateRecord  *)
(* leaves times that are too close without ending its transaction, and     *)
(* inserts others without clearing the copies in it.                       *)
Plan(q, r) ==
    LET none == r = NoRecord
        soon == q.open # NoTime /\ q.close # NoTime /\ TooClose(q.open, q.close)
        anew == IF soon THEN IF none THEN "discard" ELSE "abandon"
                ELSE IF q.op = "pair" /\ ~none THEN "beside" ELSE "insert"
    IN  IF none \/ (~none /\ Complete(r)) THEN <<anew, q.open, q.close>>
        ELSE IF q.op = "open" /\ r.open # NoTime
        THEN <<IF q.open = r.open THEN "skip" ELSE "insert", q.open, NoTime>>
        ELSE Joined(q, r)

(* checkForDuplicateRecord                                                 *)
Duplicate(q, today) ==
    \E r \in today : \/ q.open # NoTime /\ q.open = r.open
                     \/ q.close # NoTime /\ q.close = r.close

(* A call goes on with the value v of the key it has looked for.           *)
Proceed(c, v) ==
    LET d == deviceCall[c]
        q == d.asks
        plan == Plan(q, v)
    IN  CASE d.key[1] = "recent" ->
               IF v # NoRecord /\ Near(v[q.op], IF q.op = "open" THEN q.open ELSE q.close)
               THEN End(c, "debounced")
               ELSE IF q.op = "open" THEN Look(c, <<"today">>)
               ELSE [d EXCEPT !.pc = "finding", !.value = Unknown]
          [] d.key[1] = "today" ->
               IF ~Duplicate(q, v) THEN [Look(c, <<"latest">>) EXCEPT !.value = Unknown]
               ELSE IF q.op = "pair" THEN End(c, "duplicate")
               ELSE [d EXCEPT !.pc = "clearing", !.outcome = "duplicate", !.value = Unknown]
          [] d.key[1] = "latest" ->
               IF plan[1] = "discard" THEN End(c, "discarded")
               ELSE IF plan[1] = "abandon" THEN End(c, "abandoned")
               ELSE IF plan[1] = "skip" THEN [d EXCEPT !.pc = "clearing", !.value = Unknown,
                                                       !.outcome = "duplicate"]
               ELSE [d EXCEPT !.pc = "saving", !.value = Unknown, !.write = plan[1],
                       !.id = IF plan[1] \in Inserts THEN 0 ELSE v.id,
                       !.copy = [id |-> 0, open |-> plan[2], close |-> plan[3]]]

(* getRecentEvent, getTodayRecords, getLatestRecord: a cached null is      *)
(* taken for no recent event, but not for no latest record.                *)
InCache(key) ==
    /\ recordCache[key] # Unknown
    /\ key[1] = "latest" => recordCache[key] # NoRecord

(* What is assigned to a copy found in the cache is assigned there.        *)
Hit(c) ==
    LET key == deviceCall[c].key
        d == Proceed(c, recordCache[key])
    IN  /\ AtStep(c, "looking")
        /\ InCache(key)
        /\ Set(c, d)
        /\ recordCache' =
             IF d.write = "update"
             THEN [recordCache EXCEPT ![key] = [d.copy EXCEPT !.id = d.id]]
             ELSE recordCache
        /\ UNCHANGED <<records, recordStamp, callsCrossed>>

Miss(c) ==
    /\ AtStep(c, "looking")
    /\ ~InCache(deviceCall[c].key)
    /\ Set(c, [deviceCall[c] EXCEPT !.pc = "filling", !.value = Stored(deviceCall[c].key)])
    /\ UNCHANGED <<records, recordStamp, recordCache, callsCrossed>>

Fill(c) ==
    /\ AtStep(c, "filling")
    /\ recordCache' = [recordCache EXCEPT ![deviceCall[c].key] = deviceCall[c].value]
    /\ Set(c, [Proceed(c, deviceCall[c].value) EXCEPT !.value = Unknown])
    /\ UNCHANGED <<records, recordStamp, callsCrossed>>

(* Mutant: a record already closed may be found. *)
OpenRowAny(r) == r.open # NoTime

OpenRow(r) == r.open # NoTime /\ r.close = NoTime

(* A closing event closes the open record last updated, asked of the       *)
(* database; one that would be closed too early is removed.  Without any,  *)
(* the event is refused.                                                   *)
FindOpen(c) ==
    LET d == deviceCall[c]
        r == LastOf({i \in Live : OpenRow(records[i])}, ByUpdate)
    IN  /\ AtStep(c, "finding")
        /\ Set(c, IF r = NoRecord THEN End(c, "refused")
                  ELSE [d EXCEPT !.pc = "saving", !.id = r.id,
                          !.write = IF TooClose(r.open, d.asks.close) THEN "delete"
                                    ELSE "update",
                          !.copy = [id |-> 0, open |-> r.open, close |-> d.asks.close]])
        /\ UNCHANGED <<records, recordStamp, recordCache, callsCrossed>>

-----------------------------------------------------------------------------
(* A row that another transaction has written is locked until it ends.     *)
Locked(c) == \E d \in DeviceCaller \ {c} : /\ deviceCall[d].pc = "committing"
                                           /\ deviceCall[d].write \notin Inserts
                                           /\ deviceCall[d].id = deviceCall[c].id

(* The write, in the transaction, and the clearing of the copies: an       *)
(* insertion beside the complete record that was seen leaves them to the   *)
(* end.                                                                    *)
Cleared(c) == IF deviceCall[c].write = "beside" THEN recordCache ELSE NoCopies

WriteRecord(c) ==
    /\ AtStep(c, "saving")
    /\ deviceCall[c].write \in Inserts \cup {"update", "delete"}
    /\ ~Locked(c)
    /\ recordCache' = Cleared(c)
    /\ Set(c, [deviceCall[c] EXCEPT !.pc = "committing"])
    /\ UNCHANGED <<records, recordStamp, callsCrossed>>

(* createOrUpdateRecord removes the record, and rolls the removal back.    *)
RemoveInVain(c) ==
    /\ AtStep(c, "saving")
    /\ deviceCall[c].write = "remove"
    /\ ~Locked(c)
    /\ recordCache' = NoCopies
    /\ Set(c, End(c, "removed"))
    /\ UNCHANGED <<records, recordStamp, callsCrossed>>

(* A row remembers whether it was inserted with a time.                    *)
Row(copy, live, timed) ==
    [open |-> copy.open, close |-> copy.close, updated |-> recordStamp + 1, live |-> live,
     timed |-> timed]

Timed(copy) == copy.open # NoTime \/ copy.close # NoTime

(* The commit.  A removed event record needs no clearing after it.         *)
CommitRecord(c) ==
    LET d == deviceCall[c]
    IN  /\ AtStep(c, "committing")
        /\ records' = IF d.write \in Inserts
                      THEN Append(records, Row(d.copy, TRUE, Timed(d.copy)))
                      ELSE [records EXCEPT ![d.id] =
                              Row(d.copy, d.write = "update", records[d.id].timed)]
        /\ recordStamp' = recordStamp + 1
        /\ Set(c, IF d.write = "delete" THEN End(c, "removed")
                  ELSE [d EXCEPT !.pc = "clearing"])
        /\ UNCHANGED <<recordCache, callsCrossed>>

(* Mutant: the copies are not cleared after the commit. *)
ClearNothing(c) ==
    /\ AtStep(c, "clearing")
    /\ Set(c, End(c, IF deviceCall[c].outcome = "none" THEN "saved" ELSE "duplicate"))
    /\ UNCHANGED <<records, recordStamp, recordCache, callsCrossed>>

(* invalidateRecordCache: the copy of the latest record is found under the *)
(* UTC day of the record's creation, and kept under that of the server's   *)
(* midnight.  Where these are two days, it stays.                          *)
Clear(c) ==
    /\ AtStep(c, "clearing")
    /\ \E stays \in BOOLEAN :
          recordCache' = IF stays
                         THEN [NoCopies EXCEPT ![<<"latest">>] = recordCache[<<"latest">>]]
                         ELSE NoCopies
    /\ Set(c, End(c, IF deviceCall[c].outcome = "none" THEN "saved" ELSE "duplicate"))
    /\ UNCHANGED <<records, recordStamp, callsCrossed>>

(* A call of the database or the cache fails, and the transaction is       *)
(* rolled back; or the answer to the commit is lost, or the clearing after *)
(* it fails: the record stays, and so do the copies.                       *)
FailRecord(c) ==
    /\ deviceCall[c].pc \in {"looking", "finding", "saving", "committing", "clearing"}
    /\ Set(c, End(c, "failed"))
    /\ callsCrossed' = TRUE
    /\ UNCHANGED <<records, recordStamp, recordCache>>

(* The cache keeps a copy for five minutes.                                *)
Expire(key) ==
    /\ recordCache[key] # Unknown
    /\ recordCache' = [recordCache EXCEPT ![key] = Unknown]
    /\ UNCHANGED <<records, recordStamp, deviceCall, callsCrossed>>

DeviceStep(c) ==
    \/ \E q \in MayAsk[c] : BeginDeviceCall(c, q)
    \/ Hit(c)
    \/ Miss(c)
    \/ Fill(c)
    \/ FindOpen(c)
    \/ WriteRecord(c)
    \/ RemoveInVain(c)
    \/ CommitRecord(c)
    \/ Clear(c)
    \/ FailRecord(c)

DevicesNext ==
    \/ \E c \in DeviceCaller : DeviceStep(c)
    \/ \E key \in CacheKeys : Expire(key)

DevicesSpec == DevicesInit /\ [][DevicesNext]_deviceVars

-----------------------------------------------------------------------------
DevicePC == {"idle", "looking", "filling", "finding", "saving", "committing",
             "clearing", "done"}

DevicesTypeOK ==
    /\ \A i \in DOMAIN records :
          /\ records[i].updated \in 1 .. recordStamp
          /\ records[i].live \in BOOLEAN /\ records[i].timed \in BOOLEAN
          /\ records[i].open \in Times /\ records[i].close \in Times
    /\ recordStamp \in Nat
    /\ DOMAIN recordCache = CacheKeys
    /\ \A c \in DeviceCaller : /\ deviceCall[c].pc \in DevicePC
                               /\ deviceCall[c].asks \in DeviceCalls \cup {NoDeviceCall}
                               /\ deviceCall[c].id \in 0 .. Len(records)
    /\ callsCrossed \in BOOLEAN

(* Between calls that did not overlap or fail, every copy in the cache is  *)
(* what the database would answer, so that duplicates are found.  Only the *)
(* latest record may be another than the one remembered; that one has both *)
(* its times, as the database has them, and nothing is added to it.        *)
CopiesAreCurrent ==
    (InCall = {} /\ ~callsCrossed) =>
      \A key \in CacheKeys : InCache(key) =>
        \/ recordCache[key] = Stored(key)
        \/ /\ key = <<"latest">>
           /\ \E i \in Live : Complete(records[i]) /\ recordCache[key] = Copy(i)

(* Calls that overlap or fail included, a record that was inserted with a  *)
(* time and has been opened is closed five minutes later at least: one     *)
(* closed earlier is not kept.                                             *)
ClosedApart ==
    [][\A i \in DOMAIN records :
         (/\ records[i].live
          /\ records[i].timed
          /\ ~Complete(records[i])
          /\ records[i].open # NoTime
          /\ records'[i].live
          /\ Complete(records[i])')
            => ~TooClose(records'[i].open, records'[i].close)]_deviceVars

(* Unless calls overlap or fail, a record that has both its times is not   *)
(* changed or removed by any event that follows.                           *)
CompleteIsKept ==
    [][\A i \in DOMAIN records :
         (records[i].live /\ Complete(records[i]) /\ ~callsCrossed)
            => records'[i] = records[i]]_deviceVars
=============================================================================
