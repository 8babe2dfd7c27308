---------------------------- MODULE DeviceProofs ----------------------------
(***************************************************************************)
(* Proofs about DeviceRecords, for any callers and events, however many    *)
(* records there are.                                                      *)
(***************************************************************************)
EXTENDS DeviceRecords, WellFoundedInduction, TLAPS

(* A copy of a record there is, and what a key may be looked up to be.     *)
Seen == {v \in View : v.id \in DOMAIN records}

ValueIn(key) == IF key[1] = "today" THEN SUBSET Seen ELSE Seen \cup {NoRecord}

Value == {Unknown, NoRecord} \cup View \cup SUBSET View

RecordRow == [open: Times, close: Times, updated: Nat, live: BOOLEAN,
              timed: BOOLEAN]

Writes == {"none", "insert", "beside", "update", "delete", "remove"}

Outcomes == {"none", "debounced", "duplicate", "discarded", "abandoned", "refused",
             "removed", "saved", "failed"}

DeviceCall == [pc: DevicePC, asks: DeviceCalls \cup {NoDeviceCall}, key: CacheKeys,
               value: Value, copy: View \cup {NoRecord}, id: Nat, write: Writes,
               outcome: Outcomes]

(* What a call has decided refers to a record there is.                    *)
CallOK(d) ==
    /\ d.id \in 0 .. Len(records)
    /\ d.pc \notin {"idle", "done"} => d.asks \in DeviceCalls
    /\ d.pc \in {"looking", "filling", "finding"} => d.write = "none" /\ d.id = 0
    /\ d.pc = "filling" => d.value \in ValueIn(d.key)
    /\ d.pc \in {"saving", "committing"} =>
         /\ d.copy \in View
         /\ d.write # "none"
         /\ d.write \notin Inserts => d.id \in DOMAIN records
    /\ d.pc = "committing" => d.write # "remove"

DevicesInv ==
    /\ records \in Seq(RecordRow)
    /\ recordStamp \in Nat
    /\ \A i \in DOMAIN records : records[i].updated \in 1 .. recordStamp
    /\ recordCache \in [CacheKeys -> Value]
    /\ \A key \in CacheKeys : recordCache[key] \in ValueIn(key) \cup {Unknown}
    /\ deviceCall \in [DeviceCaller -> DeviceCall]
    /\ \A c \in DeviceCaller : CallOK(deviceCall[c])
    /\ callsCrossed \in BOOLEAN

(***************************************************************************)
(* Calls that do not overlap.                                              *)
(***************************************************************************)
(* The copy of the latest record is one of a record with both its times.   *)
LatestComplete == \E i \in Live : Complete(records[i]) /\ recordCache[<<"latest">>] = Copy(i)

Current(key) ==
    InCache(key) => \/ recordCache[key] = Stored(key)
                    \/ key = <<"latest">> /\ LatestComplete

AllCurrent == \A key \in CacheKeys : Current(key)

(* What the clearing after the commit may leave.                           *)
CallCurrent(d) ==
    /\ d.pc \in {"looking", "filling", "finding"} => AllCurrent
    /\ d.pc = "filling" => d.value = Stored(d.key)
    /\ d.pc \in {"saving", "committing"} /\ d.write = "beside"
         => (InCache(<<"latest">>) => LatestComplete)
    /\ d.pc = "committing" /\ d.write # "beside" => recordCache = NoCopies
    /\ d.pc = "clearing" => Current(<<"latest">>)
    /\ d.pc \in {"saving", "committing"} /\ d.write \in {"update", "delete"}
         => ~Complete(records[d.id])

CurrentInv ==
    ~callsCrossed =>
      /\ \A c, d \in InCall : c = d
      /\ InCall = {} => AllCurrent
      /\ \A c \in DeviceCaller : CallCurrent(deviceCall[c])

(***************************************************************************)
(* Calls that do.                                                          *)
(***************************************************************************)
Apart(r) == r.close # NoTime => ~TooClose(r.open, r.close)

(* The copies of record i that a call may plan on.                         *)
Views(i) == {v \in View : /\ v.id = i
                          /\ \/ v = recordCache[<<"latest">>]
                             \/ \E c \in DeviceCaller : /\ deviceCall[c].pc = "filling"
                                                        /\ deviceCall[c].key = <<"latest">>
                                                        /\ v = deviceCall[c].value}

(* The calls about to write it.                                            *)
Writing(i) == {c \in DeviceCaller : /\ deviceCall[c].pc \in {"saving", "committing"}
                                    /\ deviceCall[c].write \in {"update", "delete"}
                                    /\ deviceCall[c].id = i}

OpenedFirst(i) ==
    /\ records[i].open # NoTime
    /\ records[i].live => Apart(records[i])
    /\ \A v \in Views(i) : v.open = records[i].open /\ Apart(v)
    /\ \A c \in Writing(i) :
         /\ deviceCall[c].copy.open = records[i].open
         /\ deviceCall[c].write = "update" => Apart(deviceCall[c].copy)

ClosedFirst(i) ==
    /\ records[i].close # NoTime
    /\ \A v \in Views(i) : v.close # NoTime
    /\ \A c \in Writing(i) : deviceCall[c].copy.close # NoTime

(* A record about to be inserted.                                          *)
WellTimed(r) == r.open # NoTime => Apart(r)

Inserting(d) == d.pc \in {"saving", "committing"} /\ d.write \in Inserts

KindInv ==
    /\ \A i \in DOMAIN records : records[i].timed => OpenedFirst(i) \/ ClosedFirst(i)
    /\ \A c \in DeviceCaller : Inserting(deviceCall[c]) => WellTimed(deviceCall[c].copy)

(* A set of times that is bounded has a greatest.                          *)
LEMMA Greatest ==
    ASSUME NEW T, T \subseteq Nat, T # {}, NEW m \in Nat, \A t \in T : t <= m
    PROVE  \E t \in T : \A s \in T : s <= t
<1> DEFINE D == {n \in Nat : m - n \in T}
           R == OpToRel(<, Nat)
<1>1. D \subseteq Nat OBVIOUS
<1>2. D # {}
  <2>1. PICK t \in T : TRUE OBVIOUS
  <2>2. m - t \in Nat /\ m - (m - t) = t BY <2>1
  <2> QED BY <2>1, <2>2
<1>3. IsWellFoundedOn(R, Nat) BY NatLessThanWellFounded
<1>4. \E x \in D : \A y \in D : ~(<<y, x>> \in R)
  <2> HIDE DEF D, R
  <2> QED BY <1>1, <1>2, <1>3, WFMin
<1>5. PICK x \in D : \A y \in D : ~(<<y, x>> \in R) BY <1>4
<1>6. ASSUME NEW s \in T PROVE s <= m - x
  <2>1. s \in Nat /\ m - s \in Nat /\ m - (m - s) = s OBVIOUS
  <2>2. m - s \in D BY <2>1
  <2>3. ~(<<m - s, x>> \in R) BY <2>2, <1>5
  <2>4. ~(m - s < x) BY <2>1, <2>3 DEF OpToRel
  <2> QED BY <2>1, <2>4
<1> QED BY <1>6

LEMMA KeyIs ==
    /\ <<"today">> \in CacheKeys /\ <<"latest">> \in CacheKeys
    /\ \A q \in DeviceCalls :
         q.op \in EventType => <<"recent", q.op, q.open, q.close>> \in CacheKeys
    /\ \A key \in CacheKeys :
         \/ key = <<"today">> /\ key[1] = "today"
         \/ key = <<"latest">> /\ key[1] = "latest"
         \/ key[1] = "recent" /\ key[2] \in EventType
<1>1. ASSUME NEW key \in CacheKeys
      PROVE  \/ key = <<"today">> /\ key[1] = "today"
             \/ key = <<"latest">> /\ key[1] = "latest"
             \/ key[1] = "recent" /\ key[2] \in EventType
  <2>1. CASE key \in {<<"today">>, <<"latest">>} BY <2>1
  <2>2. CASE \E q \in DeviceCalls : q.op \in EventType /\ key = <<"recent", q.op, q.open, q.close>>
        BY <2>2
  <2> QED BY <1>1, <2>1, <2>2 DEF CacheKeys
<1> QED BY <1>1 DEF CacheKeys

(* A call asks for what calls may ask for.                                 *)
LEMMA AskedIs == \A c \in DeviceCaller : MayAsk[c] \subseteq DeviceCalls
BY DevicesAssumption

(* A copy of a record there is, and the last of some records.              *)
LEMMA CopyIs ==
    ASSUME records \in Seq(RecordRow), NEW i \in DOMAIN records
    PROVE  /\ Copy(i) \in Seen /\ Copy(i) \in View
           /\ Copy(i).id = i
           /\ Copy(i).open = records[i].open /\ Copy(i).close = records[i].close
<1>1. records[i] \in RecordRow /\ i \in Nat OBVIOUS
<1> QED BY <1>1 DEF Copy, Seen, View, RecordRow

LEMMA LastOfIs ==
    ASSUME NEW S, S \subseteq DOMAIN records, S # {},
           NEW rank, NEW m \in Nat, \A j \in S : rank[j] \in Nat /\ rank[j] <= m
    PROVE  \E i \in S : LastOf(S, rank) = Copy(i)
<1> DEFINE T == {rank[j] : j \in S}
<1>1. \E t \in T : \A s \in T : s <= t
  <2>1. T \subseteq Nat /\ T # {} /\ \A t \in T : t <= m OBVIOUS
  <2> HIDE DEF T
  <2> QED BY <2>1, Greatest
<1>2. \E i \in S : \A j \in S : rank[j] <= rank[i] BY <1>1
<1> DEFINE i == CHOOSE i \in S : \A j \in S : rank[j] <= rank[i]
<1>3. i \in S BY <1>2
<1> QED BY <1>3 DEF LastOf

LEMMA RanksAre ==
    ASSUME DevicesInv
    PROVE  /\ Len(records) \in Nat /\ DOMAIN records = 1 .. Len(records)
           /\ \A i \in DOMAIN records : ByCreation[i] \in Nat /\ ByCreation[i] <= Len(records)
           /\ \A i \in DOMAIN records : ByUpdate[i] \in Nat /\ ByUpdate[i] <= recordStamp
BY DEF DevicesInv, ByCreation, ByUpdate

(* What the database answers.                                              *)
LEMMA StoredIs ==
    ASSUME DevicesInv, NEW key \in CacheKeys
    PROVE  /\ Stored(key) \in ValueIn(key)
           /\ key = <<"latest">> => \/ Stored(key) = NoRecord
                                    \/ \E i \in Live : Stored(key) = Copy(i)
<1>1. records \in Seq(RecordRow) /\ recordStamp \in Nat BY DEF DevicesInv
<1>2. ASSUME NEW S, S \subseteq DOMAIN records PROVE LastOf(S, ByCreation) \in Seen \cup {NoRecord}
  <2>1. CASE S = {} BY <2>1 DEF LastOf
  <2>2. CASE S # {}
    <3>1. \E i \in S : LastOf(S, ByCreation) = Copy(i) BY <1>2, <2>2, RanksAre, LastOfIs
    <3> QED BY <3>1, <1>1, <1>2, CopyIs
  <2> QED BY <2>1, <2>2
<1>3. ASSUME NEW S, S \subseteq DOMAIN records PROVE LastOf(S, ByUpdate) \in Seen \cup {NoRecord}
  <2>1. CASE S = {} BY <2>1 DEF LastOf
  <2>2. CASE S # {}
    <3>1. \E i \in S : LastOf(S, ByUpdate) = Copy(i) BY <1>1, <1>3, <2>2, RanksAre, LastOfIs
    <3> QED BY <3>1, <1>1, <1>3, CopyIs
  <2> QED BY <2>1, <2>2
<1>4. Live \subseteq DOMAIN records BY DEF Live
<1>5. CASE key = <<"today">> /\ key[1] = "today"
  <2>1. Stored(key) = {Copy(i) : i \in Live} BY <1>5 DEF Stored
  <2>2. <<"today">> # <<"latest">> OBVIOUS
  <2> QED BY <2>1, <2>2, <1>1, <1>4, <1>5, CopyIs DEF ValueIn
<1>6. CASE key = <<"latest">> /\ key[1] = "latest"
  <2>1. Stored(key) = LastOf(Live, ByCreation) BY <1>6 DEF Stored
  <2>2. CASE Live = {} BY <2>1, <2>2, <1>6 DEF LastOf, ValueIn
  <2>3. CASE Live # {}
    <3>1. \E i \in Live : LastOf(Live, ByCreation) = Copy(i) BY <1>4, <2>3, RanksAre, LastOfIs
    <3> QED BY <3>1, <2>1, <1>2, <1>4, <1>6 DEF ValueIn
  <2> QED BY <2>2, <2>3
<1>7. CASE key[1] = "recent" /\ key[2] \in EventType
  <2>1. Stored(key) = LastOf({i \in Live : Recent(records[i], key)}, ByUpdate)
        BY <1>7 DEF Stored
  <2>2. key # <<"latest">> BY <1>7
  <2>3. {i \in Live : Recent(records[i], key)} \subseteq DOMAIN records BY <1>4
  <2>4. Stored(key) \in Seen \cup {NoRecord} BY <2>1, <2>3, <1>3
  <2> QED BY <2>2, <2>4, <1>7 DEF ValueIn
<1> QED BY <1>5, <1>6, <1>7, KeyIs

(***************************************************************************)
(* What a call decides on.                                                 *)
(***************************************************************************)
(* The record as it is to be: each time is that of the copy planned on,    *)
(* if it has one, and the call's otherwise.                                *)
OpenOf(q, v)  == IF v.open = NoTime THEN q.open ELSE v.open
CloseOf(q, v) == IF v.close = NoTime THEN q.close ELSE v.close

LEMMA PlanIs ==
    ASSUME NEW q \in DeviceCalls, NEW v \in View \cup {NoRecord}
    PROVE  \/ Plan(q, v)[1] \in {"discard", "abandon", "skip"}
           \/ \E w \in Inserts, o, t \in Times :
                /\ Plan(q, v) = <<w, o, t>>
                /\ o # NoTime /\ t # NoTime => Apart([open |-> o, close |-> t])
                /\ w = "beside" => v # NoRecord /\ Complete(v)
           \/ /\ v # NoRecord /\ ~Complete(v)
              /\ \E w \in {"update", "remove"} :
                   /\ Plan(q, v) = <<w, OpenOf(q, v), CloseOf(q, v)>>
                   /\ w = "update" /\ v.close = NoTime /\ q.close # NoTime /\ OpenOf(q, v) # NoTime
                        => ~TooClose(OpenOf(q, v), q.close)
<1> USE DEF Apart
<1>1. /\ q \in [op: {"open", "close", "pair"}, open: Times, close: Times]
      /\ q.op = "open" => q.open # NoTime /\ q.close = NoTime
      BY DevicesAssumption
<1>2. NoTime \in Times BY DEF Times
<1>3. CASE v = NoRecord \/ (v # NoRecord /\ Complete(v))
  <2> DEFINE soon == q.open # NoTime /\ q.close # NoTime /\ TooClose(q.open, q.close)
             anew == IF soon THEN IF v = NoRecord THEN "discard" ELSE "abandon"
                     ELSE IF q.op = "pair" /\ v # NoRecord THEN "beside" ELSE "insert"
  <2>1. Plan(q, v) = <<anew, q.open, q.close>> BY <1>3 DEF Plan
  <2>2. CASE soon
    <3>1. anew \in {"discard", "abandon"} BY <2>2
    <3> HIDE DEF anew
    <3> QED BY <2>1, <3>1
  <2>3. CASE ~soon
    <3>1. anew \in Inserts /\ (anew = "beside" => v # NoRecord) BY <2>3 DEF Inserts
    <3>2. q.open # NoTime /\ q.close # NoTime => Apart([open |-> q.open, close |-> q.close])
          BY <2>3
    <3> HIDE DEF anew
    <3> QED BY <2>1, <3>1, <3>2, <1>1, <1>3
  <2> QED BY <2>2, <2>3
<1>4. CASE v # NoRecord /\ ~Complete(v) /\ q.op = "open" /\ v.open # NoTime
  <2>1. Plan(q, v) = <<IF q.open = v.open THEN "skip" ELSE "insert", q.open, NoTime>>
        BY <1>4 DEF Plan
  <2>2. CASE q.open = v.open BY <2>1, <2>2
  <2>3. CASE q.open # v.open
    <3>1. Plan(q, v) = <<"insert", q.open, NoTime>> BY <2>1, <2>3
    <3> QED BY <3>1, <1>1, <1>2, <1>4 DEF Inserts
  <2> QED BY <2>2, <2>3
<1>5. CASE v # NoRecord /\ ~Complete(v) /\ ~(q.op = "open" /\ v.open # NoTime)
  <2>1. Plan(q, v) = Joined(q, v) BY <1>5 DEF Plan
  <2>2. Joined(q, v) = IF v.close = NoTime /\ q.close # NoTime /\ OpenOf(q, v) # NoTime
                           /\ TooClose(OpenOf(q, v), q.close)
                       THEN <<"remove", OpenOf(q, v), CloseOf(q, v)>>
                       ELSE <<"update", OpenOf(q, v), CloseOf(q, v)>>
        BY DEF Joined, OpenOf, CloseOf
  <2> QED BY <2>1, <2>2, <1>5
<1> QED BY <1>3, <1>4, <1>5

(* A call that goes on with a value either writes nothing yet, or has       *)
(* decided, on the latest record, what to write.                           *)
MovesOn(e) ==
    /\ e \in DeviceCall
    /\ e.pc \in {"looking", "finding", "clearing", "done"}
    /\ e.write = "none" /\ e.id = 0

Decides(e, q, v) ==
    /\ e \in DeviceCall
    /\ e.pc = "saving" /\ e.copy \in View
    /\ \/ /\ e.write \in Inserts /\ e.id = 0
          /\ e.copy.open # NoTime /\ e.copy.close # NoTime => Apart(e.copy)
          /\ e.write = "beside" => v # NoRecord /\ Complete(v)
       \/ /\ v # NoRecord /\ ~Complete(v)
          /\ e.write \in {"update", "remove"}
          /\ e.id = v.id
          /\ e.copy.open = OpenOf(q, v) /\ e.copy.close = CloseOf(q, v)
          /\ e.write = "update" /\ v.close = NoTime /\ q.close # NoTime /\ OpenOf(q, v) # NoTime
               => ~TooClose(OpenOf(q, v), q.close)

(* A call that has ended.                                                  *)
LEMMA EndIs ==
    ASSUME NEW c, NEW o \in Outcomes
    PROVE  /\ End(c, o) \in DeviceCall
           /\ End(c, o).pc = "done" /\ End(c, o).write = "none" /\ End(c, o).id = 0
<1>1. Untouched \in DeviceCall /\ Untouched.write = "none" /\ Untouched.id = 0
      BY KeyIs DEF Untouched, DeviceCall, DevicePC, Value, Writes, Outcomes
<1>2. End(c, o) = [Untouched EXCEPT !.pc = "done", !.outcome = o] BY DEF End
<1> QED BY <1>1, <1>2 DEF DeviceCall, DevicePC

LEMMA ProceedIs ==
    ASSUME NEW c \in DeviceCaller, deviceCall[c] \in DeviceCall,
           deviceCall[c].asks \in DeviceCalls,
           deviceCall[c].write = "none", deviceCall[c].id = 0,
           NEW v, v \in ValueIn(deviceCall[c].key)
    PROVE  LET e == Proceed(c, v)
           IN  /\ e.pc # "done" => e.asks = deviceCall[c].asks
               /\ \/ MovesOn(e)
                  \/ deviceCall[c].key = <<"latest">> /\ Decides(e, deviceCall[c].asks, v)
<1> DEFINE d == deviceCall[c]
           q == d.asks
           plan == Plan(q, v)
           e == Proceed(c, v)
<1>1. Unknown \in Value BY DEF Value
<1>2. /\ q \in [op: {"open", "close", "pair"}, open: Times, close: Times]
      BY DevicesAssumption
<1>3. \A o \in Outcomes : MovesOn(End(c, o)) /\ End(c, o).pc = "done"
      BY EndIs DEF MovesOn
<1>4. ASSUME NEW k \in CacheKeys
      PROVE  /\ MovesOn(Look(c, k)) /\ MovesOn([Look(c, k) EXCEPT !.value = Unknown])
             /\ Look(c, k).asks = q /\ [Look(c, k) EXCEPT !.value = Unknown].asks = q
      BY <1>1 DEF Look, MovesOn, DeviceCall, DevicePC
<1>5. /\ MovesOn([d EXCEPT !.pc = "finding", !.value = Unknown])
      /\ [d EXCEPT !.pc = "finding", !.value = Unknown].asks = q
      BY <1>1 DEF MovesOn, DeviceCall, DevicePC
<1>6. /\ MovesOn([d EXCEPT !.pc = "clearing", !.outcome = "duplicate", !.value = Unknown])
      /\ [d EXCEPT !.pc = "clearing", !.outcome = "duplicate", !.value = Unknown].asks = q
      BY <1>1 DEF MovesOn, DeviceCall, DevicePC, Outcomes
<1>7. /\ MovesOn([d EXCEPT !.pc = "clearing", !.value = Unknown, !.outcome = "duplicate"])
      /\ [d EXCEPT !.pc = "clearing", !.value = Unknown, !.outcome = "duplicate"].asks = q
      BY <1>1 DEF MovesOn, DeviceCall, DevicePC, Outcomes
<1>8. /\ \A o \in {"debounced", "duplicate", "discarded", "abandoned"} : o \in Outcomes BY DEF Outcomes
<1>9. CASE d.key[1] = "recent"
  <2>1. \/ e = End(c, "debounced") \/ e = Look(c, <<"today">>)
        \/ e = [d EXCEPT !.pc = "finding", !.value = Unknown]
        BY <1>9 DEF Proceed
  <2> HIDE DEF e, q, d
  <2> QED BY <2>1, <1>3, <1>4, <1>5, <1>8, KeyIs DEF e, q, d
<1>10. CASE d.key[1] = "today"
  <2>1. \/ e = [Look(c, <<"latest">>) EXCEPT !.value = Unknown] \/ e = End(c, "duplicate")
        \/ e = [d EXCEPT !.pc = "clearing", !.outcome = "duplicate", !.value = Unknown]
        BY <1>10 DEF Proceed
  <2> HIDE DEF e, q, d
  <2> QED BY <2>1, <1>3, <1>4, <1>6, <1>8, KeyIs DEF e, q, d
<1>11. CASE d.key = <<"latest">> /\ d.key[1] = "latest"
  <2>1. v \in View \cup {NoRecord}
        BY <1>11 DEF ValueIn, Seen
  <2>2. e = IF plan[1] = "discard" THEN End(c, "discarded")
            ELSE IF plan[1] = "abandon" THEN End(c, "abandoned")
            ELSE IF plan[1] = "skip" THEN [d EXCEPT !.pc = "clearing", !.value = Unknown,
                                                    !.outcome = "duplicate"]
            ELSE [d EXCEPT !.pc = "saving", !.value = Unknown, !.write = plan[1],
                    !.id = IF plan[1] \in Inserts THEN 0 ELSE v.id,
                    !.copy = [id |-> 0, open |-> plan[2], close |-> plan[3]]]
        BY <1>11 DEF Proceed
  <2>3. CASE plan[1] \in {"discard", "abandon", "skip"}
        BY <2>2, <2>3, <1>3, <1>7, <1>8
  <2>4. CASE \E w \in Inserts, o, t \in Times :
                /\ plan = <<w, o, t>>
                /\ o # NoTime /\ t # NoTime => Apart([open |-> o, close |-> t])
                /\ w = "beside" => v # NoRecord /\ Complete(v)
    <3>1. PICK w \in Inserts, o, t \in Times :
                /\ plan = <<w, o, t>>
                /\ o # NoTime /\ t # NoTime => Apart([open |-> o, close |-> t])
                /\ w = "beside" => v # NoRecord /\ Complete(v)
          BY <2>4
    <3>2. e = [d EXCEPT !.pc = "saving", !.value = Unknown, !.write = w, !.id = 0,
                        !.copy = [id |-> 0, open |-> o, close |-> t]]
      <4>1. plan[1] = w /\ plan[2] = o /\ plan[3] = t BY <3>1
      <4>2. w \notin {"discard", "abandon", "skip"} BY DEF Inserts
      <4> HIDE DEF e, q, d, plan
      <4> QED BY <2>2, <4>1, <4>2
    <3>3. [id |-> 0, open |-> o, close |-> t] \in View BY DEF View
    <3>4. /\ e \in DeviceCall /\ e.pc = "saving" /\ e.write = w /\ e.id = 0
          /\ e.copy = [id |-> 0, open |-> o, close |-> t] /\ e.asks = q
      <4> HIDE DEF e
      <4> QED BY <3>2, <3>3, <1>1 DEF DeviceCall, DevicePC, Writes, Inserts
    <3>5. Apart([open |-> o, close |-> t]) => Apart(e.copy) BY <3>4 DEF Apart
    <3> HIDE DEF e, q, d, plan
    <3> QED BY <1>11, <3>1, <3>3, <3>4, <3>5 DEF Decides, q, d, e
  <2>5. CASE /\ v # NoRecord /\ ~Complete(v)
             /\ \E w \in {"update", "remove"} :
                   /\ plan = <<w, OpenOf(q, v), CloseOf(q, v)>>
                   /\ w = "update" /\ v.close = NoTime /\ q.close # NoTime /\ OpenOf(q, v) # NoTime
                        => ~TooClose(OpenOf(q, v), q.close)
    <3>1. PICK w \in {"update", "remove"} :
                   /\ plan = <<w, OpenOf(q, v), CloseOf(q, v)>>
                   /\ w = "update" /\ v.close = NoTime /\ q.close # NoTime /\ OpenOf(q, v) # NoTime
                        => ~TooClose(OpenOf(q, v), q.close)
          BY <2>5
    <3>2. e = [d EXCEPT !.pc = "saving", !.value = Unknown, !.write = w, !.id = v.id,
                        !.copy = [id |-> 0, open |-> OpenOf(q, v), close |-> CloseOf(q, v)]]
      <4>1. plan[1] = w /\ plan[2] = OpenOf(q, v) /\ plan[3] = CloseOf(q, v) BY <3>1
      <4>2. w \notin {"discard", "abandon", "skip"} \cup Inserts BY DEF Inserts
      <4> HIDE DEF e, q, d, plan
      <4> QED BY <2>2, <4>1, <4>2
    <3>3. v \in View BY <2>1, <2>5
    <3>4. OpenOf(q, v) \in Times /\ CloseOf(q, v) \in Times
          BY <3>3, <1>2 DEF OpenOf, CloseOf, View
    <3>5. [id |-> 0, open |-> OpenOf(q, v), close |-> CloseOf(q, v)] \in View BY <3>4 DEF View
    <3>6. v.id \in Nat BY <3>3 DEF View
    <3>7. /\ e \in DeviceCall /\ e.pc = "saving" /\ e.write = w /\ e.id = v.id
          /\ e.copy = [id |-> 0, open |-> OpenOf(q, v), close |-> CloseOf(q, v)] /\ e.asks = q
      <4> HIDE DEF e
      <4> QED BY <3>2, <3>5, <3>6, <1>1 DEF DeviceCall, DevicePC, Writes
    <3> HIDE DEF e, q, d, plan
    <3> QED BY <1>11, <2>5, <3>1, <3>5, <3>7 DEF Decides, q, d, e
  <2> HIDE DEF plan, q
  <2> QED BY <2>1, <2>3, <2>4, <2>5, PlanIs DEF plan, q
<1>12. d.key \in CacheKeys BY DEF DeviceCall
<1> QED BY <1>9, <1>10, <1>11, <1>12, KeyIs

(***************************************************************************)
(* Type correctness.                                                       *)
(***************************************************************************)
LEMMA KeysAreValues ==
    ASSUME NEW key \in CacheKeys
    PROVE  ValueIn(key) \subseteq Value
BY DEF ValueIn, Value, Seen

(* A step of one call that leaves the records alone.                       *)
LEMMA CallKeeps ==
    ASSUME DevicesInv, NEW c \in DeviceCaller, NEW e, e \in DeviceCall, CallOK(e),
           Set(c, e), UNCHANGED <<records, recordStamp>>,
           recordCache' \in [CacheKeys -> Value],
           \A key \in CacheKeys : recordCache'[key] \in ValueIn(key) \cup {Unknown},
           callsCrossed' \in BOOLEAN
    PROVE  DevicesInv'
<1>1. deviceCall \in [DeviceCaller -> DeviceCall] BY DEF DevicesInv
<1>2. deviceCall' \in [DeviceCaller -> DeviceCall] BY <1>1 DEF Set
<1>3. \A x \in DeviceCaller : CallOK(deviceCall'[x])
  <2>1. \A x \in DeviceCaller : deviceCall'[x] = IF x = c THEN e ELSE deviceCall[x]
        BY <1>1 DEF Set
  <2> QED BY <2>1 DEF DevicesInv
<1> QED BY <1>2, <1>3 DEF DevicesInv, CallOK, ValueIn, Seen

LEMMA NoCopiesOK ==
    /\ NoCopies \in [CacheKeys -> Value]
    /\ \A key \in CacheKeys : NoCopies[key] \in ValueIn(key) \cup {Unknown}
BY DEF NoCopies, Value

LEMMA InitDevicesInv == DevicesInit => DevicesInv
<1> SUFFICES ASSUME DevicesInit PROVE DevicesInv OBVIOUS
<1>1. records = <<>> /\ recordStamp = 0 BY DEF DevicesInit
<1>2. recordCache \in [CacheKeys -> Value]
      /\ \A key \in CacheKeys : recordCache[key] \in ValueIn(key) \cup {Unknown}
      BY NoCopiesOK DEF DevicesInit
<1>3. Untouched \in DeviceCall
      BY KeyIs DEF Untouched, DeviceCall, DevicePC, Value, Writes, Outcomes
<1>4. \A c \in DeviceCaller : deviceCall[c] = Untouched BY DEF DevicesInit
<1>5. deviceCall \in [DeviceCaller -> DeviceCall] BY <1>3 DEF DevicesInit
<1>6. CallOK(Untouched) BY <1>1 DEF CallOK, Untouched
<1>7. /\ records \in Seq(RecordRow) /\ recordStamp \in Nat /\ callsCrossed \in BOOLEAN
      /\ \A i \in DOMAIN records : records[i].updated \in 1 .. recordStamp
  <2>1. records \in Seq(RecordRow) BY <1>1
  <2>2. \A i \in DOMAIN records : FALSE BY <1>1
  <2>3. callsCrossed \in BOOLEAN BY DEF DevicesInit
  <2>4. recordStamp \in Nat BY <1>1
  <2> QED BY <2>1, <2>2, <2>3, <2>4
<1>8. \A c \in DeviceCaller : CallOK(deviceCall[c]) BY <1>4, <1>6
<1> QED BY <1>2, <1>5, <1>7, <1>8 DEF DevicesInv

LEMMA TakenWell ==
    ASSUME DevicesInv
    PROVE  /\ records \in Seq(RecordRow) /\ recordStamp \in Nat /\ callsCrossed \in BOOLEAN
           /\ recordCache \in [CacheKeys -> Value]
           /\ \A key \in CacheKeys : recordCache[key] \in ValueIn(key) \cup {Unknown}
           /\ \A c \in DeviceCaller : /\ deviceCall[c] \in DeviceCall
                                      /\ CallOK(deviceCall[c])
                                      /\ deviceCall[c].key \in CacheKeys
           /\ Unknown \in Value /\ Len(records) \in Nat
BY DEF DevicesInv, DeviceCall, Value

(* A call that goes on is well formed, whether it found its value in the   *)
(* cache or has read it.                                                   *)
LEMMA GoesOnWell ==
    ASSUME DevicesInv, NEW c \in DeviceCaller,
           deviceCall[c].pc \in {"looking", "filling"},
           NEW v, v \in ValueIn(deviceCall[c].key)
    PROVE  LET e == Proceed(c, v)
               f == [e EXCEPT !.value = Unknown]
           IN  /\ e \in DeviceCall /\ CallOK(e)
               /\ f \in DeviceCall /\ CallOK(f)
               /\ e.write = "update" => /\ deviceCall[c].key = <<"latest">>
                                        /\ [e.copy EXCEPT !.id = e.id] \in Seen
<1> DEFINE d == deviceCall[c]
           e == Proceed(c, v)
           f == [e EXCEPT !.value = Unknown]
<1>1. /\ d \in DeviceCall /\ d.asks \in DeviceCalls /\ d.write = "none" /\ d.id = 0
      BY TakenWell DEF CallOK
<1>2. (e.pc # "done" => e.asks = d.asks) /\ (MovesOn(e) \/ (d.key = <<"latest">> /\ Decides(e, d.asks, v)))
      BY <1>1, ProceedIs
<1>3. v \in Value
      BY TakenWell, KeysAreValues
<1>4. 0 \in 0 .. Len(records) BY TakenWell
<1>5. CASE MovesOn(e)
  <2> HIDE DEF d, e
  <2>1. e \in DeviceCall /\ (e.pc # "done" => e.asks \in DeviceCalls)
        /\ e.id = 0 /\ e.write = "none"
        /\ e.pc \in {"looking", "finding", "clearing", "done"}
        BY <1>1, <1>2, <1>5 DEF MovesOn
  <2>2. f \in DeviceCall /\ f.asks = e.asks /\ f.id = 0 /\ f.write = "none" /\ f.pc = e.pc
        BY <2>1, TakenWell DEF DeviceCall
  <2>3. CallOK(e) /\ CallOK(f)
    <3> HIDE DEF f
    <3> QED BY <2>1, <2>2, <1>4 DEF CallOK
  <2> QED BY <2>1, <2>2, <2>3 DEF d, e
<1>6. CASE d.key = <<"latest">> /\ Decides(e, d.asks, v)
  <2>0. v \in Seen \cup {NoRecord} BY <1>6 DEF ValueIn
  <2> HIDE DEF d, e
  <2>1. e \in DeviceCall /\ e.asks \in DeviceCalls /\ e.pc = "saving" /\ e.copy \in View
        /\ e.write \in Inserts \cup {"update", "remove"}
        /\ (e.write \in Inserts => e.id = 0)
        /\ (e.write \notin Inserts => v # NoRecord /\ e.id = v.id)
        BY <1>1, <1>2, <1>6 DEF Decides, Inserts
  <2>2. f \in DeviceCall /\ f.asks = e.asks /\ f.pc = e.pc /\ f.copy = e.copy
        /\ f.write = e.write /\ f.id = e.id
        BY <2>1, TakenWell DEF DeviceCall
  <2>3. e.write \notin Inserts => e.id \in DOMAIN records /\ e.id \in 0 .. Len(records)
        BY <2>0, <2>1, TakenWell DEF Seen
  <2>4. CallOK(e) /\ CallOK(f)
    <3> HIDE DEF f
    <3> QED BY <2>1, <2>2, <2>3, <1>4 DEF CallOK, Inserts
  <2>5. e.write = "update" => [e.copy EXCEPT !.id = e.id] \in Seen
        BY <2>1, <2>3, TakenWell DEF Seen, View, Inserts
  <2> QED BY <2>1, <2>2, <2>4, <2>5, <1>6 DEF d, e
<1> QED BY <1>2, <1>5, <1>6

LEMMA HitWell ==
    ASSUME DevicesInv, NEW c \in DeviceCaller, Hit(c)
    PROVE  DevicesInv'
<1> DEFINE key == deviceCall[c].key
           v == recordCache[key]
           e == Proceed(c, v)
<1>1. key \in CacheKeys /\ v \in ValueIn(key) BY TakenWell DEF Hit, InCache
<1>2. deviceCall[c].pc \in {"looking", "filling"} BY DEF Hit, AtStep
<1>3. /\ e \in DeviceCall /\ CallOK(e)
      /\ e.write = "update" => key = <<"latest">> /\ [e.copy EXCEPT !.id = e.id] \in Seen
      BY <1>1, <1>2, GoesOnWell
<1>4. Set(c, e) /\ UNCHANGED <<records, recordStamp, callsCrossed>>
      /\ recordCache' = IF e.write = "update"
                        THEN [recordCache EXCEPT ![key] = [e.copy EXCEPT !.id = e.id]]
                        ELSE recordCache
      BY DEF Hit
<1> HIDE DEF e
<1>5. /\ recordCache' \in [CacheKeys -> Value]
      /\ \A k \in CacheKeys : recordCache'[k] \in ValueIn(k) \cup {Unknown}
  <2>1. CASE e.write = "update"
    <3>1. [e.copy EXCEPT !.id = e.id] \in ValueIn(key) BY <1>3, <2>1, KeyIs DEF ValueIn
    <3>2. [e.copy EXCEPT !.id = e.id] \in Value BY <3>1, <1>1, KeysAreValues
    <3> QED BY <3>1, <3>2, <2>1, <1>4, <1>1, TakenWell
  <2>2. CASE e.write # "update" BY <2>2, <1>4, TakenWell
  <2> QED BY <2>1, <2>2
<1> QED BY <1>3, <1>4, <1>5, CallKeeps, TakenWell

LEMMA FillWell ==
    ASSUME DevicesInv, NEW c \in DeviceCaller, Fill(c)
    PROVE  DevicesInv'
<1> DEFINE key == deviceCall[c].key
           v == deviceCall[c].value
           e == [Proceed(c, v) EXCEPT !.value = Unknown]
<1>1. deviceCall[c].pc \in {"looking", "filling"} BY DEF Fill, AtStep
<1>2. key \in CacheKeys /\ v \in ValueIn(key) BY TakenWell DEF Fill, AtStep, CallOK
<1>3. e \in DeviceCall /\ CallOK(e) BY <1>1, <1>2, GoesOnWell
<1>4. v \in Value BY <1>2, KeysAreValues
<1>5. Set(c, e) /\ UNCHANGED <<records, recordStamp, callsCrossed>>
      /\ recordCache' = [recordCache EXCEPT ![key] = v]
      BY DEF Fill
<1>6. /\ recordCache' \in [CacheKeys -> Value]
      /\ \A k \in CacheKeys : recordCache'[k] \in ValueIn(k) \cup {Unknown}
      BY <1>2, <1>4, <1>5, TakenWell
<1> QED BY <1>3, <1>5, <1>6, CallKeeps, TakenWell

LEMMA BeginWell ==
    ASSUME DevicesInv, NEW c \in DeviceCaller, NEW q \in DeviceCalls, BeginDeviceCall(c, q)
    PROVE  DevicesInv'
<1> DEFINE key == IF q.op = "pair" THEN <<"today">> ELSE <<"recent", q.op, q.open, q.close>>
           e == [Untouched EXCEPT !.pc = "looking", !.asks = q, !.key = key]
<1>1. q.op \in {"open", "close", "pair"} BY DevicesAssumption
<1>2. key \in CacheKeys
  <2>1. CASE q.op = "pair" BY <2>1, KeyIs
  <2>2. CASE q.op \in EventType BY <2>2, KeyIs DEF EventType
  <2> QED BY <1>1, <2>1, <2>2 DEF EventType
<1> HIDE DEF key
<1>3. e \in DeviceCall /\ CallOK(e)
  <2>1. Untouched \in DeviceCall /\ Untouched.write = "none" /\ Untouched.id = 0
        BY KeyIs DEF Untouched, DeviceCall, DevicePC, Value, Writes, Outcomes
  <2>2. 0 \in 0 .. Len(records) BY TakenWell
  <2>3. e \in DeviceCall /\ e.pc = "looking" /\ e.asks = q /\ e.write = "none" /\ e.id = 0
        BY <2>1, <1>2 DEF DeviceCall, DevicePC
  <2> HIDE DEF e
  <2> QED BY <2>1, <2>2, <2>3 DEF CallOK
<1>4. Set(c, e) /\ UNCHANGED <<records, recordStamp, recordCache>> /\ callsCrossed' \in BOOLEAN
      BY TakenWell DEF BeginDeviceCall, key
<1> HIDE DEF e
<1> QED BY <1>3, <1>4, CallKeeps, TakenWell DEF ValueIn, Seen

LEMMA MissWell ==
    ASSUME DevicesInv, NEW c \in DeviceCaller, Miss(c)
    PROVE  DevicesInv'
<1> DEFINE d == deviceCall[c]
           v == Stored(d.key)
           e == [d EXCEPT !.pc = "filling", !.value = v]
<1>1. v \in ValueIn(d.key) /\ v \in Value BY TakenWell, StoredIs, KeysAreValues
<1>2. d \in DeviceCall /\ CallOK(d) /\ d.pc = "looking" BY TakenWell DEF Miss, AtStep
<1> HIDE DEF v
<1>3. e \in DeviceCall /\ e.pc = "filling" /\ e.value = v /\ e.id = d.id /\ e.asks = d.asks
      /\ e.write = d.write /\ e.key = d.key
      BY <1>1, <1>2 DEF DeviceCall, DevicePC
<1>4. CallOK(e)
  <2> HIDE DEF e
  <2> QED BY <1>1, <1>2, <1>3 DEF CallOK
<1>5. Set(c, e) /\ UNCHANGED <<records, recordStamp, recordCache, callsCrossed>>
      BY DEF Miss, v
<1> HIDE DEF e
<1> QED BY <1>3, <1>4, <1>5, CallKeeps, TakenWell

(* The open record that a closing event is for.                            *)
LEMMA FoundIs ==
    ASSUME DevicesInv
    PROVE  LET r == LastOf({i \in Live : OpenRow(records[i])}, ByUpdate)
           IN  r = NoRecord \/ \E i \in Live : OpenRow(records[i]) /\ r = Copy(i)
<1> DEFINE S == {i \in Live : OpenRow(records[i])}
<1>1. S \subseteq DOMAIN records BY DEF Live
<1>2. CASE S = {} BY <1>2 DEF LastOf
<1>3. CASE S # {}
  <2>1. \E i \in S : LastOf(S, ByUpdate) = Copy(i)
    <3>1. recordStamp \in Nat /\ \A j \in S : ByUpdate[j] \in Nat /\ ByUpdate[j] <= recordStamp
          BY <1>1, RanksAre, TakenWell
    <3> HIDE DEF S
    <3> QED BY <1>1, <1>3, <3>1, LastOfIs
  <2> QED BY <2>1
<1> QED BY <1>2, <1>3

(* What it decides.                                                        *)
LEMMA FindIs ==
    ASSUME DevicesInv, NEW c \in DeviceCaller, FindOpen(c)
    PROVE  /\ UNCHANGED <<records, recordStamp, recordCache, callsCrossed>>
           /\ deviceCall[c].pc = "finding"
           /\ \/ Set(c, End(c, "refused"))
              \/ \E i \in Live, w \in {"update", "delete"} :
                   /\ OpenRow(records[i])
                   /\ w = "update" => ~TooClose(records[i].open, deviceCall[c].asks.close)
                   /\ Set(c, [deviceCall[c] EXCEPT !.pc = "saving", !.id = i, !.write = w,
                                !.copy = [id |-> 0, open |-> records[i].open,
                                          close |-> deviceCall[c].asks.close]])
<1> DEFINE d == deviceCall[c]
           r == LastOf({i \in Live : OpenRow(records[i])}, ByUpdate)
<1>1. /\ UNCHANGED <<records, recordStamp, recordCache, callsCrossed>>
      /\ d.pc = "finding"
      /\ Set(c, IF r = NoRecord THEN End(c, "refused")
                ELSE [d EXCEPT !.pc = "saving", !.id = r.id,
                        !.write = IF TooClose(r.open, d.asks.close) THEN "delete" ELSE "update",
                        !.copy = [id |-> 0, open |-> r.open, close |-> d.asks.close]])
      BY DEF FindOpen, AtStep
<1>2. CASE r = NoRecord BY <1>1, <1>2
<1>3. CASE r # NoRecord
  <2>1. PICK i \in Live : OpenRow(records[i]) /\ r = Copy(i) BY <1>3, FoundIs
  <2>2. i \in DOMAIN records BY DEF Live
  <2>3. r.id = i /\ r.open = records[i].open BY <2>1, <2>2, TakenWell, CopyIs
  <2>4. PICK w \in {"update", "delete"} :
           /\ w = IF TooClose(r.open, d.asks.close) THEN "delete" ELSE "update"
           /\ w = "update" => ~TooClose(r.open, d.asks.close)
        OBVIOUS
  <2> HIDE DEF r
  <2>5. Set(c, [d EXCEPT !.pc = "saving", !.id = i, !.write = w,
                         !.copy = [id |-> 0, open |-> records[i].open, close |-> d.asks.close]])
        BY <1>1, <1>3, <2>3, <2>4
  <2> QED BY <1>1, <2>1, <2>3, <2>4, <2>5
<1> QED BY <1>2, <1>3

LEMMA EndWell ==
    ASSUME DevicesInv, NEW c \in DeviceCaller, deviceCall[c].pc # "idle", NEW o \in Outcomes
    PROVE  End(c, o) \in DeviceCall /\ CallOK(End(c, o))
<1>1. 0 \in 0 .. Len(records) BY TakenWell
<1> QED BY <1>1, EndIs DEF CallOK

LEMMA FindWell ==
    ASSUME DevicesInv, NEW c \in DeviceCaller, FindOpen(c)
    PROVE  DevicesInv'
<1> DEFINE d == deviceCall[c]
<1>1. /\ UNCHANGED <<records, recordStamp, recordCache, callsCrossed>> /\ d.pc = "finding"
      /\ d \in DeviceCall /\ CallOK(d)
      BY FindIs, TakenWell
<1>2. CASE Set(c, End(c, "refused"))
  <2>1. End(c, "refused") \in DeviceCall /\ CallOK(End(c, "refused"))
        BY <1>1, EndWell DEF Outcomes
  <2> QED BY <1>1, <1>2, <2>1, CallKeeps, TakenWell
<1>3. ASSUME NEW i \in Live, NEW w \in {"update", "delete"},
             Set(c, [d EXCEPT !.pc = "saving", !.id = i, !.write = w,
                              !.copy = [id |-> 0, open |-> records[i].open,
                                        close |-> d.asks.close]])
      PROVE  DevicesInv'
  <2> DEFINE e == [d EXCEPT !.pc = "saving", !.id = i, !.write = w,
                            !.copy = [id |-> 0, open |-> records[i].open,
                                      close |-> d.asks.close]]
  <2>1. i \in DOMAIN records /\ i \in Nat /\ i \in 0 .. Len(records) /\ records[i] \in RecordRow
        BY TakenWell DEF Live
  <2>2. d.asks \in DeviceCalls /\ d.asks.close \in Times
        BY <1>1, DevicesAssumption DEF CallOK
  <2>3. [id |-> 0, open |-> records[i].open, close |-> d.asks.close] \in View
        BY <2>1, <2>2 DEF View, RecordRow
  <2>4. e \in DeviceCall /\ e.pc = "saving" /\ e.id = i /\ e.write = w /\ e.copy \in View
        /\ e.asks = d.asks
        BY <1>1, <2>1, <2>3 DEF DeviceCall, DevicePC, Writes
  <2>5. CallOK(e)
    <3> HIDE DEF e
    <3> QED BY <2>1, <2>2, <2>4 DEF CallOK
  <2> QED BY <1>1, <1>3, <2>4, <2>5, CallKeeps, TakenWell
<1> QED BY <1>1, <1>2, <1>3, FindIs

(* The clearing may leave the copy of the latest record.                   *)
LEMMA ClearIs ==
    ASSUME DevicesInv, NEW c \in DeviceCaller, Clear(c)
    PROVE  /\ DOMAIN recordCache' = CacheKeys
           /\ recordCache' \in [CacheKeys -> Value]
           /\ \A key \in CacheKeys :
                recordCache'[key] \in IF key = <<"latest">> THEN {Unknown, recordCache[key]}
                                      ELSE {Unknown}
<1>1. PICK stays \in BOOLEAN :
         recordCache' = IF stays
                        THEN [NoCopies EXCEPT ![<<"latest">>] = recordCache[<<"latest">>]]
                        ELSE NoCopies
      BY DEF Clear
<1>2. recordCache[<<"latest">>] \in Value BY KeyIs, TakenWell
<1>3. /\ NoCopies \in [CacheKeys -> Value]
      /\ \A key \in CacheKeys : NoCopies[key] = Unknown
      BY NoCopiesOK DEF NoCopies
<1>4. CASE stays
  <2>1. recordCache' = [NoCopies EXCEPT ![<<"latest">>] = recordCache[<<"latest">>]]
        BY <1>1, <1>4
  <2> QED BY <2>1, <1>2, <1>3, KeyIs
<1>5. CASE ~stays BY <1>1, <1>3, <1>5
<1> QED BY <1>4, <1>5

LEMMA WriteWell ==
    ASSUME DevicesInv, NEW c \in DeviceCaller,
           WriteRecord(c) \/ RemoveInVain(c) \/ Clear(c) \/ FailRecord(c)
    PROVE  DevicesInv'
<1> DEFINE d == deviceCall[c]
<1>1. d \in DeviceCall /\ CallOK(d) BY TakenWell
<1>2. UNCHANGED <<records, recordStamp>> /\ callsCrossed' \in BOOLEAN
      BY TakenWell DEF WriteRecord, RemoveInVain, Clear, FailRecord
<1>3. /\ recordCache' \in [CacheKeys -> Value]
      /\ \A key \in CacheKeys : recordCache'[key] \in ValueIn(key) \cup {Unknown}
  <2>1. CASE Clear(c) BY <2>1, ClearIs, TakenWell
  <2>2. CASE ~Clear(c)
    <3>1. recordCache' = recordCache \/ recordCache' = NoCopies
          BY <2>2 DEF WriteRecord, RemoveInVain, FailRecord, Cleared
    <3> QED BY <3>1, NoCopiesOK, TakenWell
  <2> QED BY <2>1, <2>2
<1>4. CASE WriteRecord(c)
  <2> DEFINE e == [d EXCEPT !.pc = "committing"]
  <2>1. Set(c, e) /\ d.pc = "saving" /\ d.write # "remove" BY <1>4 DEF WriteRecord, AtStep, Inserts
  <2>2. e \in DeviceCall /\ e.pc = "committing" /\ e.id = d.id /\ e.asks = d.asks
        /\ e.write = d.write /\ e.copy = d.copy
        BY <1>1 DEF DeviceCall, DevicePC
  <2>3. CallOK(e)
    <3> HIDE DEF e
    <3> QED BY <1>1, <2>1, <2>2 DEF CallOK
  <2> QED BY <1>2, <1>3, <2>1, <2>2, <2>3, CallKeeps
<1>5. CASE RemoveInVain(c) \/ Clear(c) \/ FailRecord(c)
  <2>1. d.pc # "idle" /\ \E o \in Outcomes : Set(c, End(c, o))
    <3>1. CASE RemoveInVain(c) BY <3>1 DEF RemoveInVain, AtStep, Outcomes
    <3>2. CASE Clear(c)
      <4>1. d.pc # "idle" /\ (Set(c, End(c, "saved")) \/ Set(c, End(c, "duplicate")))
            BY <3>2 DEF Clear, AtStep
      <4> QED BY <4>1 DEF Outcomes
    <3>3. CASE FailRecord(c) BY <3>3 DEF FailRecord, Outcomes
    <3> QED BY <1>5, <3>1, <3>2, <3>3
  <2>2. PICK o \in Outcomes : Set(c, End(c, o)) BY <2>1
  <2>3. End(c, o) \in DeviceCall /\ CallOK(End(c, o)) BY <2>1, EndWell
  <2> QED BY <1>2, <1>3, <2>2, <2>3, CallKeeps
<1> QED BY <1>4, <1>5

(* What a record written remembers.                                        *)
MarkOf(d) == IF d.write \in Inserts THEN Timed(d.copy) ELSE records[d.id].timed

(* What a commit does to the records.                                      *)
LEMMA CommitIs ==
    ASSUME DevicesInv, NEW c \in DeviceCaller, CommitRecord(c)
    PROVE  LET d == deviceCall[c]
           IN  /\ d.pc = "committing" /\ d.copy \in View
               /\ d.write \in Inserts \cup {"update", "delete"}
               /\ UNCHANGED <<recordCache, callsCrossed>> /\ recordStamp' = recordStamp + 1
               /\ records' \in Seq(RecordRow)
               /\ DOMAIN records \subseteq DOMAIN records' /\ Len(records) <= Len(records')
               /\ \A i \in DOMAIN records' : 
                    \/ i \in DOMAIN records /\ records'[i] = records[i]
                    \/ /\ i = IF d.write \in Inserts THEN Len(records) + 1 ELSE d.id
                       /\ records'[i] = Row(d.copy, d.write # "delete", MarkOf(d))
               /\ d.write \notin Inserts => /\ d.id \in DOMAIN records
                                        /\ DOMAIN records' = DOMAIN records
                                        /\ records'[d.id] = Row(d.copy, d.write = "update", records[d.id].timed)
               /\ d.write \in Inserts => DOMAIN records' = DOMAIN records \cup {Len(records) + 1}
<1> DEFINE d == deviceCall[c]
           mark == MarkOf(d)
           row == Row(d.copy, d.write # "delete", mark)
<1>1. /\ d.pc = "committing" /\ d.copy \in View
      /\ d.write \in Inserts \cup {"update", "delete"}
      /\ d.write \notin Inserts => d.id \in DOMAIN records
      BY TakenWell DEF CommitRecord, AtStep, CallOK, DeviceCall, Writes, Inserts
<1>2. row \in RecordRow
  <2>1. mark \in BOOLEAN
    <3>1. CASE d.write \in Inserts BY <3>1 DEF MarkOf, Timed
    <3>2. CASE d.write \notin Inserts
      <4>1. records[d.id] \in RecordRow BY <3>2, <1>1, TakenWell
      <4> QED BY <3>2, <4>1 DEF MarkOf, RecordRow
    <3> QED BY <3>1, <3>2
  <2> HIDE DEF mark
  <2> QED BY <2>1, <1>1, TakenWell DEF Row, RecordRow, View
<1>3. /\ UNCHANGED <<recordCache, callsCrossed>> /\ recordStamp' = recordStamp + 1
      /\ records' = IF d.write \in Inserts THEN Append(records, Row(d.copy, TRUE, Timed(d.copy)))
                      ELSE [records EXCEPT ![d.id] =
                              Row(d.copy, d.write = "update", records[d.id].timed)]
      BY DEF CommitRecord
<1>4. records \in Seq(RecordRow) BY TakenWell
<1>5. CASE d.write \in Inserts
  <2>1. row = Row(d.copy, TRUE, Timed(d.copy))
    <3>1. (d.write # "delete") = TRUE BY <1>5 DEF Inserts
    <3>2. mark = Timed(d.copy) BY <1>5 DEF MarkOf
    <3> QED BY <3>1, <3>2
  <2>2. records' = Append(records, row) BY <2>1, <1>3, <1>5
  <2> HIDE DEF row
  <2>3. records' \in Seq(RecordRow) /\ Len(records') = Len(records) + 1
        /\ \A i \in DOMAIN records' :
             IF i = Len(records) + 1 THEN records'[i] = row
             ELSE i \in DOMAIN records /\ records'[i] = records[i]
        BY <1>2, <1>4, <2>2
  <2>4. DOMAIN records' = DOMAIN records \cup {Len(records) + 1}
        /\ Len(records) <= Len(records')
    <3>1. /\ Len(records) \in Nat /\ DOMAIN records = 1 .. Len(records)
          /\ DOMAIN records' = 1 .. Len(records) + 1
          BY <1>4, <2>3
    <3> QED BY <3>1, <2>3
  <2> QED BY <1>1, <1>3, <1>5, <2>3, <2>4 DEF row
<1>6. CASE d.write \notin Inserts
  <2>1. row = Row(d.copy, d.write = "update", records[d.id].timed)
    <3>1. (d.write # "delete") = (d.write = "update") BY <1>1, <1>6
    <3>2. mark = records[d.id].timed BY <1>6 DEF MarkOf
    <3> QED BY <3>1, <3>2
  <2>2. records' = [records EXCEPT ![d.id] = row] BY <2>1, <1>3, <1>6
  <2>3. row = Row(d.copy, d.write = "update", records[d.id].timed) BY <2>1
  <2> HIDE DEF row
  <2>4. records' \in Seq(RecordRow) /\ DOMAIN records' = DOMAIN records
        /\ Len(records') = Len(records)
        BY <1>1, <1>2, <1>4, <1>6, <2>2
  <2> QED BY <1>1, <1>3, <1>4, <1>6, <2>2, <2>3, <2>4 DEF row
<1> QED BY <1>5, <1>6

LEMMA CommitWell ==
    ASSUME DevicesInv, NEW c \in DeviceCaller, CommitRecord(c)
    PROVE  DevicesInv'
<1> DEFINE d == deviceCall[c]
           e == deviceCall'[c]
<1>1. /\ d.pc = "committing" /\ UNCHANGED <<recordCache, callsCrossed>>
      /\ recordStamp' = recordStamp + 1 /\ records' \in Seq(RecordRow)
      /\ DOMAIN records \subseteq DOMAIN records'
      BY CommitIs
<1>2. d \in DeviceCall /\ CallOK(d) BY TakenWell
<1>3. 0 .. Len(records) \subseteq 0 .. Len(records') BY CommitIs, TakenWell, <1>1
<1>4. \A i \in DOMAIN records' : records'[i].updated \in 1 .. recordStamp'
  <2>1. \A i \in DOMAIN records : records[i].updated \in 1 .. recordStamp BY DEF DevicesInv
  <2>2. \A x \in BOOLEAN : Row(d.copy, x, MarkOf(d)).updated = recordStamp + 1 BY DEF Row
  <2>3. SUFFICES ASSUME NEW i \in DOMAIN records' PROVE records'[i].updated \in 1 .. recordStamp'
        OBVIOUS
  <2>4. CASE i \in DOMAIN records /\ records'[i] = records[i]
    <3>1. records'[i].updated \in 1 .. recordStamp BY <2>1, <2>4
    <3> QED BY <3>1, <1>1, TakenWell
  <2>5. CASE records'[i] = Row(d.copy, d.write # "delete", MarkOf(d))
    <3>1. (d.write # "delete") \in BOOLEAN OBVIOUS
    <3>2. records'[i].updated = recordStamp + 1 BY <2>2, <2>5, <3>1
    <3> QED BY <3>2, <1>1, TakenWell
  <2> QED BY <2>4, <2>5, CommitIs
<1>5. \A key \in CacheKeys : ValueIn(key) \subseteq ValueIn(key)'
      BY <1>1 DEF ValueIn, Seen
<1>6. /\ deviceCall' \in [DeviceCaller -> DeviceCall]
      /\ e \in DeviceCall /\ e.pc \in {"clearing", "done"} /\ e.id \in {d.id, 0}
      /\ e.pc = "clearing" => e.asks = d.asks
      /\ \A x \in DeviceCaller \ {c} : deviceCall'[x] = deviceCall[x]
  <2>1. \E f \in DeviceCall : /\ deviceCall' = [deviceCall EXCEPT ![c] = f]
                              /\ f.pc \in {"clearing", "done"} /\ f.id \in {d.id, 0}
                              /\ f.pc = "clearing" => f.asks = d.asks
    <3>1. End(c, "removed") \in DeviceCall /\ End(c, "removed").pc = "done"
          /\ End(c, "removed").id = 0
          BY EndIs DEF Outcomes
    <3>2. [d EXCEPT !.pc = "clearing"] \in DeviceCall
          BY <1>2 DEF DeviceCall, DevicePC
    <3>3. [d EXCEPT !.pc = "clearing"].pc = "clearing"
          /\ [d EXCEPT !.pc = "clearing"].asks = d.asks /\ [d EXCEPT !.pc = "clearing"].id = d.id
          BY <1>2 DEF DeviceCall
    <3>4. CASE d.write = "delete" BY <3>1, <3>4 DEF CommitRecord, Set
    <3>5. CASE d.write # "delete" BY <3>2, <3>3, <3>5 DEF CommitRecord, Set
    <3> QED BY <3>4, <3>5
  <2>2. deviceCall \in [DeviceCaller -> DeviceCall] BY DEF DevicesInv
  <2> QED BY <2>1, <2>2
<1>7. \A x \in DeviceCaller : CallOK(deviceCall[x])'
  <2>1. CallOK(deviceCall[c])'
    <3>1. 0 \in 0 .. Len(records) BY TakenWell
    <3>2. e.id \in 0 .. Len(records') BY <3>1, <1>2, <1>3, <1>6 DEF CallOK
    <3> QED BY <3>2, <1>1, <1>2, <1>6 DEF CallOK
  <2>2. ASSUME NEW x \in DeviceCaller \ {c} PROVE CallOK(deviceCall[x])'
    <3>1. CallOK(deviceCall[x]) /\ deviceCall'[x] = deviceCall[x]
          /\ deviceCall[x].key \in CacheKeys
          BY <1>6, TakenWell
    <3> QED BY <3>1, <1>1, <1>3, <1>5 DEF CallOK
  <2> QED BY <2>1, <2>2
<1>8. /\ recordCache' \in [CacheKeys -> Value]
      /\ \A key \in CacheKeys : recordCache'[key] \in ValueIn(key)' \cup {Unknown}
      BY <1>1, <1>5, TakenWell
<1> QED BY <1>1, <1>4, <1>6, <1>7, <1>8, TakenWell DEF DevicesInv

LEMMA ExpireWell ==
    ASSUME DevicesInv, NEW key \in CacheKeys, Expire(key)
    PROVE  DevicesInv'
<1>1. /\ UNCHANGED <<records, recordStamp, deviceCall, callsCrossed>>
      /\ recordCache' = [recordCache EXCEPT ![key] = Unknown]
      BY DEF Expire
<1>2. recordCache' \in [CacheKeys -> Value]
      /\ \A k \in CacheKeys : recordCache'[k] \in ValueIn(k) \cup {Unknown}
      BY <1>1, TakenWell
<1> QED BY <1>1, <1>2 DEF DevicesInv, CallOK, ValueIn, Seen

LEMMA DevicesKeep ==
    ASSUME DevicesInv, [DevicesNext]_deviceVars
    PROVE  DevicesInv'
<1>1. ASSUME NEW c \in DeviceCaller, DeviceStep(c) PROVE DevicesInv'
      BY <1>1, AskedIs, BeginWell, HitWell, MissWell, FillWell, FindWell, WriteWell, CommitWell
      DEF DeviceStep
<1>2. ASSUME NEW key \in CacheKeys, Expire(key) PROVE DevicesInv' BY <1>2, ExpireWell
<1>3. CASE UNCHANGED deviceVars BY <1>3 DEF deviceVars, DevicesInv, CallOK, ValueIn, Seen
<1> QED BY <1>1, <1>2, <1>3 DEF DevicesNext

(* Rows, copies and calls are what they should be, and no call refers to a *)
(* record there is not.                                                    *)
THEOREM DevicesInductive == DevicesSpec => []DevicesInv
BY InitDevicesInv, DevicesKeep, PTL DEF DevicesSpec

(* In particular every variable has its type.                              *)
THEOREM DevicesTyping == DevicesSpec => []DevicesTypeOK
<1>1. DevicesInv => DevicesTypeOK
  <2> SUFFICES ASSUME DevicesInv PROVE DevicesTypeOK OBVIOUS
  <2>1. \A i \in DOMAIN records : records[i] \in RecordRow BY TakenWell
  <2>2. DOMAIN recordCache = CacheKeys BY TakenWell
  <2>3. ASSUME NEW c \in DeviceCaller
        PROVE  /\ deviceCall[c].pc \in DevicePC
               /\ deviceCall[c].asks \in DeviceCalls \cup {NoDeviceCall}
               /\ deviceCall[c].id \in 0 .. Len(records)
        BY TakenWell DEF DeviceCall, CallOK
  <2> QED BY <2>1, <2>2, <2>3 DEF DevicesTypeOK, DevicesInv, RecordRow
<1> QED BY <1>1, DevicesInductive, PTL

(***************************************************************************)
(* Calls that follow each other.                                           *)
(***************************************************************************)
LEMMA InitCurrent == DevicesInit => CurrentInv
<1> SUFFICES ASSUME DevicesInit PROVE CurrentInv OBVIOUS
<1>1. \A c \in DeviceCaller : deviceCall[c].pc = "idle" BY DEF DevicesInit, Untouched
<1>2. AllCurrent
  <2>1. \A key \in CacheKeys : recordCache[key] = Unknown BY DEF DevicesInit, NoCopies
  <2> QED BY <2>1 DEF AllCurrent, Current, InCache
<1> QED BY <1>1, <1>2 DEF CurrentInv, CallCurrent, InCall

LEMMA NothingCached ==
    ASSUME recordCache' = NoCopies
    PROVE  AllCurrent' /\ ~InCache(<<"latest">>)'
BY KeyIs DEF AllCurrent, Current, InCache, NoCopies

LEMMA StoredKept ==
    ASSUME UNCHANGED records, NEW key
    PROVE  Stored(key)' = Stored(key)
BY DEF Stored, LastOf, Live, Copy, ByCreation, ByUpdate

LEMMA LiveKept ==
    ASSUME UNCHANGED records
    PROVE  /\ Live' = Live
           /\ \A i \in Live : /\ Complete(records[i])' = Complete(records[i])
                              /\ Copy(i)' = Copy(i)
BY DEF Live, Complete, Copy

(* Copies that are kept or dropped are no staler than they were.           *)
LEMMA KeyKept ==
    ASSUME UNCHANGED records, NEW key, recordCache'[key] \in {recordCache[key], Unknown},
           Current(key)
    PROVE  /\ Current(key)'
           /\ key = <<"latest">> /\ (InCache(key) => LatestComplete)
                => (InCache(key) => LatestComplete)'
<1>1. InCache(key)' => InCache(key) /\ recordCache'[key] = recordCache[key] BY DEF InCache
<1>2. key = <<"latest">> /\ LatestComplete /\ InCache(key)' => LatestComplete'
      BY <1>1, LiveKept DEF LatestComplete
<1> QED BY <1>1, <1>2, StoredKept DEF Current

LatestIsKept ==
    /\ Current(<<"latest">>) => Current(<<"latest">>)'
    /\ (InCache(<<"latest">>) => LatestComplete) => (InCache(<<"latest">>) => LatestComplete)'

LEMMA LatestKept ==
    ASSUME UNCHANGED records,
           recordCache'[<<"latest">>] \in {recordCache[<<"latest">>], Unknown}
    PROVE  LatestIsKept
BY KeyKept DEF LatestIsKept, Current

LEMMA CurrentKept ==
    ASSUME UNCHANGED <<records, recordCache>>, AllCurrent
    PROVE  AllCurrent'
<1>1. CacheKeys' = CacheKeys BY DEF CacheKeys
<1>2. ASSUME NEW key \in CacheKeys PROVE Current(key)' BY <1>2, KeyKept DEF AllCurrent
<1> QED BY <1>1, <1>2 DEF AllCurrent

(* A step of a call that is alone.                                         *)
LEMMA AloneKeeps ==
    ASSUME DevicesInv, CurrentInv, NEW c \in DeviceCaller, c \in InCall, ~callsCrossed,
           \A x \in DeviceCaller \ {c} : deviceCall'[x] = deviceCall[x],
           (deviceCall[c].pc \in {"idle", "done"} => AllCurrent)',
           CallCurrent(deviceCall[c])'
    PROVE  CurrentInv'
<1>1. \A x \in DeviceCaller \ {c} : deviceCall[x].pc \in {"idle", "done"}
      BY DEF CurrentInv, InCall
<1>2. \A x \in DeviceCaller \ {c} : CallCurrent(deviceCall[x])'
      BY <1>1 DEF CallCurrent
<1>3. InCall' \subseteq {c} BY <1>1 DEF InCall
<1>4. (InCall = {} => AllCurrent)'
  <2>1. SUFFICES ASSUME InCall' = {} PROVE AllCurrent' OBVIOUS
  <2>2. deviceCall'[c].pc \in {"idle", "done"} BY <2>1 DEF InCall
  <2> QED BY <2>2
<1> QED BY <1>2, <1>3, <1>4 DEF CurrentInv

LEMMA SetIs ==
    ASSUME DevicesInv, NEW c \in DeviceCaller, NEW e, Set(c, e)
    PROVE  deviceCall'[c] = e /\ \A x \in DeviceCaller \ {c} : deviceCall'[x] = deviceCall[x]
BY DEF Set, DevicesInv

LEMMA HitCurrent ==
    ASSUME DevicesInv, CurrentInv, NEW c \in DeviceCaller, Hit(c), ~callsCrossed
    PROVE  CurrentInv'
<1> DEFINE key == deviceCall[c].key
           v == recordCache[key]
           q == deviceCall[c].asks
           e == Proceed(c, v)
<1>1. /\ deviceCall[c].pc = "looking" /\ InCache(key) /\ Set(c, e) /\ UNCHANGED records
      /\ recordCache' = IF e.write = "update"
                        THEN [recordCache EXCEPT ![key] = [e.copy EXCEPT !.id = e.id]]
                        ELSE recordCache
      BY DEF Hit, AtStep
<1>2. key \in CacheKeys /\ v \in ValueIn(key) BY <1>1, TakenWell DEF InCache
<1>3. AllCurrent /\ (v = Stored(key) \/ (key = <<"latest">> /\ LatestComplete))
  <2>1. AllCurrent BY <1>1 DEF CurrentInv, CallCurrent
  <2> QED BY <1>1, <1>2, <2>1 DEF AllCurrent, Current
<1>4. /\ deviceCall[c] \in DeviceCall /\ q \in DeviceCalls
      /\ deviceCall[c].write = "none" /\ deviceCall[c].id = 0
      BY <1>1, TakenWell DEF CallOK
<1>5. MovesOn(e) \/ (key = <<"latest">> /\ Decides(e, q, v)) BY <1>2, <1>4, ProceedIs
<1>6. c \in InCall BY <1>1 DEF InCall
<1>7. deviceCall'[c] = e /\ \A x \in DeviceCaller \ {c} : deviceCall'[x] = deviceCall[x]
      BY <1>1, SetIs
<1> HIDE DEF e
<1>8. CASE MovesOn(e)
  <2>1. recordCache' = recordCache BY <1>1, <1>8 DEF MovesOn
  <2>2. AllCurrent' BY <2>1, <1>1, <1>3, CurrentKept
  <2>3. CallCurrent(deviceCall[c])'
        BY <2>2, <1>7, <1>8, KeyIs DEF CallCurrent, MovesOn, AllCurrent
  <2> QED BY <1>6, <1>7, <2>2, <2>3, AloneKeeps
<1>9. CASE key = <<"latest">> /\ Decides(e, q, v)
  <2>1. e.write \in {"update", "delete"} => ~Complete(records[e.id])
    <3>1. SUFFICES ASSUME e.write \in {"update", "delete"} PROVE ~Complete(records[e.id]) OBVIOUS
    <3>2. v # NoRecord /\ ~Complete(v) /\ e.id = v.id BY <3>1, <1>9 DEF Decides, Inserts
    <3>3. PICK i \in Live : v = Copy(i)
          BY <3>2, <1>2, <1>3, <1>9, StoredIs DEF LatestComplete
    <3>4. i \in DOMAIN records BY DEF Live
    <3> QED BY <3>2, <3>3, <3>4, TakenWell, CopyIs DEF Complete
  <2>4. e.write = "beside" => LatestComplete'
    <3>1. SUFFICES ASSUME e.write = "beside" PROVE LatestComplete' OBVIOUS
    <3>2. v # NoRecord /\ Complete(v) BY <3>1, <1>9 DEF Decides
    <3>3. PICK i \in Live : v = Copy(i)
          BY <3>2, <1>2, <1>3, <1>9, StoredIs DEF LatestComplete
    <3>4. i \in DOMAIN records BY DEF Live
    <3>5. Complete(records[i]) BY <3>2, <3>3, <3>4, TakenWell, CopyIs DEF Complete
    <3>6. recordCache' = recordCache BY <1>1, <3>1
    <3> QED BY <1>1, <1>9, <3>3, <3>5, <3>6, LiveKept DEF LatestComplete
  <2>2. CallCurrent(deviceCall[c])'
        BY <2>1, <2>4, <1>1, <1>7, <1>9 DEF CallCurrent, Decides, Complete
  <2>3. deviceCall'[c].pc \notin {"idle", "done"} BY <1>7, <1>9 DEF Decides
  <2> QED BY <1>6, <1>7, <2>2, <2>3, AloneKeeps
<1> QED BY <1>5, <1>8, <1>9

LEMMA FillCurrent ==
    ASSUME DevicesInv, CurrentInv, NEW c \in DeviceCaller, Fill(c), ~callsCrossed
    PROVE  CurrentInv'
<1> DEFINE key == deviceCall[c].key
           v == deviceCall[c].value
           q == deviceCall[c].asks
           g == Proceed(c, v)
           e == [g EXCEPT !.value = Unknown]
<1>1. /\ deviceCall[c].pc = "filling" /\ Set(c, e) /\ UNCHANGED records
      /\ recordCache' = [recordCache EXCEPT ![key] = v]
      BY DEF Fill, AtStep
<1>2. key \in CacheKeys /\ v \in ValueIn(key) BY <1>1, TakenWell DEF CallOK
<1>3. AllCurrent /\ v = Stored(key) BY <1>1 DEF CurrentInv, CallCurrent
<1>4. /\ deviceCall[c] \in DeviceCall /\ q \in DeviceCalls
      /\ deviceCall[c].write = "none" /\ deviceCall[c].id = 0
      BY <1>1, TakenWell DEF CallOK
<1>5. MovesOn(g) \/ (key = <<"latest">> /\ Decides(g, q, v)) BY <1>2, <1>4, ProceedIs
<1>6. c \in InCall BY <1>1 DEF InCall
<1>7. deviceCall'[c] = e /\ \A x \in DeviceCaller \ {c} : deviceCall'[x] = deviceCall[x]
      BY <1>1, SetIs
<1>8. AllCurrent'
  <2>1. SUFFICES ASSUME NEW k \in CacheKeys PROVE Current(k)'
    <3>1. CacheKeys' = CacheKeys BY DEF CacheKeys
    <3> QED BY <3>1 DEF AllCurrent
  <2>2. CASE k = key
    <3>1. recordCache'[k] = Stored(k) BY <2>2, <1>1, <1>2, <1>3, TakenWell
    <3> QED BY <3>1, <1>1, StoredKept DEF Current
  <2>3. CASE k # key
    <3>1. recordCache'[k] = recordCache[k] BY <2>3, <1>1, TakenWell
    <3> QED BY <3>1, <1>1, <1>3, KeyKept DEF AllCurrent
  <2> QED BY <2>2, <2>3
<1>9. g \in DeviceCall BY <1>5 DEF MovesOn, Decides
<1>10. e.pc = g.pc /\ e.write = g.write /\ e.id = g.id
  <2> HIDE DEF g
  <2> QED BY <1>9 DEF DeviceCall
<1> HIDE DEF g, e
<1>11. CASE MovesOn(g)
  <2>1. CallCurrent(deviceCall[c])'
        BY <1>7, <1>8, <1>10, <1>11, KeyIs DEF CallCurrent, MovesOn, AllCurrent
  <2> QED BY <1>6, <1>7, <1>8, <2>1, AloneKeeps
<1>12. CASE key = <<"latest">> /\ Decides(g, q, v)
  <2>1. g.write \in {"update", "delete"} => ~Complete(records[g.id])
    <3>1. SUFFICES ASSUME g.write \in {"update", "delete"} PROVE ~Complete(records[g.id]) OBVIOUS
    <3>2. v # NoRecord /\ ~Complete(v) /\ g.id = v.id BY <3>1, <1>12 DEF Decides, Inserts
    <3>3. PICK i \in Live : v = Copy(i) BY <3>2, <1>2, <1>3, <1>12, StoredIs
    <3>4. i \in DOMAIN records BY DEF Live
    <3> QED BY <3>2, <3>3, <3>4, TakenWell, CopyIs DEF Complete
  <2>3. g.write = "beside" => LatestComplete'
    <3>1. SUFFICES ASSUME g.write = "beside" PROVE LatestComplete' OBVIOUS
    <3>2. v # NoRecord /\ Complete(v) BY <3>1, <1>12 DEF Decides
    <3>3. PICK i \in Live : v = Copy(i) BY <3>2, <1>2, <1>3, <1>12, StoredIs
    <3>4. i \in DOMAIN records BY DEF Live
    <3>5. Complete(records[i]) BY <3>2, <3>3, <3>4, TakenWell, CopyIs DEF Complete
    <3>6. recordCache'[<<"latest">>] = v BY <1>1, <1>2, <1>12, TakenWell
    <3> QED BY <1>1, <3>3, <3>5, <3>6, LiveKept DEF LatestComplete
  <2>2. CallCurrent(deviceCall[c])'
        BY <2>1, <2>3, <1>1, <1>7, <1>8, <1>10, <1>12 DEF CallCurrent, Decides, Complete
  <2> QED BY <1>6, <1>7, <1>8, <2>2, AloneKeeps
<1> QED BY <1>5, <1>11, <1>12

LEMMA FindCurrent ==
    ASSUME DevicesInv, CurrentInv, NEW c \in DeviceCaller, FindOpen(c), ~callsCrossed
    PROVE  CurrentInv'
<1> DEFINE d == deviceCall[c]
<1>1. /\ UNCHANGED <<records, recordCache>> /\ d.pc = "finding" /\ d \in DeviceCall
      BY FindIs, TakenWell
<1>2. AllCurrent' BY <1>1, CurrentKept DEF CurrentInv, CallCurrent
<1>3. c \in InCall BY <1>1 DEF InCall
<1>4. CASE Set(c, End(c, "refused"))
  <2>1. End(c, "refused").pc = "done" BY DEF End, Untouched
  <2>2. /\ deviceCall'[c].pc = "done"
        /\ \A x \in DeviceCaller \ {c} : deviceCall'[x] = deviceCall[x]
        BY <1>4, <2>1, SetIs
  <2>3. CallCurrent(deviceCall[c])' BY <2>2 DEF CallCurrent
  <2> QED BY <1>2, <1>3, <2>2, <2>3, AloneKeeps
<1>5. ASSUME NEW i \in Live, NEW w \in {"update", "delete"}, OpenRow(records[i]),
             Set(c, [d EXCEPT !.pc = "saving", !.id = i, !.write = w,
                              !.copy = [id |-> 0, open |-> records[i].open,
                                        close |-> d.asks.close]])
      PROVE  CurrentInv'
  <2>1. /\ deviceCall'[c].pc = "saving" /\ deviceCall'[c].id = i /\ deviceCall'[c].write = w
        /\ \A x \in DeviceCaller \ {c} : deviceCall'[x] = deviceCall[x]
    <3> DEFINE e == [d EXCEPT !.pc = "saving", !.id = i, !.write = w,
                              !.copy = [id |-> 0, open |-> records[i].open,
                                        close |-> d.asks.close]]
    <3>1. e.pc = "saving" /\ e.id = i /\ e.write = w BY <1>1 DEF DeviceCall
    <3>2. Set(c, e) BY <1>5
    <3> HIDE DEF e
    <3> QED BY <3>1, <3>2, SetIs
  <2>2. CallCurrent(deviceCall[c])'
        BY <2>1, <1>1, <1>5 DEF CallCurrent, Complete, OpenRow
  <2> QED BY <1>2, <1>3, <2>1, <2>2, AloneKeeps
<1> QED BY <1>4, <1>5, FindIs

LEMMA OtherCurrent ==
    ASSUME DevicesInv, CurrentInv, NEW c \in DeviceCaller,
           Miss(c) \/ WriteRecord(c) \/ RemoveInVain(c) \/ CommitRecord(c) \/ Clear(c),
           ~callsCrossed
    PROVE  CurrentInv'
<1> DEFINE d == deviceCall[c]
<1>1. d \in DeviceCall /\ CallCurrent(d) BY TakenWell DEF CurrentInv
<1>2. c \in InCall
      BY DEF InCall, Miss, WriteRecord, RemoveInVain, CommitRecord, Clear, AtStep
<1>3. CASE Miss(c)
  <2>1. /\ d.pc = "looking" /\ UNCHANGED <<records, recordCache>>
        /\ Set(c, [d EXCEPT !.pc = "filling", !.value = Stored(d.key)])
        BY <1>3 DEF Miss, AtStep
  <2>2. /\ deviceCall'[c].pc = "filling" /\ deviceCall'[c].key = d.key
        /\ deviceCall'[c].value = Stored(d.key)
        /\ \A x \in DeviceCaller \ {c} : deviceCall'[x] = deviceCall[x]
    <3> DEFINE v == Stored(d.key)
               e == [d EXCEPT !.pc = "filling", !.value = v]
    <3>1. Set(c, e) BY <2>1
    <3> HIDE DEF v
    <3>2. e.pc = "filling" /\ e.key = d.key /\ e.value = v BY <1>1 DEF DeviceCall
    <3> HIDE DEF e
    <3> QED BY <3>1, <3>2, SetIs DEF v
  <2>3. AllCurrent' BY <1>1, <2>1, CurrentKept DEF CallCurrent
  <2>4. Stored(deviceCall[c].key)' = Stored(d.key)
        BY <2>1, <2>2 DEF Stored, LastOf, Live, Copy, ByCreation, ByUpdate
  <2>5. CallCurrent(deviceCall[c])' BY <2>2, <2>3, <2>4 DEF CallCurrent
  <2> QED BY <1>2, <2>2, <2>3, <2>5, AloneKeeps
<1>4. CASE WriteRecord(c)
  <2>1. /\ d.pc = "saving" /\ UNCHANGED records /\ recordCache' = Cleared(c)
        /\ Set(c, [d EXCEPT !.pc = "committing"])
        BY <1>4 DEF WriteRecord, AtStep
  <2>2. /\ deviceCall'[c].pc = "committing" /\ deviceCall'[c].write = d.write
        /\ deviceCall'[c].id = d.id
        /\ \A x \in DeviceCaller \ {c} : deviceCall'[x] = deviceCall[x]
        BY <1>1, <2>1, SetIs DEF DeviceCall
  <2>3. IF d.write = "beside" THEN UNCHANGED recordCache ELSE recordCache' = NoCopies
        BY <2>1 DEF Cleared
  <2>4. NoCopies' = NoCopies BY DEF NoCopies, CacheKeys
  <2>6. d.write = "beside" => (InCache(<<"latest">>) => LatestComplete)'
    <3>1. SUFFICES ASSUME d.write = "beside", InCache(<<"latest">>)' PROVE LatestComplete'
          OBVIOUS
    <3>2. recordCache' = recordCache /\ InCache(<<"latest">>) BY <2>3, <3>1 DEF InCache
    <3>3. LatestComplete BY <1>1, <2>1, <3>1, <3>2 DEF CallCurrent
    <3> QED BY <2>1, <3>2, <3>3, LiveKept DEF LatestComplete
  <2>5. CallCurrent(deviceCall[c])'
        BY <1>1, <2>1, <2>2, <2>3, <2>4, <2>6 DEF CallCurrent, Complete
  <2> QED BY <1>2, <2>2, <2>5, AloneKeeps
<1>5. CASE RemoveInVain(c) \/ Clear(c)
  <2>1. UNCHANGED records /\ \E o : Set(c, End(c, o)) BY <1>5 DEF RemoveInVain, Clear
  <2>2. AllCurrent'
    <3>1. CASE RemoveInVain(c) BY <3>1, NothingCached DEF RemoveInVain
    <3>2. CASE Clear(c)
      <4>1. d.pc = "clearing" BY <3>2 DEF Clear, AtStep
      <4>2. Current(<<"latest">>)'
        <5>1. Current(<<"latest">>) BY <1>1, <4>1 DEF CallCurrent
        <5>2. recordCache'[<<"latest">>] \in {recordCache[<<"latest">>], Unknown}
              BY <3>2, ClearIs, KeyIs
        <5> QED BY <2>1, <5>1, <5>2, LatestKept DEF LatestIsKept
      <4>3. ASSUME NEW k \in CacheKeys PROVE Current(k)'
        <5>1. CASE k = <<"latest">> BY <4>2, <5>1
        <5>2. CASE k # <<"latest">>
          <6>1. recordCache'[k] = Unknown BY <3>2, <5>2, ClearIs
          <6> QED BY <6>1 DEF Current, InCache
        <5> QED BY <5>1, <5>2
      <4>4. CacheKeys' = CacheKeys BY DEF CacheKeys
      <4> QED BY <4>3, <4>4 DEF AllCurrent
    <3> QED BY <1>5, <3>1, <3>2
  <2>3. /\ deviceCall'[c].pc = "done"
        /\ \A x \in DeviceCaller \ {c} : deviceCall'[x] = deviceCall[x]
    <3>1. PICK o : Set(c, End(c, o)) BY <2>1
    <3>2. End(c, o).pc = "done" BY DEF End, Untouched
    <3> QED BY <3>1, <3>2, SetIs
  <2>4. CallCurrent(deviceCall[c])' BY <2>3 DEF CallCurrent
  <2> QED BY <1>2, <2>2, <2>3, <2>4, AloneKeeps
<1>6. CASE CommitRecord(c)
  <2>1. /\ d.pc = "committing" /\ UNCHANGED recordCache
        /\ Set(c, IF d.write = "delete" THEN End(c, "removed") ELSE [d EXCEPT !.pc = "clearing"])
        BY <1>6 DEF CommitRecord, AtStep
  <2>2. \A x \in DeviceCaller \ {c} : deviceCall'[x] = deviceCall[x] BY <2>1, SetIs
  <2>3. CASE d.write = "delete"
    <3>1. recordCache' = NoCopies BY <1>1, <2>1, <2>3 DEF CallCurrent
    <3>2. AllCurrent' BY <3>1, NothingCached
    <3>3. End(c, "removed").pc = "done" BY DEF End, Untouched
    <3>4. deviceCall'[c].pc = "done" BY <2>1, <2>3, <3>3, SetIs
    <3> QED BY <1>2, <2>2, <3>2, <3>4, AloneKeeps DEF CallCurrent
  <2>4. CASE d.write # "delete"
    <3>1. deviceCall'[c].pc = "clearing" BY <1>1, <2>1, <2>4, SetIs DEF DeviceCall
    <3>2. Current(<<"latest">>)'
      <4>1. CASE d.write # "beside"
        <5>1. recordCache' = NoCopies BY <1>1, <2>1, <4>1 DEF CallCurrent
        <5> QED BY <5>1, NothingCached DEF Current
      <4>2. CASE d.write = "beside"
        <5>1. SUFFICES ASSUME InCache(<<"latest">>)' PROVE LatestComplete' BY DEF Current
        <5>2. PICK i \in Live : Complete(records[i]) /\ recordCache[<<"latest">>] = Copy(i)
              BY <1>1, <2>1, <4>2, <5>1 DEF CallCurrent, InCache, LatestComplete
        <5>3. i \in DOMAIN records' /\ records'[i] = records[i]
          <6>1. i \in DOMAIN records BY DEF Live
          <6>2. i # Len(records) + 1 /\ i \in DOMAIN records'
                BY <1>6, <6>1, CommitIs, TakenWell
          <6> QED BY <1>6, <4>2, <6>2, CommitIs DEF Inserts
        <5>4. i \in Live' /\ Complete(records[i])' /\ Copy(i)' = Copy(i)
              BY <5>2, <5>3 DEF Live, Complete, Copy
        <5> QED BY <2>1, <5>2, <5>4 DEF LatestComplete
      <4> QED BY <4>1, <4>2
    <3> QED BY <1>2, <2>2, <3>1, <3>2, AloneKeeps DEF CallCurrent
  <2> QED BY <2>3, <2>4
<1> QED BY <1>3, <1>4, <1>5, <1>6

LEMMA CurrentKeeps ==
    ASSUME DevicesInv, CurrentInv, [DevicesNext]_deviceVars
    PROVE  CurrentInv'
<1>1. SUFFICES ASSUME ~callsCrossed' PROVE CurrentInv' BY DEF CurrentInv
<1>2. ASSUME NEW c \in DeviceCaller, NEW q \in DeviceCalls, BeginDeviceCall(c, q)
      PROVE  CurrentInv'
  <2>1. /\ UNCHANGED <<records, recordCache>> /\ ~callsCrossed /\ InCall = {}
        /\ Set(c, [Untouched EXCEPT !.pc = "looking", !.asks = q,
                 !.key = IF q.op = "pair" THEN <<"today">>
                         ELSE <<"recent", q.op, q.open, q.close>>])
        BY <1>1, <1>2 DEF BeginDeviceCall
  <2>2. AllCurrent' BY <2>1, CurrentKept DEF CurrentInv
  <2>3. /\ deviceCall'[c].pc = "looking"
        /\ \A x \in DeviceCaller \ {c} : deviceCall'[x] = deviceCall[x]
    <3> DEFINE e == [Untouched EXCEPT !.pc = "looking", !.asks = q,
                       !.key = IF q.op = "pair" THEN <<"today">>
                               ELSE <<"recent", q.op, q.open, q.close>>]
    <3>1. e.pc = "looking" BY DEF Untouched
    <3>2. Set(c, e) BY <2>1
    <3> HIDE DEF e
    <3> QED BY <3>1, <3>2, SetIs
  <2>4. \A x \in DeviceCaller \ {c} : deviceCall'[x].pc \in {"idle", "done"}
        BY <2>1, <2>3 DEF InCall
  <2>5. CallCurrent(deviceCall[c])' BY <2>2, <2>3 DEF CallCurrent
  <2>6. \A x \in DeviceCaller \ {c} : CallCurrent(deviceCall[x])' BY <2>4 DEF CallCurrent
  <2>7. \A x, y \in InCall' : x = y BY <2>4 DEF InCall
  <2> QED BY <2>2, <2>5, <2>6, <2>7 DEF CurrentInv
<1>3. ASSUME NEW c \in DeviceCaller, DeviceStep(c), \A q \in DeviceCalls : ~BeginDeviceCall(c, q)
      PROVE  CurrentInv'
  <2>1. ~FailRecord(c) BY <1>1 DEF FailRecord
  <2>2. ~callsCrossed
        BY <1>1, <1>3, <2>1, AskedIs, FindIs, CommitIs
        DEF DeviceStep, Hit, Miss, Fill, WriteRecord, RemoveInVain, CommitRecord, Clear, FindOpen
  <2> QED BY <1>3, <2>1, <2>2, AskedIs, HitCurrent, FillCurrent, FindCurrent, OtherCurrent DEF DeviceStep
<1>4. ASSUME NEW key \in CacheKeys, Expire(key) PROVE CurrentInv'
  <2>1. /\ UNCHANGED <<records, deviceCall, callsCrossed>>
        /\ recordCache' = [recordCache EXCEPT ![key] = Unknown]
        BY <1>4 DEF Expire
  <2>8. \A k \in CacheKeys : recordCache'[k] \in {recordCache[k], Unknown}
        BY <2>1, TakenWell
  <2>9. LatestIsKept BY <2>1, <2>8, KeyIs, LatestKept
  <2>2. AllCurrent => AllCurrent'
    <3>1. \A k \in CacheKeys : Current(k) => Current(k)' BY <2>1, <2>8, KeyKept
    <3>2. CacheKeys' = CacheKeys BY DEF CacheKeys
    <3> QED BY <3>1, <3>2 DEF AllCurrent
  <2>3. recordCache = NoCopies => recordCache' = NoCopies
        BY <2>1 DEF NoCopies
  <2>4. \A c \in DeviceCaller : Stored(deviceCall[c].key)' = Stored(deviceCall[c].key)
        BY <2>1 DEF Stored, LastOf, Live, Copy, ByCreation, ByUpdate
  <2>5. InCall' = InCall BY <2>1 DEF InCall
  <2>6. ~callsCrossed BY <1>1, <2>1
  <2>7. \A c \in DeviceCaller : CallCurrent(deviceCall[c])'
    <3> SUFFICES ASSUME NEW c \in DeviceCaller PROVE CallCurrent(deviceCall[c])' OBVIOUS
    <3>1. CallCurrent(deviceCall[c]) BY <2>6 DEF CurrentInv
    <3>2. NoCopies' = NoCopies BY DEF NoCopies, CacheKeys
    <3> QED BY <3>1, <3>2, <2>1, <2>2, <2>3, <2>4, <2>9
        DEF CallCurrent, Complete, LatestIsKept
  <2> QED BY <2>2, <2>5, <2>6, <2>7 DEF CurrentInv
<1>5. CASE UNCHANGED deviceVars
  <2>1. UNCHANGED <<records, recordCache, deviceCall, callsCrossed>> BY <1>5 DEF deviceVars
  <2>2. \A c \in DeviceCaller : Stored(deviceCall[c].key)' = Stored(deviceCall[c].key)
        BY <2>1 DEF Stored, LastOf, Live, Copy, ByCreation, ByUpdate
  <2>3. AllCurrent => AllCurrent' BY <2>1, CurrentKept
  <2>4. NoCopies' = NoCopies /\ InCall' = InCall BY <2>1 DEF NoCopies, CacheKeys, InCall
  <2>5. LatestIsKept BY <2>1, LatestKept
  <2> QED BY <2>1, <2>2, <2>3, <2>4, <2>5, <1>1
      DEF CurrentInv, CallCurrent, Complete, LatestIsKept
<1> QED BY <1>2, <1>3, <1>4, <1>5 DEF DevicesNext, DeviceStep

(* Between calls that follow each other, what the cache holds is what the  *)
(* database would answer.                                                  *)
THEOREM CopiesAlwaysCurrent == DevicesSpec => []CopiesAreCurrent
<1>1. CurrentInv => CopiesAreCurrent
      BY DEF CurrentInv, AllCurrent, Current, LatestComplete, CopiesAreCurrent
<1>2. DevicesSpec => [](DevicesInv /\ CurrentInv)
      BY InitDevicesInv, InitCurrent, DevicesKeep, CurrentKeeps, PTL DEF DevicesSpec
<1> QED BY <1>1, <1>2, PTL

(* And a record with both its times stays as it is.                        *)
THEOREM CompleteAlwaysKept == DevicesSpec => CompleteIsKept
<1>1. ASSUME DevicesInv, CurrentInv, DevicesNext,
             NEW i \in DOMAIN records, Complete(records[i]), ~callsCrossed
      PROVE  records'[i] = records[i]
  <2>1. ASSUME NEW c \in DeviceCaller, CommitRecord(c) PROVE records'[i] = records[i]
    <3>1. deviceCall[c].pc = "committing" /\ CallCurrent(deviceCall[c])
          BY <2>1, <1>1 DEF CommitRecord, AtStep, CurrentInv
    <3>2. deviceCall[c].write \in {"update", "delete"} => deviceCall[c].id # i
          BY <3>1, <1>1 DEF CallCurrent
    <3>3. i \in DOMAIN records' /\ i # Len(records) + 1
          BY <2>1, <1>1, CommitIs, TakenWell
    <3> QED BY <2>1, <1>1, <3>2, <3>3, CommitIs
  <2>2. ASSUME NEW c \in DeviceCaller, DeviceStep(c), ~CommitRecord(c) PROVE UNCHANGED records
        BY <2>2, <1>1, FindIs
        DEF DeviceStep, BeginDeviceCall, Hit, Miss, Fill, WriteRecord, RemoveInVain, Clear,
            FailRecord, FindOpen
  <2>3. ASSUME NEW key \in CacheKeys, Expire(key) PROVE UNCHANGED records BY <2>3 DEF Expire
  <2> QED BY <1>1, <2>1, <2>2, <2>3 DEF DevicesNext
<1>2. DevicesInv /\ CurrentInv /\ [DevicesNext]_deviceVars
        => [\A i \in DOMAIN records :
              (records[i].live /\ Complete(records[i]) /\ ~callsCrossed)
                 => records'[i] = records[i]]_deviceVars
      BY <1>1
<1>3. DevicesSpec => [](DevicesInv /\ CurrentInv)
      BY InitDevicesInv, InitCurrent, DevicesKeep, CurrentKeeps, PTL DEF DevicesSpec
<1> QED BY <1>2, <1>3, PTL DEF DevicesSpec, CompleteIsKept

(***************************************************************************)
(* Calls that overlap.                                                     *)
(***************************************************************************)
(* What a call may make of record i: it adds to a copy what the copy       *)
(* lacks, or closes the record it has found open.                          *)
Made(i, r) ==
    \/ \E u \in Views(i), q \in DeviceCalls :
         /\ ~Complete(u)
         /\ r.open = OpenOf(q, u) /\ r.close = CloseOf(q, u)
         /\ u.close = NoTime /\ q.close # NoTime /\ OpenOf(q, u) # NoTime
              => ~TooClose(OpenOf(q, u), q.close)
    \/ /\ records[i].live /\ OpenRow(records[i])
       /\ r.open = records[i].open /\ ~TooClose(r.open, r.close)

LEMMA MadeOpened ==
    ASSUME NEW i, NEW r, Made(i, r), OpenedFirst(i)
    PROVE  r.open = records[i].open /\ Apart(r)
<1>1. CASE records[i].live /\ OpenRow(records[i]) /\ r.open = records[i].open
           /\ ~TooClose(r.open, r.close)
      BY <1>1 DEF Apart
<1>2. ASSUME NEW u \in Views(i), NEW q \in DeviceCalls,
             ~Complete(u), r.open = OpenOf(q, u), r.close = CloseOf(q, u),
             u.close = NoTime /\ q.close # NoTime /\ OpenOf(q, u) # NoTime
               => ~TooClose(OpenOf(q, u), q.close)
      PROVE  r.open = records[i].open /\ Apart(r)
  <2>1. u.open = records[i].open /\ u.open # NoTime BY DEF OpenedFirst
  <2>2. u.close = NoTime /\ r.open = u.open /\ r.close = q.close
        BY <1>2, <2>1 DEF Complete, OpenOf, CloseOf
  <2> QED BY <1>2, <2>1, <2>2 DEF Apart
<1> QED BY <1>1, <1>2 DEF Made

LEMMA MadeClosed ==
    ASSUME NEW i, NEW r, Made(i, r), ClosedFirst(i)
    PROVE  r.close # NoTime
<1>1. ~OpenRow(records[i]) BY DEF OpenRow, ClosedFirst
<1>2. PICK u \in Views(i), q \in DeviceCalls : r.close = CloseOf(q, u) BY <1>1 DEF Made
<1>3. u.close # NoTime BY DEF ClosedFirst
<1> QED BY <1>2, <1>3 DEF CloseOf

(* A step that leaves the records alone: a copy in use is an old one, one  *)
(* of the record as it is, or one that a call has made; and so for writes. *)
LEMMA KindStep ==
    ASSUME DevicesInv, KindInv, UNCHANGED records,
           \A i \in DOMAIN records : \A v \in Views(i)' :
              \/ v \in Views(i)
              \/ records[i].live /\ v = Copy(i)
              \/ Made(i, v),
           \A i \in DOMAIN records : \A c \in Writing(i)' :
              \/ /\ c \in Writing(i)
                 /\ deviceCall'[c].copy = deviceCall[c].copy
                 /\ deviceCall'[c].write = deviceCall[c].write
              \/ deviceCall'[c].write = "update" /\ Made(i, deviceCall'[c].copy)
              \/ /\ deviceCall'[c].write = "delete" /\ OpenRow(records[i])
                 /\ deviceCall'[c].copy.open = records[i].open,
           \A c \in DeviceCaller :
              (Inserting(deviceCall[c]) => WellTimed(deviceCall[c].copy))'
    PROVE  KindInv'
<1>1. SUFFICES ASSUME NEW i \in DOMAIN records, records[i].timed
               PROVE  (OpenedFirst(i) \/ ClosedFirst(i))'
      BY DEF KindInv
<1>2. records[i].open = Copy(i).open /\ records[i].close = Copy(i).close BY DEF Copy
<1>3. CASE OpenedFirst(i)
  <2>1. records'[i].open # NoTime /\ (records'[i].live => Apart(records'[i]))
        BY <1>3 DEF OpenedFirst
  <2>2. ASSUME NEW v \in Views(i)' PROVE v.open = records'[i].open /\ Apart(v)
    <3>1. CASE v \in Views(i) BY <3>1, <1>3 DEF OpenedFirst
    <3>2. CASE records[i].live /\ v = Copy(i) BY <3>2, <1>2, <1>3 DEF OpenedFirst, Apart
    <3>3. CASE Made(i, v) BY <3>3, <1>3, MadeOpened
    <3> QED BY <3>1, <3>2, <3>3
  <2>3. ASSUME NEW c \in Writing(i)'
        PROVE  /\ deviceCall'[c].copy.open = records'[i].open
               /\ deviceCall'[c].write = "update" => Apart(deviceCall'[c].copy)
    <3>1. CASE /\ c \in Writing(i) /\ deviceCall'[c].copy = deviceCall[c].copy
               /\ deviceCall'[c].write = deviceCall[c].write
          BY <3>1, <1>3 DEF OpenedFirst
    <3>2. CASE deviceCall'[c].write = "update" /\ Made(i, deviceCall'[c].copy)
          BY <3>2, <1>3, MadeOpened
    <3>3. CASE /\ deviceCall'[c].write = "delete" /\ OpenRow(records[i])
               /\ deviceCall'[c].copy.open = records[i].open
          BY <3>3
    <3> QED BY <3>1, <3>2, <3>3
  <2> QED BY <2>1, <2>2, <2>3 DEF OpenedFirst
<1>4. CASE ClosedFirst(i)
  <2>1. records'[i].close # NoTime BY <1>4 DEF ClosedFirst
  <2>2. ASSUME NEW v \in Views(i)' PROVE v.close # NoTime
    <3>1. CASE v \in Views(i) BY <3>1, <1>4 DEF ClosedFirst
    <3>2. CASE records[i].live /\ v = Copy(i) BY <3>2, <1>2, <1>4 DEF ClosedFirst
    <3>3. CASE Made(i, v) BY <3>3, <1>4, MadeClosed
    <3> QED BY <3>1, <3>2, <3>3
  <2>3. ASSUME NEW c \in Writing(i)' PROVE deviceCall'[c].copy.close # NoTime
    <3>1. CASE c \in Writing(i) /\ deviceCall'[c].copy = deviceCall[c].copy
          BY <3>1, <1>4 DEF ClosedFirst
    <3>2. CASE Made(i, deviceCall'[c].copy) BY <3>2, <1>4, MadeClosed
    <3>3. CASE OpenRow(records[i]) BY <3>3, <1>4 DEF OpenRow, ClosedFirst
    <3> QED BY <3>1, <3>2, <3>3
  <2> QED BY <2>1, <2>2, <2>3 DEF ClosedFirst
<1> QED BY <1>1, <1>3, <1>4 DEF KindInv

(* A call that plans on a copy makes the record it writes.                 *)
LEMMA DecidesMade ==
    ASSUME DevicesInv, NEW q \in DeviceCalls, NEW e, NEW v, Decides(e, q, v)
    PROVE  /\ e.write \in Inserts => WellTimed(e.copy)
           /\ e.write # "delete"
           /\ e.write = "update" => /\ e.id = v.id
                                    /\ v \in Views(e.id) => Made(e.id, e.copy)
                                    /\ v \in Views(e.id) => 
                                         Made(e.id, [e.copy EXCEPT !.id = e.id])
<1>1. e.write \in Inserts => WellTimed(e.copy) BY DEF Decides, WellTimed, Apart, Inserts
<1>2. e.write # "delete" BY DEF Decides, Inserts
<1>3. ASSUME e.write = "update", v \in Views(e.id)
      PROVE  Made(e.id, e.copy) /\ Made(e.id, [e.copy EXCEPT !.id = e.id])
  <2>1. /\ [e.copy EXCEPT !.id = e.id].open = e.copy.open
        /\ [e.copy EXCEPT !.id = e.id].close = e.copy.close
        BY DEF Decides, View
  <2>2. /\ ~Complete(v) /\ e.copy.open = OpenOf(q, v) /\ e.copy.close = CloseOf(q, v)
        /\ v.close = NoTime /\ q.close # NoTime /\ OpenOf(q, v) # NoTime
             => ~TooClose(OpenOf(q, v), q.close)
        BY <1>3 DEF Decides, Inserts
  <2> QED BY <1>3, <2>1, <2>2 DEF Made
<1> QED BY <1>1, <1>2, <1>3 DEF Decides, Inserts

LEMMA ViewsGrow ==
    ASSUME NEW c \in DeviceCaller, NEW i,
           \A x \in DeviceCaller \ {c} : deviceCall'[x] = deviceCall[x]
    PROVE  /\ \A v \in Views(i)' :
                \/ v \in Views(i)
                \/ v = recordCache'[<<"latest">>] /\ v \in View /\ v.id = i
                \/ /\ deviceCall'[c].pc = "filling" /\ deviceCall'[c].key = <<"latest">>
                   /\ v = deviceCall'[c].value /\ v \in View /\ v.id = i
           /\ \A x \in Writing(i)' : x = c \/ /\ x \in Writing(i)
                                              /\ deviceCall'[x].copy = deviceCall[x].copy
                                              /\ deviceCall'[x].write = deviceCall[x].write
BY DEF Views, Writing

LEMMA CachedView ==
    ASSUME NEW v \in View, v = recordCache[<<"latest">>]
    PROVE  v \in Views(v.id)
BY DEF Views

(* A call that goes on with a copy it may plan on.                         *)
LEMMA ProceedKind ==
    ASSUME DevicesInv, KindInv, NEW c \in DeviceCaller, UNCHANGED records,
           deviceCall[c].pc \in {"looking", "filling"},
           NEW v, v \in ValueIn(deviceCall[c].key),
           deviceCall[c].key = <<"latest">> /\ v \in View => v \in Views(v.id),
           \A x \in DeviceCaller \ {c} : deviceCall'[x] = deviceCall[x],
           NEW e, e = Proceed(c, v),
           deviceCall'[c].pc = e.pc, deviceCall'[c].write = e.write,
           deviceCall'[c].id = e.id, deviceCall'[c].copy = e.copy,
           \/ recordCache'[<<"latest">>] = recordCache[<<"latest">>]
           \/ deviceCall[c].key = <<"latest">> /\ recordCache'[<<"latest">>] = v
           \/ e.write = "update" /\ recordCache'[<<"latest">>] = [e.copy EXCEPT !.id = e.id]
    PROVE  KindInv'
<1> DEFINE d == deviceCall[c]
           q == d.asks
<1>1. d \in DeviceCall /\ q \in DeviceCalls /\ d.write = "none" /\ d.id = 0
      BY TakenWell DEF CallOK
<1>2. MovesOn(e) \/ (d.key = <<"latest">> /\ Decides(e, q, v)) BY <1>1, ProceedIs
<1>4. e.write = "update" => /\ d.key = <<"latest">> /\ e.id = v.id /\ v \in View
                            /\ v \in Views(v.id)
  <2>1. SUFFICES ASSUME e.write = "update" PROVE /\ d.key = <<"latest">> /\ e.id = v.id /\ v \in View
                            /\ v \in Views(v.id)
        OBVIOUS
  <2>2. d.key = <<"latest">> /\ Decides(e, q, v) BY <2>1, <1>2 DEF MovesOn
  <2>3. v # NoRecord /\ e.id = v.id BY <2>1, <2>2 DEF Decides, Inserts
  <2>4. v \in View BY <2>2, <2>3 DEF ValueIn, Seen
  <2> QED BY <2>2, <2>3, <2>4
<1>5. e.write = "update" => Made(e.id, e.copy) /\ Made(e.id, [e.copy EXCEPT !.id = e.id])
      BY <1>1, <1>2, <1>4, DecidesMade DEF MovesOn
<1>6. e.write = "update" => [e.copy EXCEPT !.id = e.id].id = e.id
      BY <1>2 DEF MovesOn, Decides, View
<1>7. e.write # "delete" /\ e.pc # "filling" BY <1>2 DEF MovesOn, Decides, Inserts
<1>8. ASSUME NEW i \in DOMAIN records, NEW u \in Views(i)'
      PROVE  u \in Views(i) \/ Made(i, u)
  <2>1. u \in Views(i) \/ (u = recordCache'[<<"latest">>] /\ u \in View /\ u.id = i)
        BY <1>7, <1>8, ViewsGrow
  <2>2. CASE u = recordCache'[<<"latest">>] /\ u \in View /\ u.id = i
    <3>1. CASE recordCache'[<<"latest">>] = recordCache[<<"latest">>]
          BY <2>2, <3>1, CachedView
    <3>2. CASE d.key = <<"latest">> /\ recordCache'[<<"latest">>] = v
          BY <2>2, <3>2
    <3>3. CASE e.write = "update" /\ recordCache'[<<"latest">>] = [e.copy EXCEPT !.id = e.id]
          BY <2>2, <3>3, <1>5, <1>6
    <3> QED BY <3>1, <3>2, <3>3
  <2> QED BY <2>1, <2>2
<1>9. ASSUME NEW i \in DOMAIN records, NEW x \in Writing(i)'
      PROVE  \/ /\ x \in Writing(i)
                /\ deviceCall'[x].copy = deviceCall[x].copy
                /\ deviceCall'[x].write = deviceCall[x].write
             \/ deviceCall'[x].write = "update" /\ Made(i, deviceCall'[x].copy)
  <2>1. CASE x = c
    <3>1. deviceCall'[c].write = "update" /\ e.id = i BY <2>1, <1>7, <1>9 DEF Writing
    <3> QED BY <2>1, <3>1, <1>5
  <2>2. CASE x # c BY <2>2, <1>9, ViewsGrow
  <2> QED BY <2>1, <2>2
<1>10. ASSUME NEW x \in DeviceCaller, Inserting(deviceCall'[x])
       PROVE  WellTimed(deviceCall'[x].copy)
  <2>1. CASE x = c
    <3>1. e.write \in Inserts BY <2>1, <1>10 DEF Inserting
    <3>2. WellTimed(e.copy) BY <3>1, <1>1, <1>2, DecidesMade DEF MovesOn, Inserts
    <3>3. deviceCall'[x].copy = e.copy BY <2>1
    <3> QED BY <3>2, <3>3
  <2>2. CASE x # c
    <3>1. deviceCall'[x] = deviceCall[x] BY <2>2
    <3> QED BY <3>1, <1>10 DEF KindInv
  <2> QED BY <2>1, <2>2
<1>11. \A x \in DeviceCaller : (Inserting(deviceCall[x]) => WellTimed(deviceCall[x].copy))'
       BY <1>10
<1> QED BY <1>8, <1>9, <1>11, KindStep

LEMMA HitKind ==
    ASSUME DevicesInv, KindInv, NEW c \in DeviceCaller, Hit(c)
    PROVE  KindInv'
<1> DEFINE key == deviceCall[c].key
           v == recordCache[key]
           e == Proceed(c, v)
<1>1. /\ deviceCall[c].pc = "looking" /\ InCache(key) /\ Set(c, e) /\ UNCHANGED records
      /\ recordCache' = IF e.write = "update"
                        THEN [recordCache EXCEPT ![key] = [e.copy EXCEPT !.id = e.id]]
                        ELSE recordCache
      BY DEF Hit, AtStep
<1>2. key \in CacheKeys /\ v \in ValueIn(key) BY <1>1, TakenWell DEF InCache
<1>3. key = <<"latest">> /\ v \in View => v \in Views(v.id) BY CachedView
<1>4. deviceCall'[c] = e /\ \A x \in DeviceCaller \ {c} : deviceCall'[x] = deviceCall[x]
      BY <1>1, SetIs
<1>5. e.write = "update" => key = <<"latest">> BY <1>1, <1>2, GoesOnWell
<1>6. \/ recordCache'[<<"latest">>] = recordCache[<<"latest">>]
      \/ e.write = "update" /\ recordCache'[<<"latest">>] = [e.copy EXCEPT !.id = e.id]
  <2> HIDE DEF e
  <2>1. CASE e.write # "update" BY <2>1, <1>1
  <2>2. CASE e.write = "update" BY <2>2, <1>1, <1>5, <1>2, TakenWell
  <2> QED BY <2>1, <2>2
<1>7. PICK f : f = e OBVIOUS
<1> HIDE DEF e
<1>8. f = Proceed(c, v) BY <1>7 DEF e
<1> QED BY <1>1, <1>2, <1>3, <1>4, <1>6, <1>7, <1>8, ProceedKind

LEMMA FillKind ==
    ASSUME DevicesInv, KindInv, NEW c \in DeviceCaller, Fill(c)
    PROVE  KindInv'
<1> DEFINE key == deviceCall[c].key
           v == deviceCall[c].value
           g == Proceed(c, v)
           e == [g EXCEPT !.value = Unknown]
<1>1. /\ deviceCall[c].pc = "filling" /\ Set(c, e) /\ UNCHANGED records
      /\ recordCache' = [recordCache EXCEPT ![key] = v]
      BY DEF Fill, AtStep
<1>2. key \in CacheKeys /\ v \in ValueIn(key) BY <1>1, TakenWell DEF CallOK
<1>3. key = <<"latest">> /\ v \in View => v \in Views(v.id) BY <1>1 DEF Views
<1>4. deviceCall'[c] = e /\ \A x \in DeviceCaller \ {c} : deviceCall'[x] = deviceCall[x]
      BY <1>1, SetIs
<1>5. g \in DeviceCall BY <1>1, <1>2, GoesOnWell
<1>6. \/ recordCache'[<<"latest">>] = recordCache[<<"latest">>]
      \/ key = <<"latest">> /\ recordCache'[<<"latest">>] = v
      BY <1>1, <1>2, TakenWell, KeyIs
<1>7. PICK f : f = g OBVIOUS
<1> HIDE DEF g
<1>8. e.pc = f.pc /\ e.write = f.write /\ e.id = f.id /\ e.copy = f.copy
      BY <1>5, <1>7 DEF DeviceCall
<1>9. f = Proceed(c, v) BY <1>7 DEF g
<1> HIDE DEF e
<1> QED BY <1>1, <1>2, <1>3, <1>4, <1>6, <1>8, <1>9, ProceedKind

LEMMA FindKind ==
    ASSUME DevicesInv, KindInv, NEW c \in DeviceCaller, FindOpen(c)
    PROVE  KindInv'
<1> DEFINE d == deviceCall[c]
<1>1. /\ UNCHANGED <<records, recordCache>> /\ d.pc = "finding" /\ d \in DeviceCall
      BY FindIs, TakenWell
<1>2. ASSUME \A x \in DeviceCaller \ {c} : deviceCall'[x] = deviceCall[x],
             deviceCall'[c].pc # "filling",
             ~Inserting(deviceCall'[c]),
             \A i \in DOMAIN records : c \in Writing(i)' =>
                 \/ deviceCall'[c].write = "update" /\ Made(i, deviceCall'[c].copy)
                 \/ /\ deviceCall'[c].write = "delete" /\ OpenRow(records[i])
                    /\ deviceCall'[c].copy.open = records[i].open
      PROVE  KindInv'
  <2>1. \A i \in DOMAIN records : \A v \in Views(i)' : v \in Views(i)
        BY <1>1, <1>2, ViewsGrow, CachedView
  <2>2. \A x \in DeviceCaller :
           (Inserting(deviceCall[x]) => WellTimed(deviceCall[x].copy))'
    <3>1. ASSUME NEW x \in DeviceCaller, Inserting(deviceCall'[x])
          PROVE  WellTimed(deviceCall'[x].copy)
      <4>1. x # c BY <1>2, <3>1
      <4>2. deviceCall'[x] = deviceCall[x] BY <1>2, <4>1
      <4> QED BY <3>1, <4>2 DEF KindInv
    <3> QED BY <3>1
  <2> QED BY <1>1, <1>2, <2>1, <2>2, ViewsGrow, KindStep
<1>3. CASE Set(c, End(c, "refused"))
  <2>1. End(c, "refused").pc = "done" BY DEF End, Untouched
  <2>2. /\ deviceCall'[c].pc = "done"
        /\ \A x \in DeviceCaller \ {c} : deviceCall'[x] = deviceCall[x]
        BY <1>3, <2>1, SetIs
  <2> QED BY <1>2, <2>2 DEF Inserting, Writing
<1>4. ASSUME NEW i \in Live, NEW w \in {"update", "delete"}, OpenRow(records[i]),
             w = "update" => ~TooClose(records[i].open, d.asks.close),
             Set(c, [d EXCEPT !.pc = "saving", !.id = i, !.write = w,
                              !.copy = [id |-> 0, open |-> records[i].open,
                                        close |-> d.asks.close]])
      PROVE  KindInv'
  <2> DEFINE e == [d EXCEPT !.pc = "saving", !.id = i, !.write = w,
                            !.copy = [id |-> 0, open |-> records[i].open,
                                      close |-> d.asks.close]]
  <2>1. /\ e.pc = "saving" /\ e.id = i /\ e.write = w
        /\ e.copy = [id |-> 0, open |-> records[i].open, close |-> d.asks.close]
        BY <1>1 DEF DeviceCall
  <2>2. Set(c, e) BY <1>4
  <2> HIDE DEF e
  <2>3. deviceCall'[c] = e /\ \A x \in DeviceCaller \ {c} : deviceCall'[x] = deviceCall[x]
        BY <2>2, SetIs
  <2>4. w = "update" => Made(i, e.copy) BY <2>1, <1>4 DEF Made, Live
  <2>5. \A j \in DOMAIN records : c \in Writing(j)' => j = i BY <2>1, <2>3 DEF Writing
  <2>6. \A j \in DOMAIN records : c \in Writing(j)' =>
                 \/ deviceCall'[c].write = "update" /\ Made(j, deviceCall'[c].copy)
                 \/ /\ deviceCall'[c].write = "delete" /\ OpenRow(records[j])
                    /\ deviceCall'[c].copy.open = records[j].open
        BY <2>1, <2>3, <2>4, <2>5, <1>4
  <2>7. deviceCall'[c].pc # "filling" /\ ~Inserting(deviceCall'[c])
        BY <2>1, <2>3 DEF Inserting, Inserts
  <2> QED BY <1>2, <2>3, <2>6, <2>7
<1> QED BY <1>3, <1>4, FindIs

(* Steps that drop copies or move a call on.                               *)
LEMMA QuietKind ==
    ASSUME DevicesInv, KindInv, UNCHANGED records,
           recordCache'[<<"latest">>] \in {recordCache[<<"latest">>], Unknown},
           \A x \in DeviceCaller :
              \/ deviceCall'[x] = deviceCall[x]
              \/ deviceCall'[x].pc \in {"looking", "done", "clearing"}
              \/ /\ deviceCall[x].pc = "saving" /\ deviceCall'[x].pc = "committing"
                 /\ deviceCall'[x].write = deviceCall[x].write
                 /\ deviceCall'[x].id = deviceCall[x].id
                 /\ deviceCall'[x].copy = deviceCall[x].copy
              \/ /\ deviceCall'[x].pc = "filling"
                 /\ deviceCall'[x].value = Stored(deviceCall'[x].key)
                 /\ deviceCall'[x].key \in CacheKeys
    PROVE  KindInv'
<1>1. ASSUME NEW i \in DOMAIN records, NEW v \in Views(i)'
      PROVE  v \in Views(i) \/ (records[i].live /\ v = Copy(i))
  <2>1. v \in View /\ v.id = i BY <1>1 DEF Views
  <2>2. CASE v = recordCache'[<<"latest">>]
    <3>1. CASE v = Unknown
      BY <3>1, <1>1, <2>1, DevicesAssumption
    <3>2. CASE v = recordCache[<<"latest">>] BY <3>2, <2>1, CachedView
    <3> QED BY <2>2, <3>1, <3>2
  <2>3. ASSUME NEW x \in DeviceCaller, deviceCall'[x].pc = "filling",
               deviceCall'[x].key = <<"latest">>, v = deviceCall'[x].value
        PROVE  v \in Views(i) \/ (records[i].live /\ v = Copy(i))
    <3>1. CASE deviceCall'[x] = deviceCall[x] BY <2>1, <2>3, <3>1 DEF Views
    <3>2. CASE v = Stored(<<"latest">>)
      <4>1. v = NoRecord \/ \E j \in Live : v = Copy(j) BY <3>2, KeyIs, StoredIs
      <4>2. CASE v = NoRecord BY <4>2, <2>1, DevicesAssumption
      <4>3. ASSUME NEW j \in Live, v = Copy(j) PROVE records[i].live /\ v = Copy(i)
        <5>1. j \in DOMAIN records /\ records[j].live BY DEF Live
        <5>2. j = i BY <2>1, <4>3, <5>1, TakenWell, CopyIs
        <5> QED BY <4>3, <5>1, <5>2
      <4> QED BY <4>1, <4>2, <4>3
    <3> QED BY <2>3, <3>1, <3>2
  <2> QED BY <1>1, <2>2, <2>3 DEF Views
<1>2. ASSUME NEW i \in DOMAIN records, NEW x \in Writing(i)'
      PROVE  /\ x \in Writing(i)
             /\ deviceCall'[x].copy = deviceCall[x].copy
             /\ deviceCall'[x].write = deviceCall[x].write
      BY <1>2 DEF Writing
<1>3. \A x \in DeviceCaller : (Inserting(deviceCall[x]) => WellTimed(deviceCall[x].copy))'
  <2>1. ASSUME NEW x \in DeviceCaller, Inserting(deviceCall'[x])
        PROVE  WellTimed(deviceCall'[x].copy)
    <3>1. Inserting(deviceCall[x]) /\ deviceCall'[x].copy = deviceCall[x].copy
          BY <2>1 DEF Inserting
    <3> QED BY <3>1 DEF KindInv
  <2> QED BY <2>1
<1> QED BY <1>1, <1>2, <1>3, KindStep

LEMMA ViewsSeen ==
    ASSUME DevicesInv, NEW i
    PROVE  /\ \A v \in Views(i) : i \in DOMAIN records
           /\ \A c \in Writing(i) : i \in DOMAIN records
<1>1. ASSUME NEW v \in Views(i) PROVE i \in DOMAIN records
  <2>1. v \in View /\ v.id = i /\ v # NoRecord /\ v # Unknown
        BY DevicesAssumption DEF Views
  <2>2. CASE v = recordCache[<<"latest">>]
    <3>1. v \in ValueIn(<<"latest">>) BY <2>1, <2>2, KeyIs, TakenWell
    <3> QED BY <2>1, <3>1 DEF ValueIn, Seen
  <2>3. ASSUME NEW c \in DeviceCaller, deviceCall[c].pc = "filling",
               deviceCall[c].key = <<"latest">>, v = deviceCall[c].value
        PROVE  i \in DOMAIN records
    <3>1. v \in ValueIn(<<"latest">>) BY <2>3, TakenWell DEF CallOK
    <3> QED BY <2>1, <3>1 DEF ValueIn, Seen
  <2> QED BY <2>2, <2>3 DEF Views
<1>2. ASSUME NEW c \in Writing(i) PROVE i \in DOMAIN records
      BY TakenWell DEF Writing, CallOK, Inserts
<1> QED BY <1>1, <1>2

LEMMA CommitKind ==
    ASSUME DevicesInv, KindInv, NEW c \in DeviceCaller, CommitRecord(c)
    PROVE  KindInv'
<1> DEFINE d == deviceCall[c]
           row(i) == records'[i]
<1>1. /\ d.pc = "committing" /\ d \in DeviceCall /\ UNCHANGED recordCache
      /\ Set(c, IF d.write = "delete" THEN End(c, "removed") ELSE [d EXCEPT !.pc = "clearing"])
      BY TakenWell DEF CommitRecord, AtStep
<1>2. /\ deviceCall'[c].pc \in {"done", "clearing"}
      /\ \A x \in DeviceCaller \ {c} : deviceCall'[x] = deviceCall[x]
  <2>1. CASE d.write = "delete"
    <3>1. End(c, "removed").pc = "done" BY DEF End, Untouched
    <3> QED BY <1>1, <2>1, <3>1, SetIs
  <2>2. CASE d.write # "delete" BY <1>1, <2>2, SetIs DEF DeviceCall
  <2> QED BY <2>1, <2>2
<1>3. ASSUME NEW i PROVE Views(i)' \subseteq Views(i)
      BY <1>1, <1>2, ViewsGrow, CachedView
<1>4. ASSUME NEW i, NEW x \in Writing(i)'
      PROVE  x \in Writing(i) /\ deviceCall'[x] = deviceCall[x]
      BY <1>2 DEF Writing
<1>5. \A x \in BOOLEAN, m \in BOOLEAN :
         /\ Row(d.copy, x, m).open = d.copy.open /\ Row(d.copy, x, m).close = d.copy.close
         /\ Row(d.copy, x, m).live = x /\ Row(d.copy, x, m).timed = m
      BY DEF Row
<1>6. ASSUME NEW i \in DOMAIN records, records'[i] = records[i], records[i].timed
      PROVE  (OpenedFirst(i) \/ ClosedFirst(i))'
  <2>1. CASE OpenedFirst(i) BY <2>1, <1>3, <1>4, <1>6 DEF OpenedFirst
  <2>2. CASE ClosedFirst(i) BY <2>2, <1>3, <1>4, <1>6 DEF ClosedFirst
  <2> QED BY <2>1, <2>2, <1>6 DEF KindInv
<1>7. ASSUME d.write \notin Inserts, NEW i \in DOMAIN records, i = d.id, records'[i].timed
      PROVE  (OpenedFirst(i) \/ ClosedFirst(i))'
  <2>1. d.write \in {"update", "delete"} BY <1>7, CommitIs
  <2>2. c \in Writing(i) BY <1>1, <1>7, <2>1 DEF Writing
  <2>3. /\ records'[i].open = d.copy.open /\ records'[i].close = d.copy.close
        /\ records'[i].live = (d.write = "update") /\ records[i].timed
    <3>1. records'[i] = Row(d.copy, d.write = "update", records[i].timed) BY <1>7, CommitIs
    <3>2. (d.write = "update") \in BOOLEAN OBVIOUS
    <3>3. records[i].timed \in BOOLEAN
      <4>1. records[i] \in RecordRow BY TakenWell
      <4> QED BY <4>1 DEF RecordRow
    <3> DEFINE m == records[i].timed
               r == Row(d.copy, d.write = "update", m)
    <3>4. r.open = d.copy.open /\ r.close = d.copy.close /\ r.live = (d.write = "update")
      <4> HIDE DEF m
      <4> QED BY DEF Row
    <3>5. r.timed = m
      <4> HIDE DEF m
      <4> QED BY DEF Row
    <3> HIDE DEF r
    <3>6. records'[i] = r BY <3>1 DEF r
    <3>7. m BY <1>7, <3>5, <3>6
    <3> QED BY <3>4, <3>6, <3>7
  <2>4. CASE OpenedFirst(i)
    <3>1. /\ d.copy.open = records[i].open /\ records[i].open # NoTime
          /\ d.write = "update" => Apart(d.copy)
          BY <2>2, <2>4 DEF OpenedFirst
    <3>2. records'[i].live => Apart(records'[i]) BY <2>3, <3>1 DEF Apart
    <3> QED BY <2>3, <2>4, <3>1, <3>2, <1>3, <1>4 DEF OpenedFirst
  <2>5. CASE ClosedFirst(i) BY <2>2, <2>3, <2>5, <1>3, <1>4 DEF ClosedFirst
  <2> QED BY <2>3, <2>4, <2>5 DEF KindInv
<1>8. ASSUME d.write \in Inserts, NEW i, i = Len(records) + 1, i \in DOMAIN records',
             records'[i].timed
      PROVE  (OpenedFirst(i) \/ ClosedFirst(i))'
  <2>1. i \notin DOMAIN records BY <1>8, TakenWell
  <2>2. Views(i)' = {} /\ Writing(i)' = {} BY <2>1, <1>3, <1>4, ViewsSeen
  <2>3. WellTimed(d.copy) BY <1>1, <1>8 DEF KindInv, Inserting
  <2>4. /\ records'[i].open = d.copy.open /\ records'[i].close = d.copy.close
        /\ Timed(d.copy)
    <3>1. records'[i] = Row(d.copy, d.write # "delete", Timed(d.copy))
          BY <1>8, <2>1, CommitIs DEF MarkOf
    <3>2. (d.write # "delete") \in BOOLEAN OBVIOUS
    <3>3. Timed(d.copy) \in BOOLEAN BY DEF Timed
    <3> QED BY <3>1, <3>2, <3>3, <1>5, <1>8
  <2> QED BY <2>2, <2>3, <2>4 DEF WellTimed, Timed, OpenedFirst, ClosedFirst, Apart
<1>9. \A i \in DOMAIN records' : records'[i].timed => (OpenedFirst(i) \/ ClosedFirst(i))'
  <2> SUFFICES ASSUME NEW i \in DOMAIN records', records'[i].timed
               PROVE  (OpenedFirst(i) \/ ClosedFirst(i))'
      OBVIOUS
  <2>1. CASE i \in DOMAIN records /\ records'[i] = records[i] BY <2>1, <1>6
  <2>2. CASE d.write \in Inserts /\ i = Len(records) + 1 BY <2>2, <1>8
  <2>3. CASE d.write \notin Inserts /\ i = d.id BY <2>3, <1>7, CommitIs
  <2> QED BY <2>1, <2>2, <2>3, CommitIs
<1>10. \A x \in DeviceCaller : (Inserting(deviceCall[x]) => WellTimed(deviceCall[x].copy))'
  <2>1. ASSUME NEW x \in DeviceCaller, Inserting(deviceCall'[x])
        PROVE  WellTimed(deviceCall'[x].copy)
    <3>1. x # c BY <1>2, <2>1 DEF Inserting
    <3>2. deviceCall'[x] = deviceCall[x] BY <1>2, <3>1
    <3> QED BY <2>1, <3>2 DEF KindInv
  <2> QED BY <2>1
<1> QED BY <1>9, <1>10 DEF KindInv

LEMMA KindKeeps ==
    ASSUME DevicesInv, KindInv, [DevicesNext]_deviceVars
    PROVE  KindInv'
<1>1. ASSUME NEW c \in DeviceCaller, NEW q \in DeviceCalls, BeginDeviceCall(c, q)
      PROVE  KindInv'
  <2> DEFINE e == [Untouched EXCEPT !.pc = "looking", !.asks = q,
                     !.key = IF q.op = "pair" THEN <<"today">>
                             ELSE <<"recent", q.op, q.open, q.close>>]
  <2>1. UNCHANGED <<records, recordCache>> /\ Set(c, e) BY <1>1 DEF BeginDeviceCall
  <2>2. e.pc = "looking" BY DEF Untouched
  <2> HIDE DEF e
  <2>3. /\ deviceCall'[c].pc = "looking"
        /\ \A x \in DeviceCaller \ {c} : deviceCall'[x] = deviceCall[x]
        BY <2>1, <2>2, SetIs
  <2> QED BY <2>1, <2>3, QuietKind
<1>2. ASSUME NEW c \in DeviceCaller, Miss(c) PROVE KindInv'
  <2> DEFINE d == deviceCall[c]
             v == Stored(d.key)
             e == [d EXCEPT !.pc = "filling", !.value = v]
  <2>1. UNCHANGED <<records, recordCache>> /\ Set(c, e) BY <1>2 DEF Miss
  <2>2. d \in DeviceCall /\ d.key \in CacheKeys BY TakenWell
  <2> HIDE DEF v
  <2>3. e.pc = "filling" /\ e.value = v /\ e.key = d.key BY <2>2 DEF DeviceCall
  <2> HIDE DEF e
  <2>4. /\ deviceCall'[c] = e
        /\ \A x \in DeviceCaller \ {c} : deviceCall'[x] = deviceCall[x]
        BY <2>1, SetIs
  <2>5. deviceCall'[c].value = Stored(deviceCall'[c].key) BY <2>3, <2>4 DEF v
  <2> QED BY <2>1, <2>2, <2>3, <2>4, <2>5, QuietKind
<1>3. ASSUME NEW c \in DeviceCaller, WriteRecord(c) PROVE KindInv'
  <2> DEFINE d == deviceCall[c]
             e == [d EXCEPT !.pc = "committing"]
  <2>1. d.pc = "saving" /\ UNCHANGED records /\ Set(c, e) /\ recordCache' \in {recordCache, NoCopies}
        BY <1>3 DEF WriteRecord, AtStep, Cleared
  <2>2. d \in DeviceCall BY TakenWell
  <2>3. e.pc = "committing" /\ e.write = d.write /\ e.id = d.id /\ e.copy = d.copy
        BY <2>2 DEF DeviceCall
  <2> HIDE DEF e
  <2>4. /\ deviceCall'[c] = e
        /\ \A x \in DeviceCaller \ {c} : deviceCall'[x] = deviceCall[x]
        BY <2>1, SetIs
  <2>5. recordCache'[<<"latest">>] \in {recordCache[<<"latest">>], Unknown}
        BY <2>1, KeyIs DEF NoCopies
  <2> QED BY <2>1, <2>3, <2>4, <2>5, QuietKind
<1>4. ASSUME NEW c \in DeviceCaller, RemoveInVain(c) \/ Clear(c) \/ FailRecord(c)
      PROVE  KindInv'
  <2>1. UNCHANGED records /\ \E o : Set(c, End(c, o))
        BY <1>4 DEF RemoveInVain, Clear, FailRecord
  <2>2. PICK o : Set(c, End(c, o)) BY <2>1
  <2>3. End(c, o).pc = "done" BY DEF End, Untouched
  <2>4. /\ deviceCall'[c].pc = "done"
        /\ \A x \in DeviceCaller \ {c} : deviceCall'[x] = deviceCall[x]
        BY <2>2, <2>3, SetIs
  <2>5. recordCache'[<<"latest">>] \in {recordCache[<<"latest">>], Unknown}
    <3>1. CASE Clear(c) BY <3>1, KeyIs, ClearIs
    <3>2. CASE RemoveInVain(c) \/ FailRecord(c)
      <4>1. recordCache' \in {recordCache, NoCopies} BY <3>2 DEF RemoveInVain, FailRecord
      <4> QED BY <4>1, KeyIs DEF NoCopies
    <3> QED BY <1>4, <3>1, <3>2
  <2> QED BY <2>1, <2>4, <2>5, QuietKind
<1>5. ASSUME NEW key \in CacheKeys, Expire(key) PROVE KindInv'
  <2>1. UNCHANGED <<records, deviceCall>>
        /\ recordCache' = [recordCache EXCEPT ![key] = Unknown]
        BY <1>5 DEF Expire
  <2>2. recordCache'[<<"latest">>] \in {recordCache[<<"latest">>], Unknown}
        BY <2>1, KeyIs, TakenWell
  <2> QED BY <2>1, <2>2, QuietKind
<1>6. CASE UNCHANGED deviceVars
  <2>1. UNCHANGED <<records, recordCache, deviceCall>> BY <1>6 DEF deviceVars
  <2> QED BY <2>1, QuietKind
<1> QED BY <1>1, <1>2, <1>3, <1>4, <1>5, <1>6, HitKind, FillKind, FindKind, CommitKind,
       AskedIs
    DEF DevicesNext, DeviceStep

LEMMA InitKind == DevicesInit => KindInv
BY DEF DevicesInit, KindInv, Untouched, Inserting

(* However calls overlap and fail, none closes a record that was inserted  *)
(* with a time earlier than five minutes after its opening.                *)
THEOREM ClosedAlwaysApart == DevicesSpec => ClosedApart
<1>1. ASSUME DevicesInv, KindInv, DevicesNext, NEW i \in DOMAIN records,
             records[i].live, records[i].timed, ~Complete(records[i]), records[i].open # NoTime,
             records'[i].live, Complete(records[i])'
      PROVE  ~TooClose(records'[i].open, records'[i].close)
  <2>1. records'[i] # records[i] BY <1>1 DEF Complete
  <2>2. PICK c \in DeviceCaller : CommitRecord(c)
    <3>1. ASSUME NEW c \in DeviceCaller, DeviceStep(c), ~CommitRecord(c) PROVE UNCHANGED records
          BY <3>1, <1>1, FindIs
          DEF DeviceStep, BeginDeviceCall, Hit, Miss, Fill, WriteRecord, RemoveInVain, Clear,
              FailRecord, FindOpen
    <3>2. ASSUME NEW key \in CacheKeys, Expire(key) PROVE UNCHANGED records BY <3>2 DEF Expire
    <3> QED BY <1>1, <2>1, <3>1, <3>2 DEF DevicesNext
  <2> DEFINE d == deviceCall[c]
  <2>3. d.pc = "committing" /\ d.write \notin Inserts /\ i = d.id
    <3>1. i # Len(records) + 1 /\ i \in DOMAIN records'
          BY <1>1, <2>2, TakenWell, CommitIs
    <3> QED BY <1>1, <2>1, <2>2, <3>1, CommitIs
  <2>4. records'[i] = Row(d.copy, d.write = "update", records[i].timed) BY <1>1, <2>2, <2>3, CommitIs
  <2>5. /\ records'[i].open = d.copy.open /\ records'[i].close = d.copy.close
        /\ d.write = "update"
    <3>1. \A x \in BOOLEAN : LET r == Row(d.copy, x, records[i].timed)
                             IN  r.open = d.copy.open /\ r.close = d.copy.close /\ r.live = x
          BY DEF Row
    <3>2. (d.write = "update") \in BOOLEAN OBVIOUS
    <3> QED BY <1>1, <2>4, <3>1, <3>2
  <2>6. c \in Writing(i) BY <2>3, <2>5 DEF Writing
  <2>7. OpenedFirst(i) BY <1>1 DEF KindInv, ClosedFirst, Complete
  <2>8. Apart(d.copy) BY <2>5, <2>6, <2>7 DEF OpenedFirst
  <2>9. records'[i].close # NoTime BY <1>1 DEF Complete
  <2> QED BY <2>5, <2>8, <2>9 DEF Apart
<1>2. DevicesInv /\ KindInv /\ [DevicesNext]_deviceVars
        => [\A i \in DOMAIN records :
              (/\ records[i].live
               /\ records[i].timed
               /\ ~Complete(records[i])
               /\ records[i].open # NoTime
               /\ records'[i].live
               /\ Complete(records[i])')
                 => ~TooClose(records'[i].open, records'[i].close)]_deviceVars
      BY <1>1
<1>3. DevicesSpec => [](DevicesInv /\ KindInv)
      BY InitDevicesInv, InitKind, DevicesKeep, KindKeeps, PTL DEF DevicesSpec
<1> QED BY <1>2, <1>3, PTL DEF DevicesSpec, ClosedApart
=============================================================================
