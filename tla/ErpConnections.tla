--------------------------- MODULE ErpConnections ---------------------------
(***************************************************************************)
(* ErpConnectionManagerService for one country (src/erp/services/          *)
(* erp-connection-manager.service.ts): getConnection and createConnection. *)
(*                                                                         *)
(* A cached DataSource is checked with a query before it is answered; a    *)
(* stale one is destroyed, its entry deleted and another created.  Callers *)
(* run in one event loop and interleave at each await.  Countries share    *)
(* nothing; closeAllConnections is called by nobody.                       *)
(***************************************************************************)
EXTENDS Naturals, Sequences

CONSTANTS
    ConnCaller,   \* calls of getConnection
    NoCaller

ASSUME ConnectionsAssumption == NoCaller \notin ConnCaller

VARIABLES
    sources,      \* every DataSource made, in order, and what it has become
    connection,   \* connections: the place of the cached one in sources, or 0
    creation,     \* connectionPromises: the caller whose creation it is
    caller,       \* where each caller is, and the source it has
    checksRaced,  \* two callers have checked one connection at a time
    undestroyed   \* the sources of which a destruction failed

connVars == <<sources, connection, creation, caller, checksRaced, undestroyed>>

SourceState == {"opening", "open", "closing", "closed", "refused"}

CallerPC == {"idle", "checking", "destroying", "creating", "waiting", "answered",
             "refused"}

ConnectionsInit ==
    /\ sources = <<>>
    /\ connection = 0
    /\ creation = NoCaller
    /\ caller = [c \in ConnCaller |-> [pc |-> "idle", source |-> 0]]
    /\ checksRaced = FALSE
    /\ undestroyed = {}

Caller(c, p, i) == caller' = [caller EXCEPT ![c] = [pc |-> p, source |-> i]]

(* Mutant: a creation in progress is not looked for. *)
CreationUnknown == FALSE

CreationKnown == creation # NoCaller

(* Past the cache, a caller joins the creation in progress, or begins one; *)
(* after having destroyed a stale connection it does not look at the cache *)
(* again.                                                                  *)
Join(c, states) ==
    IF CreationKnown
    THEN /\ Caller(c, "waiting", caller[creation].source)
         /\ sources' = states
         /\ UNCHANGED creation
    ELSE /\ Caller(c, "creating", Len(states) + 1)
         /\ sources' = Append(states, "opening")
         /\ creation' = c

-----------------------------------------------------------------------------
(* getConnection: a cached connection that is initialised is checked.      *)
Cached == connection # 0 /\ sources[connection] # "closed"

Checking(i) == {c \in ConnCaller : caller[c].pc \in {"checking", "destroying"}
                                     /\ caller[c].source = i}

CheckCached(c) ==
    /\ caller[c].pc = "idle"
    /\ Cached
    /\ Caller(c, "checking", connection)
    /\ checksRaced' = (checksRaced \/ Checking(connection) # {})
    /\ UNCHANGED <<sources, connection, creation, undestroyed>>

MissCached(c) ==
    /\ caller[c].pc = "idle"
    /\ ~Cached
    /\ connection' = 0
    /\ Join(c, sources)
    /\ UNCHANGED <<checksRaced, undestroyed>>

(* The query of an open connection succeeds or fails, that of a closed one *)
(* fails.                                                                  *)
CheckSucceeds(c) ==
    /\ caller[c].pc = "checking"
    /\ sources[caller[c].source] = "open"
    /\ Caller(c, "answered", caller[c].source)
    /\ UNCHANGED <<sources, connection, creation, checksRaced, undestroyed>>

(* A failure begins the destruction; of what is destroyed, it throws, and  *)
(* is ignored.                                                             *)
CheckFails(c) ==
    LET i == caller[c].source
    IN  /\ caller[c].pc = "checking"
        /\ IF sources[i] = "closed"
           THEN connection' = 0 /\ Join(c, sources)
           ELSE /\ sources' = [sources EXCEPT ![i] = "closing"]
                /\ Caller(c, "destroying", i)
                /\ UNCHANGED <<connection, creation>>
        /\ UNCHANGED <<checksRaced, undestroyed>>

(* Mutant: the stale connection is forgotten, not closed. *)
DestroyedOpen(i) == [sources EXCEPT ![i] = "open"]

Destroyed(i) == [sources EXCEPT ![i] = "closed"]

(* The entry is deleted, whichever connection it has meanwhile.            *)
Destroy(c) ==
    /\ caller[c].pc = "destroying"
    /\ connection' = 0
    /\ Join(c, Destroyed(caller[c].source))
    /\ UNCHANGED <<checksRaced, undestroyed>>

(* The destruction fails, and leaves the source as it was: the error is    *)
(* ignored, and the entry deleted all the same.                            *)
DestroyFails(c) ==
    LET i == caller[c].source
    IN  /\ caller[c].pc = "destroying"
        /\ sources[i] = "closing"
        /\ connection' = 0
        /\ Join(c, [sources EXCEPT ![i] = "open"])
        /\ undestroyed' = undestroyed \cup {i}
        /\ UNCHANGED checksRaced

(* The creation ends: its caller caches the connection, and all who joined *)
(* are answered with it, or with the error.                                *)
EndCreation(c, p, state) ==
    LET i == caller[c].source
    IN  /\ caller[c].pc = "creating"
        /\ sources' = [sources EXCEPT ![i] = state]
        /\ creation' = NoCaller
        /\ caller' = [d \in ConnCaller |->
                        IF d = c \/ caller[d] = [pc |-> "waiting", source |-> i]
                        THEN [pc |-> p, source |-> i] ELSE caller[d]]
        /\ UNCHANGED <<checksRaced, undestroyed>>

CreationSucceeds(c) ==
    /\ EndCreation(c, "answered", "open")
    /\ connection' = caller[c].source

CreationFails(c) ==
    /\ EndCreation(c, "refused", "refused")
    /\ UNCHANGED connection

ConnectionStep(c) ==
    \/ CheckCached(c)
    \/ MissCached(c)
    \/ CheckSucceeds(c)
    \/ CheckFails(c)
    \/ Destroy(c)
    \/ DestroyFails(c)
    \/ CreationSucceeds(c)
    \/ CreationFails(c)

ConnectionsNext == \E c \in ConnCaller : ConnectionStep(c)

ConnectionsSpec == ConnectionsInit /\ [][ConnectionsNext]_connVars

-----------------------------------------------------------------------------
ConnectionsTypeOK ==
    /\ sources \in Seq(SourceState)
    /\ connection \in 0 .. Len(sources)
    /\ creation \in ConnCaller \cup {NoCaller}
    /\ caller \in [ConnCaller -> [pc: CallerPC, source: 0 .. Len(sources)]]
    /\ checksRaced \in BOOLEAN
    /\ undestroyed \subseteq Nat

(* However many callers miss the cache, or find the connection stale at    *)
(* once, one connection at most is being opened.                           *)
OneOpening ==
    \A i, j \in DOMAIN sources :
      sources[i] = "opening" /\ sources[j] = "opening" => i = j

(* Unless two callers check one connection at the same time, the only      *)
(* connections that stay open without being the cached one are those of    *)
(* which a destruction failed: no other is left for the server to hold for *)
(* ever.                                                                   *)
OpenIsCached ==
    ~checksRaced =>
      \A i \in DOMAIN sources \ undestroyed : sources[i] = "open" => i = connection
=============================================================================
