---------------------------- MODULE Links_proofs ----------------------------
(* Theorems about Connections and Links, for every set of flows, calls and *)
(* requests and all bounds.                                                *)
EXTENDS Links, TLAPS

(* Flows whose code can still be redeemed, or is on its way into the row.  *)
Unredeemed(f) ==
    \/ f \in verifiers
    \/ \E c \in OAuthCall : oauth[c].at = "store" /\ oauth[c].flow = f

(* A flow that has named a row or a token: it will never do so again.      *)
Spent(f) == f \in begun /\ ~Unredeemed(f)

ConnectionInv ==
    /\ ConnectionTypeOK
    /\ Spent(First)
    /\ \A c \in OAuthCall : oauth[c].at = "store" =>
         /\ oauth[c].flow \in begun \ verifiers
         /\ \A d \in OAuthCall \ {c} : oauth[d].at = "store" => oauth[d].flow # oauth[c].flow
    /\ \A f \in dropped : Spent(f)
    /\ connection # NoRow =>
         /\ Spent(connection.id) /\ Spent(connection.refresh) /\ Spent(connection.access)
    /\ TokensOfOneGrant
    /\ DisconnectIsFinal

(* What a caller may rely on of a row it has read: its refresh token is    *)
(* not a deleted one as long as the row with its id is there.              *)
Held(row) ==
    /\ row \in Connection
    /\ Spent(row.id) /\ Spent(row.refresh)
    /\ (connection # NoRow /\ connection.id = row.id) => row.refresh \notin dropped

Answers == {"none", "ok", "error", "refused", "same", "changed"}
StepNo == 0 .. 7
Version == 0 .. MaxVersion
Call == [kind : Kinds, step : StepNo, prior : Content, conn : Connection \cup {NoRow},
         file : Request \cup {NoRow}, cursor : Version, version : Version,
         exported : Version, answer : Answers]

Active(r) == req[r].step # 0 /\ req[r].answer = "none"

TypeInv == LinksTypeOK /\ req \in [Request -> Call]

(* A row belongs to the link request that was answered ok; until it is     *)
(* there its Doc is as it was uploaded; then the cursor stays behind what  *)
(* was pulled.                                                             *)
RowInv(f) ==
    /\ rows[f] # NoRow <=> (req[f].kind = "link" /\ req[f].answer = "ok")
    /\ rows[f] # NoRow \/ f \in early => files[f] # NoRow
    /\ files[f] # NoRow => pulled[f] <= files[f].version
    /\ files[f] # NoRow /\ f \notin early =>
         IF rows[f] = NoRow THEN files[f].version = 1 /\ pulled[f] = 1
         ELSE rows[f].cursor <= pulled[f]

Detached(f) == f \in Request /\ rows[f] # NoRow /\ rows[f].state # "linked"

RequestInv(r) ==
    /\ req[r].step = 0 => req[r].answer = "none"
    /\ Active(r) =>
         /\ req[r].step <= Len(Path(req[r].kind))
         /\ Held(req[r].conn)
         /\ IF req[r].kind = "link" THEN req[r].file = r
            ELSE req[r].file \in Request /\ rows[req[r].file] # NoRow
    /\ (req[r].step = 0 \/ req[r].kind # "link" \/ Step(r) \in {"token", "upload"}) =>
         files[r] = NoRow
    /\ (req[r].kind = "link" /\ Step(r) \in {"cursor", "insert"}) => files[r] # NoRow
    /\ Step(r) \in {"insert", "export", "overwrite"} =>
         1 <= req[r].version /\ req[r].version <= files[File(r)].version
    /\ Step(r) = "overwrite" =>
         req[r].version <= req[r].exported /\ req[r].exported <= files[File(r)].version
    /\ (req[r].kind = "pull_final" /\ Step(r) \in {"recheck", "detach", "remove"}) =>
         /\ req[r].exported # 0
         /\ r \in over \/ content = Rendition(req[r].file, req[r].exported)
    /\ Step(r) = "remove" => Detached(req[r].file)
    /\ (req[r].kind \in {"pull_final", "keep_app"} /\ req[r].answer = "ok") =>
         Detached(req[r].file)

LinksInv ==
    /\ TypeInv
    /\ ConnectionInv
    /\ \A f, g \in LiveRows : f = g
    /\ \A r \in Request : RowInv(r) /\ RequestInv(r)
-----------------------------------------------------------------------------
(* The connection                                                          *)

LEMMA ConnectionInvInit == ConnectionInit => ConnectionInv
<1> SUFFICES ASSUME ConnectionInit PROVE ConnectionInv
  OBVIOUS
<1>1. First \in Flow /\ connection \in Connection
  BY FlowAssumption DEF ConnectionInit, Connection
<1>2. \A c \in OAuthCall : oauth[c] = Idle
  BY DEF ConnectionInit
<1>3. ConnectionTypeOK
  BY <1>1 DEF ConnectionInit, ConnectionTypeOK, Idle
<1>4. \A f \in Flow : ~Unredeemed(f)
  BY <1>2 DEF ConnectionInit, Unredeemed, Idle
<1>5. Spent(First)
  BY <1>1, <1>4 DEF ConnectionInit, Spent
<1>6. connection # NoRow => /\ connection.id = First /\ connection.refresh = First
                            /\ connection.access = First
  BY DEF ConnectionInit
<1> QED
  BY <1>2, <1>3, <1>5, <1>6 DEF ConnectionInv, ConnectionInit, Idle, TokensOfOneGrant,
     DisconnectIsFinal

(* The row that is there may be relied on.                                 *)
LEMMA ConnectionIsHeld ==
    ASSUME ConnectionInv, connection # NoRow
    PROVE  Held(connection)
BY DEF ConnectionInv, ConnectionTypeOK, Held, DisconnectIsFinal

(* What is spent stays spent, and a code on its way in was never seen.     *)
LEMMA SpentStays ==
    ASSUME ConnectionInv, ConnectionNext, NEW f, Spent(f)
    PROVE  Spent(f)'
<1> USE DEF ConnectionInv, ConnectionTypeOK
<1>1. ASSUME NEW g \in Flow, Authorize(g) PROVE Spent(f)'
  BY <1>1 DEF Authorize, Spent, Unredeemed
<1>2. ASSUME NEW c \in OAuthCall, NEW g \in Flow, Redeem(c, g) PROVE Spent(f)'
  <2>1. g \in verifiers => g # f
    BY DEF Spent, Unredeemed
  <2>2. begun' = begun /\ verifiers' = verifiers \ {g}
    BY <1>2 DEF Redeem
  <2>3. \E place \in {"store", "refused"} :
           /\ To(c, g, place)
           /\ place = "store" => g \in verifiers
    BY <1>2 DEF Redeem, Exchange
  <2>4. \A d \in OAuthCall : oauth'[d].at = "store" /\ oauth'[d].flow = f =>
           oauth[d].at = "store" /\ oauth[d].flow = f
    BY <2>1, <2>3 DEF To
  <2> QED
    BY <2>2, <2>4 DEF Spent, Unredeemed
<1>3. ASSUME NEW c \in OAuthCall,
             Store(c) \/ ReadConnection(c) \/ DeleteConnection(c) \/ OAuthFails(c)
      PROVE  Spent(f)'
  <2>1. begun' = begun /\ verifiers' = verifiers
    BY <1>3 DEF Store, ReadConnection, DeleteConnection, OAuthFails
  <2>2. \A d \in OAuthCall : oauth'[d].at = "store" => oauth[d] = oauth'[d]
    BY <1>3 DEF Store, ReadConnection, DeleteConnection, OAuthFails, Go, To
  <2> QED
    BY <2>1, <2>2 DEF Spent, Unredeemed
<1>4. ASSUME TokenExpires \/ \E g \in Flow : GrantEnds(g) PROVE Spent(f)'
  BY <1>4 DEF TokenExpires, GrantEnds, Spent, Unredeemed
<1> QED
  BY <1>1, <1>2, <1>3, <1>4 DEF ConnectionNext

(* What a caller relies on holds through everything that is not its own.    *)
LEMMA HeldStays ==
    ASSUME ConnectionInv, ConnectionNext, NEW row, Held(row)
    PROVE  Held(row)'
<1>1. Spent(row.id)' /\ Spent(row.refresh)'
  BY SpentStays DEF Held
<1>2. ASSUME connection' # NoRow, connection'.id = row.id
      PROVE  row.refresh \notin dropped'
  <2>1. ASSUME NEW c \in OAuthCall, Store(c) PROVE row.refresh \notin dropped'
    <3>1. connection = NoRow => connection'.id = oauth[c].flow
      BY <2>1 DEF Store
    <3>2. Unredeemed(oauth[c].flow)
      BY <2>1 DEF Store, At, Unredeemed
    <3>3. connection # NoRow /\ connection'.id = connection.id
      BY <1>2, <2>1, <3>1, <3>2 DEF Held, Spent, Store
    <3> QED
      BY <1>2, <2>1, <3>3 DEF Held, Store
  <2>2. ASSUME NEW c \in OAuthCall,
               DeleteConnection(c) \/ ReadConnection(c) \/ OAuthFails(c)
                 \/ \E f \in Flow : Redeem(c, f)
        PROVE  row.refresh \notin dropped'
    BY <1>2, <2>2 DEF DeleteConnection, ReadConnection, OAuthFails, Redeem, Held
  <2>3. ASSUME TokenExpires \/ \E f \in Flow : Authorize(f) \/ GrantEnds(f)
        PROVE  row.refresh \notin dropped'
    <3>1. dropped' = dropped /\ connection # NoRow
      BY <1>2, <2>3 DEF TokenExpires, Authorize, GrantEnds
    <3>2. connection \in Connection
      BY <3>1 DEF ConnectionInv, ConnectionTypeOK
    <3>3. connection'.id = connection.id
      BY <2>3, <3>2 DEF TokenExpires, Authorize, GrantEnds, Connection
    <3> QED
      BY <1>2, <3>1, <3>3 DEF Held
  <2> QED
    BY <2>1, <2>2, <2>3 DEF ConnectionNext
<1> QED
  BY <1>1, <1>2 DEF Held

(* The parts of the invariant that speak of calls and flows only.          *)
LEMMA CallsStep ==
    ASSUME ConnectionInv, ConnectionNext
    PROVE  /\ ConnectionTypeOK'
           /\ \A c \in OAuthCall : oauth'[c].at = "store" =>
                /\ oauth'[c].flow \in begun' \ verifiers'
                /\ \A d \in OAuthCall \ {c} :
                     oauth'[d].at = "store" => oauth'[d].flow # oauth'[c].flow
<1> DEFINE Calls == \A c \in OAuthCall : oauth[c].at = "store" =>
                      /\ oauth[c].flow \in begun \ verifiers
                      /\ \A d \in OAuthCall \ {c} :
                           oauth[d].at = "store" => oauth[d].flow # oauth[c].flow
<1> USE FlowAssumption DEF ConnectionInv, ConnectionTypeOK
<1>1. ASSUME NEW f \in Flow, Authorize(f) PROVE ConnectionTypeOK' /\ Calls'
  BY <1>1 DEF Authorize
<1>2. ASSUME NEW c \in OAuthCall, NEW f \in Flow, Redeem(c, f)
      PROVE  ConnectionTypeOK' /\ Calls'
  <2>1. PICK place \in {"store", "refused"} :
           /\ To(c, f, place)
           /\ place = "store" => f \in verifiers
    BY <1>2 DEF Redeem, Exchange
  <2>2. /\ begun' = begun /\ verifiers' = verifiers \ {f}
        /\ UNCHANGED <<connection, dropped, crossed>>
    BY <1>2 DEF Redeem
  <2>3. alive' \subseteq alive \cup {f} /\ f \in begun
    BY <1>2 DEF Redeem, Exchange, Authentic
  <2>4. oauth' = [oauth EXCEPT ![c] = [flow |-> f, at |-> place]]
    BY <2>1 DEF To
  <2>5. \A d \in OAuthCall \ {c} : oauth'[d] = oauth[d]
    BY <2>4
  <2>6. oauth'[c].flow = f /\ oauth'[c].at = place
    BY <2>4
  <2>7. ConnectionTypeOK'
    BY <2>2, <2>3, <2>4
  <2>8. Calls'
    BY <2>1, <2>2, <2>3, <2>5, <2>6
  <2> QED
    BY <2>7, <2>8
<1>3. ASSUME NEW c \in OAuthCall, NEW f \in Flow,
             To(c, f, "refused") \/ To(c, f, "delete") \/ Go(c, "done") \/ Go(c, "refused"),
             UNCHANGED <<begun, verifiers>>
      PROVE  /\ Calls'
             /\ oauth' \in [OAuthCall -> [flow : Flow, at : {"idle", "store", "delete",
                               "done", "refused"}]]
  <2>1. oauth'[c].at # "store" /\ \A d \in OAuthCall \ {c} : oauth'[d] = oauth[d]
    BY <1>3 DEF To, Go
  <2>2. oauth[c] \in [flow : Flow, at : {"idle", "store", "delete", "done", "refused"}]
    OBVIOUS
  <2>3. oauth'[c] \in [flow : Flow, at : {"idle", "store", "delete", "done", "refused"}]
    BY <1>3, <2>2 DEF To, Go
  <2> QED
    BY <1>3, <2>1, <2>3 DEF To, Go
<1>4. ASSUME NEW c \in OAuthCall, Store(c) PROVE ConnectionTypeOK' /\ Calls'
  <2>1. oauth[c].flow \in Flow
    OBVIOUS
  <2>2. connection' \in Connection
    BY <1>4, <2>1 DEF Store, Connection
  <2> QED
    BY <1>3, <1>4, <2>1, <2>2 DEF Store
<1>5. ASSUME NEW c \in OAuthCall, ReadConnection(c) PROVE ConnectionTypeOK' /\ Calls'
  <2>1. connection # NoRow => connection.refresh \in Flow
    BY DEF Connection
  <2>2. alive' \subseteq alive
    BY <1>5 DEF ReadConnection, Revoke
  <2> QED
    BY <1>3, <1>5, <2>1, <2>2 DEF ReadConnection
<1>6. ASSUME NEW c \in OAuthCall, DeleteConnection(c) \/ OAuthFails(c)
      PROVE  ConnectionTypeOK' /\ Calls'
  <2>1. connection # NoRow => {connection.refresh, connection.access} \subseteq begun
    BY DEF Spent
  <2> QED
    BY <1>3, <1>6, <2>1 DEF DeleteConnection, OAuthFails
<1>7. ASSUME TokenExpires \/ \E f \in Flow : GrantEnds(f) PROVE ConnectionTypeOK' /\ Calls'
  BY <1>7 DEF TokenExpires, GrantEnds, Connection
<1> QED
  BY <1>1, <1>2, <1>4, <1>5, <1>6, <1>7 DEF ConnectionNext

(* The calls of the OAuth routes, and what Google does by itself.           *)
LEMMA ConnectionStep ==
    ASSUME ConnectionInv, ConnectionNext
    PROVE  ConnectionInv'
<1> USE DEF ConnectionInv
<1>1. Spent(First)'
  BY SpentStays
<1>2. ASSUME NEW c \in OAuthCall, Store(c)
      PROVE  /\ \A f \in dropped' : Spent(f)'
             /\ Spent(connection.id)' /\ Spent(connection.refresh)'
             /\ Spent(connection.access)'
             /\ TokensOfOneGrant' /\ DisconnectIsFinal'
  <2> DEFINE f == oauth[c].flow
  <2>1. f \in begun \ verifiers /\ Unredeemed(f)
    BY <1>2 DEF Store, At, Unredeemed
  <2>2. /\ dropped' = dropped /\ begun' = begun /\ verifiers' = verifiers
        /\ connection'.refresh = f /\ connection'.access = f
        /\ connection'.id = IF connection = NoRow THEN f ELSE connection.id
        /\ oauth' = [oauth EXCEPT ![c].at = "done"]
    BY <1>2 DEF Store, Go
  <2>3. Spent(f)'
    BY <1>2, <2>1, <2>2 DEF Spent, Unredeemed, ConnectionTypeOK, Store, At
  <2>4. f \notin dropped
    BY <2>1 DEF Spent
  <2> QED
    BY <2>2, <2>3, <2>4, SpentStays DEF TokensOfOneGrant, DisconnectIsFinal
<1>3. ASSUME NEW c \in OAuthCall, DeleteConnection(c)
      PROVE  /\ \A f \in dropped' : Spent(f)'
             /\ connection' = NoRow
             /\ TokensOfOneGrant' /\ DisconnectIsFinal'
  <2>1. connection' = NoRow
    BY <1>3 DEF DeleteConnection
  <2>2. \A f \in dropped' : Spent(f)
    BY <1>3 DEF DeleteConnection
  <2> QED
    BY <2>1, <2>2, SpentStays DEF TokensOfOneGrant, DisconnectIsFinal
<1>4. ASSUME UNCHANGED <<dropped, crossed>>,
             \/ connection' = connection
             \/ TokenExpires
      PROVE  /\ \A f \in dropped' : Spent(f)'
             /\ connection' # NoRow =>
                  /\ Spent(connection.id)' /\ Spent(connection.refresh)'
                  /\ Spent(connection.access)'
             /\ TokensOfOneGrant' /\ DisconnectIsFinal'
  <2>1. connection # NoRow => connection \in Connection
    BY DEF ConnectionTypeOK
  <2>2. connection' # NoRow =>
          /\ connection # NoRow /\ connection'.id = connection.id
          /\ connection'.refresh = connection.refresh
          /\ connection'.access = connection.access
    BY <1>4, <2>1 DEF TokenExpires, Connection
  <2> QED
    BY <1>4, <2>2, SpentStays DEF TokensOfOneGrant, DisconnectIsFinal
<1>5. \A c \in OAuthCall : ReadConnection(c) \/ OAuthFails(c) \/ (\E f \in Flow : Redeem(c, f))
        => UNCHANGED <<connection, dropped, crossed>>
  BY DEF Redeem, ReadConnection, OAuthFails
<1>6. (\E f \in Flow : Authorize(f) \/ GrantEnds(f)) => UNCHANGED <<connection, dropped, crossed>>
  BY DEF Authorize, GrantEnds
<1>7. TokenExpires => UNCHANGED <<dropped, crossed>>
  BY DEF TokenExpires
<1>8. \/ \E c \in OAuthCall : Store(c) \/ DeleteConnection(c)
      \/ UNCHANGED <<dropped, crossed>> /\ (connection' = connection \/ TokenExpires)
  BY <1>5, <1>6, <1>7 DEF ConnectionNext
<1> QED
  BY <1>1, <1>2, <1>3, <1>4, <1>8, CallsStep

(* The refreshed token of a row read earlier: only the row with its id can *)
(* take it.                                                                *)
LEMMA PersistStep ==
    ASSUME ConnectionInv, NEW row, Held(row), Persist(row),
           UNCHANGED <<verifiers, begun, alive, oauth, dropped>>
    PROVE  /\ ConnectionInv'
           /\ \A other : Held(other) => Held(other)'
<1>1. \A f : Spent(f) <=> Spent(f)'
  BY DEF Spent, Unredeemed
<1>2. CASE UNCHANGED <<connection, crossed>>
  <2>1. ConnectionInv'
    BY <1>1, <1>2 DEF ConnectionInv, ConnectionTypeOK, TokensOfOneGrant, DisconnectIsFinal
  <2> QED
    BY <1>1, <1>2, <2>1 DEF Held
<1>3. CASE ~UNCHANGED <<connection, crossed>>
  <2>1. /\ connection # NoRow /\ connection.id = row.id
        /\ connection' = [connection EXCEPT !.access = row.refresh, !.fresh = TRUE]
        /\ crossed' = (crossed \/ connection.refresh # row.refresh)
    BY <1>3 DEF Persist
  <2>2. connection \in Connection /\ row \in Connection
    BY <2>1 DEF ConnectionInv, ConnectionTypeOK, Held
  <2>3. /\ connection' \in Connection /\ connection' # NoRow
        /\ connection'.id = connection.id /\ connection'.refresh = connection.refresh
        /\ connection'.access = row.refresh
    BY <2>1, <2>2, NoRowAssumption DEF Connection
  <2>4. row.refresh \notin dropped /\ Spent(row.refresh)'
    BY <1>1, <2>1 DEF Held
  <2>5. ConnectionTypeOK'
    BY <2>1, <2>3 DEF ConnectionInv, ConnectionTypeOK
  <2>6. TokensOfOneGrant' /\ DisconnectIsFinal'
    BY <2>1, <2>3, <2>4 DEF ConnectionInv, TokensOfOneGrant, DisconnectIsFinal
  <2>7. ConnectionInv'
    BY <1>1, <2>1, <2>3, <2>4, <2>5, <2>6 DEF ConnectionInv
  <2> QED
    BY <1>1, <2>1, <2>3, <2>7 DEF Held
<1> QED
  BY <1>2, <1>3

-----------------------------------------------------------------------------
(* The steps of a route                                                    *)

(* What comes after a step that is not the route's last.                   *)
After(kind, place) ==
    CASE place = "token"     -> IF kind = "link" THEN "upload"
                                ELSE IF kind = "keep_app" THEN "detach" ELSE "cursor"
      [] place = "upload"    -> "cursor"
      [] place = "cursor"    -> IF kind = "link" THEN "insert" ELSE "export"
      [] place = "export"    -> "overwrite"
      [] place = "overwrite" -> "recheck"
      [] place = "recheck"   -> "detach"
      [] place = "detach"    -> "remove"

Last(kind, place) ==
    \/ place \in {"insert", "remove"}
    \/ kind = "status" /\ place = "cursor"
    \/ kind = "pull" /\ place = "overwrite"

Pulls == {"pull", "pull_final"}
Unlinks == {"pull_final", "keep_app"}

(* Which routes take a step, and which step is next.                       *)
LEMMA PathStep ==
    ASSUME NEW kind \in Kinds, NEW n \in 1 .. 7, n <= Len(Path(kind)),
           NEW place, place = Path(kind)[n]
    PROVE  /\ place \in {"token", "upload", "cursor", "insert", "export", "overwrite",
                         "recheck", "detach", "remove"}
           /\ place \in {"upload", "insert"} => kind = "link"
           /\ place \in {"export", "overwrite"} => kind \in Pulls
           /\ place = "recheck" => kind = "pull_final"
           /\ place \in {"detach", "remove"} => kind \in Unlinks
           /\ place = "cursor" => kind # "keep_app"
           /\ ~Last(kind, place) =>
                n + 1 <= 7 /\ n + 1 <= Len(Path(kind)) /\ Path(kind)[n + 1] = After(kind, place)
<1> USE DEF Last, After, Pulls, Unlinks
<1>1. CASE kind = "link"
  <2>1. Path(kind) = <<"token", "upload", "cursor", "insert">>
    BY <1>1 DEF Path
  <2>2. n \in {1, 2, 3, 4}
    BY <2>1
  <2> QED
    BY <1>1, <2>1, <2>2
<1>2. CASE kind = "status"
  <2>1. Path(kind) = <<"token", "cursor">>
    BY <1>2 DEF Path
  <2>2. n \in {1, 2}
    BY <2>1
  <2> QED
    BY <1>2, <2>1, <2>2
<1>3. CASE kind = "pull"
  <2>1. Path(kind) = <<"token", "cursor", "export", "overwrite">>
    BY <1>3 DEF Path
  <2>2. n \in {1, 2, 3, 4}
    BY <2>1
  <2> QED
    BY <1>3, <2>1, <2>2
<1>4. CASE kind = "pull_final"
  <2>1. Path(kind) = <<"token", "cursor", "export", "overwrite", "recheck", "detach", "remove">>
    BY <1>4 DEF Path
  <2>2. /\ Path(kind)[1] = "token" /\ Path(kind)[2] = "cursor" /\ Path(kind)[3] = "export"
        /\ Path(kind)[4] = "overwrite" /\ Path(kind)[5] = "recheck"
        /\ Path(kind)[6] = "detach" /\ Path(kind)[7] = "remove" /\ Len(Path(kind)) = 7
    BY <2>1
  <2>3. CASE n \in {1, 2, 3}
    BY <1>4, <2>2, <2>3
  <2>4. CASE n \in {4, 5, 6, 7}
    BY <1>4, <2>2, <2>4
  <2> QED
    BY <2>3, <2>4
<1>5. CASE kind = "keep_app"
  <2>1. Path(kind) = <<"token", "detach", "remove">>
    BY <1>5 DEF Path
  <2>2. /\ Path(kind)[1] = "token" /\ Path(kind)[2] = "detach" /\ Path(kind)[3] = "remove"
        /\ Len(Path(kind)) = 3
    BY <2>1
  <2>3. n = 1 \/ n = 2 \/ n = 3
    BY <2>2
  <2> QED
    BY <1>5, <2>2, <2>3
<1> QED
  BY <1>1, <1>2, <1>3, <1>4, <1>5 DEF Kinds

(* Where a request stands says which route it serves, that it is not       *)
(* answered, and what it holds.                                            *)
LEMMA StandsAt ==
    ASSUME LinksInv, NEW r \in Request, Step(r) # "none"
    PROVE  /\ Active(r) /\ req[r] \in Call
           /\ req[r].conn \in Connection /\ Held(req[r].conn)
           /\ File(r) \in Request
           /\ req[r].kind # "link" => /\ File(r) = req[r].file /\ rows[File(r)] # NoRow
                                      /\ files[File(r)] # NoRow
           /\ req[r].kind = "link" => rows[r] = NoRow /\ req[r].file = r
           /\ Step(r) \in {"token", "upload", "cursor", "insert", "export", "overwrite",
                           "recheck", "detach", "remove"}
           /\ Step(r) \in {"upload", "insert"} => req[r].kind = "link"
           /\ Step(r) \in {"export", "overwrite"} => req[r].kind \in Pulls
           /\ Step(r) = "recheck" => req[r].kind = "pull_final"
           /\ Step(r) \in {"detach", "remove"} => req[r].kind \in Unlinks
           /\ Step(r) = "cursor" => req[r].kind # "keep_app"
<1>1. Active(r) /\ Step(r) = Path(req[r].kind)[req[r].step]
  BY DEF Step, Active
<1>2. req[r] \in Call
  BY DEF LinksInv, TypeInv
<1>3. /\ req[r].kind \in Kinds /\ req[r].step \in 1 .. 7
      /\ req[r].step <= Len(Path(req[r].kind))
  BY <1>1, <1>2 DEF LinksInv, RequestInv, Active, Call, StepNo
<1>4. /\ Held(req[r].conn)
      /\ IF req[r].kind = "link" THEN req[r].file = r
         ELSE req[r].file \in Request /\ rows[req[r].file] # NoRow
  BY <1>1 DEF LinksInv, RequestInv
<1>5. req[r].kind = "link" => rows[r] = NoRow
  BY <1>1 DEF LinksInv, RowInv, Active
<1>6. \A f \in Request : rows[f] # NoRow => files[f] # NoRow
  BY DEF LinksInv, RowInv
<1>7. /\ Step(r) \in {"token", "upload", "cursor", "insert", "export", "overwrite",
                        "recheck", "detach", "remove"}
      /\ Step(r) \in {"upload", "insert"} => req[r].kind = "link"
      /\ Step(r) \in {"export", "overwrite"} => req[r].kind \in Pulls
      /\ Step(r) = "recheck" => req[r].kind = "pull_final"
      /\ Step(r) \in {"detach", "remove"} => req[r].kind \in Unlinks
      /\ Step(r) = "cursor" => req[r].kind # "keep_app"
  <2> DEFINE place == Step(r)
  <2>1. place = Path(req[r].kind)[req[r].step]
    BY <1>1
  <2> HIDE DEF place
  <2>2. /\ place \in {"token", "upload", "cursor", "insert", "export", "overwrite",
                        "recheck", "detach", "remove"}
        /\ place \in {"upload", "insert"} => req[r].kind = "link"
        /\ place \in {"export", "overwrite"} => req[r].kind \in Pulls
        /\ place = "recheck" => req[r].kind = "pull_final"
        /\ place \in {"detach", "remove"} => req[r].kind \in Unlinks
        /\ place = "cursor" => req[r].kind # "keep_app"
    BY <1>3, <2>1, PathStep
  <2> QED
    BY <2>2 DEF place
<1>8. File(r) = IF req[r].kind = "link" THEN r ELSE req[r].file
  BY DEF File
<1> QED
  BY <1>1, <1>2, <1>4, <1>5, <1>6, <1>7, <1>8 DEF Held

(* Calls that move on, and calls that end.                                 *)
Moved(c, n, v, x) == [[c EXCEPT !.step = n] EXCEPT !.version = v, !.exported = x]
Ended(c, kind, n, a, file) == [c EXCEPT !.kind = kind, !.step = n, !.answer = a, !.file = file]

LEMMA CallMoves ==
    ASSUME NEW c \in Call, NEW n \in StepNo, NEW v \in Version, NEW x \in Version
    PROVE  /\ Moved(c, n, v, x) \in Call
           /\ Moved(c, n, v, x).step = n
           /\ Moved(c, n, v, x).version = v /\ Moved(c, n, v, x).exported = x
           /\ Moved(c, n, v, x).kind = c.kind /\ Moved(c, n, v, x).file = c.file
           /\ Moved(c, n, v, x).conn = c.conn /\ Moved(c, n, v, x).answer = c.answer
BY DEF Call, Moved

LEMMA CallEnds ==
    ASSUME NEW c \in Call, NEW kind \in Kinds, NEW n \in StepNo, NEW a \in Answers,
           NEW file \in Request \cup {NoRow}
    PROVE  /\ Ended(c, kind, n, a, file) \in Call
           /\ Ended(c, kind, n, a, file).kind = kind /\ Ended(c, kind, n, a, file).step = n
           /\ Ended(c, kind, n, a, file).answer = a /\ Ended(c, kind, n, a, file).file = file
BY DEF Call, Ended

LEMMA UnsentIsACall == Unsent \in Call
<1>1. Saved(0) \in Content
  BY LinkBoundsAssumption DEF Content
<1> QED
  BY <1>1, LinkBoundsAssumption DEF Call, Unsent, Kinds, Answers, StepNo, Version

(* One step further on the route.                                          *)
Moves(r, v, x) == req' = [req EXCEPT ![r] = [Next1(r) EXCEPT !.version = v, !.exported = x]]

(* The request stands where its route goes on, with what it read.           *)
LEMMA StandsAfter ==
    ASSUME LinksInv, NEW r \in Request, Step(r) # "none", ~Last(req[r].kind, Step(r)),
           NEW v \in Version, NEW x \in Version,
           Moves(r, v, x)
    PROVE  /\ req' \in [Request -> Call]
           /\ \A q \in Request \ {r} : req'[q] = req[q]
           /\ req'[r].kind = req[r].kind /\ req'[r].file = req[r].file
           /\ req'[r].conn = req[r].conn /\ req'[r].answer = "none"
           /\ req'[r].version = v /\ req'[r].exported = x
           /\ Active(r)' /\ req'[r].step <= Len(Path(req[r].kind))
           /\ Step(r)' = After(req[r].kind, Step(r))
<1>1. Active(r) /\ Step(r) = Path(req[r].kind)[req[r].step]
  BY DEF Step, Active
<1>2. req \in [Request -> Call] /\ req[r] \in Call
  BY DEF LinksInv, TypeInv
<1>3. /\ req[r].kind \in Kinds /\ req[r].step \in 1 .. 7
      /\ req[r].step <= Len(Path(req[r].kind))
  BY <1>1, <1>2 DEF LinksInv, RequestInv, Active, Call, StepNo
<1>4. /\ req[r].step + 1 <= 7 /\ req[r].step + 1 <= Len(Path(req[r].kind))
      /\ Path(req[r].kind)[req[r].step + 1] = After(req[r].kind, Step(r))
  BY <1>1, <1>3, PathStep
<1> DEFINE c == [Next1(r) EXCEPT !.version = v, !.exported = x]
<1>5. /\ c \in Call /\ c.step = req[r].step + 1
      /\ c.kind = req[r].kind /\ c.file = req[r].file
      /\ c.conn = req[r].conn /\ c.answer = req[r].answer
      /\ c.version = v /\ c.exported = x
  <2> DEFINE n == req[r].step + 1
  <2>1. n \in StepNo /\ n = req[r].step + 1
    BY <1>3, <1>4 DEF StepNo
  <2>2. c = Moved(req[r], n, v, x)
    BY DEF Next1, Moved
  <2> HIDE DEF c, n
  <2> QED
    BY <1>2, <2>1, <2>2, CallMoves
<1>6. req'[r] = c /\ req' \in [Request -> Call] /\ \A q \in Request \ {r} : req'[q] = req[q]
  BY <1>2, <1>5 DEF Moves
<1> HIDE DEF c
<1>7. c.step # 0 /\ c.answer = "none"
  BY <1>1, <1>3, <1>5 DEF Active
<1>8. Active(r)' /\ Step(r)' = Path(c.kind)[c.step]
  BY <1>6, <1>7 DEF Active, Step
<1> QED
  BY <1>1, <1>4, <1>5, <1>6, <1>8 DEF Active

(* The same when nothing of what was read changes.                         *)
LEMMA AdvanceIsAStep ==
    ASSUME LinksInv, NEW r \in Request, Advance(r)
    PROVE  Moves(r, req[r].version, req[r].exported)
<1>1. req[r] \in Call
  BY DEF LinksInv, TypeInv
<1>2. Next1(r) = [Next1(r) EXCEPT !.version = req[r].version, !.exported = req[r].exported]
  BY <1>1 DEF Call, Next1
<1> QED
  BY <1>2 DEF Advance, Moves

(* An answer ends a request; what it had read is gone.                     *)
LEMMA AnswerEnds ==
    ASSUME LinksInv, NEW r \in Request, NEW a \in Answers \ {"none"}, Answer(r, a),
           req[r].kind # "link" => files'[r] = NoRow,
           (req[r].kind \in Unlinks /\ a = "ok") => Detached(req[r].file)'
    PROVE  /\ req' \in [Request -> Call]
           /\ \A q \in Request \ {r} : req'[q] = req[q]
           /\ req'[r].kind = req[r].kind /\ req'[r].answer = a
           /\ RequestInv(r)'
<1> DEFINE c == [Unsent EXCEPT !.kind = req[r].kind, !.step = 1, !.answer = a,
                   !.file = IF a = "ok" THEN req[r].file ELSE @]
<1>1. req \in [Request -> Call] /\ req[r] \in Call
  BY DEF LinksInv, TypeInv
<1>2. /\ req[r].kind \in Kinds
      /\ (IF a = "ok" THEN req[r].file ELSE NoRow) \in Request \cup {NoRow}
  BY <1>1 DEF Call
<1>3. /\ c \in Call /\ c.kind = req[r].kind /\ c.step = 1 /\ c.answer = a
      /\ a = "ok" => c.file = req[r].file
  <2> DEFINE n == 1
  <2>1. c = Ended(Unsent, req[r].kind, n, a, IF a = "ok" THEN req[r].file ELSE NoRow)
    BY DEF Unsent, Ended
  <2>2. n \in StepNo /\ n = 1
    BY DEF StepNo
  <2> HIDE DEF c, n
  <2> QED
    BY <1>2, <2>1, <2>2, CallEnds, UnsentIsACall
<1>4. req' = [req EXCEPT ![r] = c]
  BY DEF Answer
<1> HIDE DEF c
<1>5. req'[r] = c /\ req' \in [Request -> Call] /\ \A q \in Request \ {r} : req'[q] = req[q]
  BY <1>1, <1>3, <1>4
<1>6. Step(r)' = "none" /\ ~Active(r)'
  BY <1>3, <1>5 DEF Step, Active
<1> QED
  BY <1>3, <1>5, <1>6 DEF RequestInv, Unlinks

-----------------------------------------------------------------------------
(* What a step leaves standing                                             *)

FileType == [Request -> {NoRow} \cup [version : 1 .. MaxVersion, there : BOOLEAN,
                                      account : Account]]
RowType == [Request -> {NoRow} \cup [state : {"linked", "error", "unlinked"},
                                     cursor : 1 .. MaxVersion]]

(* No Doc is made or edited; no link is made and none comes back to life.  *)
FilesStay ==
    \A f \in Request :
      /\ files'[f] = NoRow <=> files[f] = NoRow
      /\ files[f] # NoRow => files'[f].version = files[f].version
RowsStay ==
    \A f \in Request :
      /\ rows'[f] = NoRow <=> rows[f] = NoRow
      /\ rows[f] # NoRow => /\ rows'[f].cursor = rows[f].cursor
                            /\ rows'[f].state = "linked" => rows[f].state = "linked"
HeldStay == \A row : Held(row) => Held(row)'

(* A step that leaves the connection alone leaves its invariant alone.      *)
LEMMA SameConnection ==
    ASSUME ConnectionInv, UNCHANGED connectionVars
    PROVE  ConnectionInv' /\ HeldStay
<1>1. \A f : Spent(f) <=> Spent(f)'
  BY DEF Spent, Unredeemed, connectionVars
<1>2. ConnectionInv'
  BY <1>1 DEF ConnectionInv, ConnectionTypeOK, TokensOfOneGrant, DisconnectIsFinal, connectionVars
<1> QED
  BY <1>1, <1>2 DEF HeldStay, Held, connectionVars

(* A request that does not step keeps what it has established.             *)
LEMMA RequestFrame ==
    ASSUME LinksInv, NEW q \in Request, req'[q] = req[q], files' \in FileType, HeldStay,
           \A f \in Request : files[f] # NoRow =>
             files'[f] # NoRow /\ files[f].version <= files'[f].version,
           files[q] = NoRow => files'[q] = NoRow,
           \A f \in Request : rows[f] # NoRow =>
             rows'[f] # NoRow /\ (rows'[f].state = "linked" => rows[f].state = "linked"),
           req[q].exported # 0 => q \in over' \/ (content' = content /\ q \notin over)
    PROVE  RequestInv(q)'
<1>1. Step(q)' = Step(q) /\ (Active(q)' <=> Active(q)) /\ File(q)' = File(q)
  BY DEF Step, Active, File
<1>2. RequestInv(q)
  BY DEF LinksInv
<1>3. \A f : Detached(f) => Detached(f)'
  BY DEF Detached
<1>4. req[q] \in Call
  BY DEF LinksInv, TypeInv
<1>5. Step(q) # "none" => File(q) \in Request
  BY StandsAt
<1>6. Step(q) \in {"insert", "export", "overwrite"} => files[File(q)] # NoRow
  <2>1. Step(q) = "insert" => req[q].kind = "link" /\ files[q] # NoRow
    BY <1>2, StandsAt DEF RequestInv
  <2>2. Step(q) \in {"export", "overwrite"} => req[q].kind # "link"
    BY StandsAt DEF Pulls
  <2> QED
    BY <2>1, <2>2, StandsAt DEF File
<1>7. Step(q) \in {"insert", "export", "overwrite"} =>
        /\ files[File(q)].version \in 1 .. MaxVersion
        /\ files'[File(q)].version \in 1 .. MaxVersion
        /\ files[File(q)].version <= files'[File(q)].version
  <2>1. files \in FileType
    BY DEF LinksInv, TypeInv, LinksTypeOK, FileType
  <2> QED
    BY <1>5, <1>6, <2>1 DEF FileType
<1>8. req[q].version \in Nat /\ req[q].exported \in Nat
  BY <1>4, LinkBoundsAssumption DEF Call, Version
<1>9. /\ Step(q) \in {"insert", "export", "overwrite"} =>
           1 <= req[q].version /\ req[q].version <= files'[File(q)].version
      /\ Step(q) = "overwrite" =>
           req[q].version <= req[q].exported /\ req[q].exported <= files'[File(q)].version
  BY <1>2, <1>7, <1>8, LinkBoundsAssumption DEF RequestInv
<1>10. Active(q) => /\ req[q].step <= Len(Path(req[q].kind))
                    /\ Held(req[q].conn)'
                    /\ IF req[q].kind = "link" THEN req[q].file = q
                       ELSE req[q].file \in Request /\ rows'[req[q].file] # NoRow
  BY <1>2 DEF RequestInv, HeldStay
<1>11. /\ (req[q].step = 0 \/ req[q].kind # "link" \/ Step(q) \in {"token", "upload"}) =>
            files'[q] = NoRow
       /\ (req[q].kind = "link" /\ Step(q) \in {"cursor", "insert"}) => files'[q] # NoRow
  BY <1>2 DEF RequestInv
<1>12. (req[q].kind = "pull_final" /\ Step(q) \in {"recheck", "detach", "remove"}) =>
         /\ req[q].exported # 0
         /\ q \in over' \/ content' = Rendition(req[q].file, req[q].exported)
  BY <1>2 DEF RequestInv
<1>13. /\ req[q].step = 0 => req[q].answer = "none"
       /\ Step(q) = "remove" => Detached(req[q].file)'
       /\ (req[q].kind \in {"pull_final", "keep_app"} /\ req[q].answer = "ok") =>
            Detached(req[q].file)'
  BY <1>2, <1>3 DEF RequestInv
<1> QED
  BY <1>1, <1>9, <1>10, <1>11, <1>12, <1>13 DEF RequestInv

(* A step that makes and edits no Doc and makes no link, but moves or ends *)
(* one request.                                                            *)
LEMMA QuietStep ==
    ASSUME LinksInv, NEW r \in Request, TypeInv', ConnectionInv', HeldStay,
           \A q \in Request \ {r} : req'[q] = req[q],
           UNCHANGED <<content, pulled, early, over>>, FilesStay, RowsStay,
           (req'[r].kind = "link" /\ req'[r].answer = "ok") <=> rows[r] # NoRow,
           RequestInv(r)'
    PROVE  LinksInv'
<1>1. files \in FileType /\ files' \in FileType
  BY DEF LinksInv, TypeInv, LinksTypeOK, FileType
<1>2. \A f \in Request : files[f] # NoRow =>
        files'[f] # NoRow /\ files[f].version <= files'[f].version
  BY <1>1 DEF FilesStay, FileType
<1>3. ASSUME NEW q \in Request, q # r PROVE RequestInv(q)'
  BY <1>1, <1>2, <1>3, RequestFrame DEF FilesStay, RowsStay
<1>4. ASSUME NEW f \in Request PROVE RowInv(f)'
  <2>1. (rows[f] # NoRow <=> (req[f].kind = "link" /\ req[f].answer = "ok")) /\ RowInv(f)
    BY DEF LinksInv, RowInv
  <2>2. rows'[f] # NoRow <=> (req'[f].kind = "link" /\ req'[f].answer = "ok")
    BY <2>1 DEF RowsStay
  <2> QED
    BY <2>1, <2>2 DEF RowInv, FilesStay, RowsStay
<1>5. \A f, g \in LiveRows' : f = g
  BY DEF LinksInv, LiveRows, RowsStay
<1> QED
  BY <1>3, <1>4, <1>5 DEF LinksInv

(* The request that moved on has established what its new place asks for.  *)
LEMMA MovedRequest ==
    ASSUME LinksInv, NEW r \in Request, Step(r) # "none", ~Last(req[r].kind, Step(r)),
           NEW v \in Version, NEW x \in Version, HeldStay,
           Moves(r, v, x),
           NEW next, next = After(req[r].kind, Step(r)),
           \A f \in Request : rows[f] # NoRow => rows'[f] # NoRow,
           req[r].kind # "link" \/ next = "upload" => files'[r] = NoRow,
           req[r].kind = "link" /\ next \in {"cursor", "insert"} => files'[r] # NoRow,
           next \in {"insert", "export", "overwrite"} =>
             1 <= v /\ v <= files'[File(r)].version,
           next = "overwrite" => v <= x /\ x <= files'[File(r)].version,
           (req[r].kind = "pull_final" /\ next \in {"recheck", "detach", "remove"}) =>
             x # 0 /\ (r \in over' \/ content' = Rendition(req[r].file, x)),
           next = "remove" => Detached(req[r].file)'
    PROVE  RequestInv(r)'
<1>1. /\ req'[r].kind = req[r].kind /\ req'[r].file = req[r].file
      /\ req'[r].conn = req[r].conn /\ req'[r].answer = "none"
      /\ req'[r].version = v /\ req'[r].exported = x
      /\ Active(r)' /\ req'[r].step <= Len(Path(req[r].kind))
      /\ Step(r)' = After(req[r].kind, Step(r))
  BY StandsAfter
<1>2. File(r)' = File(r)
  BY <1>1 DEF File
<1>3. next # "token" /\ req'[r].step # 0
  BY <1>1, StandsAt DEF After, Last, Active, Pulls, Unlinks
<1>4. /\ \A row : row = req[r].conn => Held(row)'
      /\ IF req[r].kind = "link" THEN req[r].file = r
         ELSE req[r].file \in Request /\ rows'[req[r].file] # NoRow
  BY StandsAt DEF HeldStay
<1> QED
  BY <1>1, <1>2, <1>3, <1>4 DEF RequestInv

(* A request is answered, and nothing else happens to Docs and links than  *)
(* that one of them may go.                                                *)
LEMMA QuietAnswer ==
    ASSUME LinksInv, NEW r \in Request, NEW a \in Answers \ {"none"}, Answer(r, a),
           Step(r) # "none", files' \in FileType, rows' \in RowType, FilesStay, RowsStay,
           UNCHANGED <<connectionVars, content, revisions, pulled, early, over>>,
           req[r].kind = "link" => a # "ok",
           (req[r].kind \in Unlinks /\ a = "ok") => Detached(req[r].file)'
    PROVE  LinksInv'
<1>1. req[r].kind # "link" => files'[r] = NoRow
  BY DEF LinksInv, RequestInv, FilesStay
<1>2. /\ req' \in [Request -> Call]
      /\ \A q \in Request \ {r} : req'[q] = req[q]
      /\ req'[r].kind = req[r].kind /\ req'[r].answer = a
      /\ RequestInv(r)'
  BY <1>1, AnswerEnds
<1>3. rows[r] = NoRow
  BY StandsAt DEF LinksInv, RowInv, Active
<1>4. ConnectionInv' /\ HeldStay
  BY SameConnection DEF LinksInv
<1>5. TypeInv'
  BY <1>2, <1>4 DEF LinksInv, ConnectionInv, TypeInv, LinksTypeOK, FileType, RowType
<1> QED
  BY <1>2, <1>3, <1>4, <1>5, QuietStep

(* A request moves on while Docs and links stay as they are, or a link     *)
(* stops being live.                                                       *)
LEMMA QuietMove ==
    ASSUME LinksInv, NEW r \in Request, Step(r) # "none", ~Last(req[r].kind, Step(r)),
           NEW v \in Version, NEW x \in Version, ConnectionInv', HeldStay,
           Moves(r, v, x),
           UNCHANGED <<content, revisions, files, pulled, early, over>>,
           rows' \in RowType, RowsStay, RequestInv(r)'
    PROVE  LinksInv'
<1>1. /\ req' \in [Request -> Call]
      /\ \A q \in Request \ {r} : req'[q] = req[q]
      /\ req'[r].answer = "none"
  BY StandsAfter
<1>2. rows[r] = NoRow
  BY StandsAt DEF LinksInv, RowInv, Active
<1>3. TypeInv'
  BY <1>1 DEF LinksInv, ConnectionInv, TypeInv, LinksTypeOK, RowType
<1>4. FilesStay
  BY DEF FilesStay
<1> QED
  BY <1>1, <1>2, <1>3, <1>4, QuietStep

-----------------------------------------------------------------------------
(* Every step preserves the invariant                                      *)

(* An uploaded Doc and a stored link are not the absent ones.               *)
LEMMA DocIsAFile ==
    ASSUME NEW g \in Flow
    PROVE  /\ Doc(g) \in [version : 1 .. MaxVersion, there : BOOLEAN, account : Account]
           /\ Doc(g).version = 1 /\ Doc(g) # NoRow
<1>1. AccountOf[g] \in Account /\ 1 \in 1 .. MaxVersion /\ 1 \in Nat
  BY FlowAssumption, LinkBoundsAssumption
<1>2. /\ Doc(g) \in [version : 1 .. MaxVersion, there : BOOLEAN, account : Account]
      /\ Doc(g) \in [version : Nat, there : BOOLEAN, account : Account]
      /\ Doc(g).version = 1
  BY <1>1 DEF Doc
<1> QED
  BY <1>2, NoLinkAssumption

LEMMA LinkIsARow ==
    ASSUME NEW v \in 1 .. MaxVersion
    PROVE  /\ Link(v) \in [state : {"linked", "error", "unlinked"}, cursor : 1 .. MaxVersion]
           /\ Link(v).cursor = v /\ Link(v).state = "linked" /\ Link(v) # NoRow
<1>1. v \in Nat
  BY LinkBoundsAssumption
<1>2. /\ Link(v) \in [state : {"linked", "error", "unlinked"}, cursor : 1 .. MaxVersion]
      /\ Link(v) \in [state : {"linked", "error", "unlinked"}, cursor : Nat]
      /\ Link(v).cursor = v /\ Link(v).state = "linked"
  BY <1>1 DEF Link
<1> QED
  BY <1>2, NoLinkAssumption

(* One link, or none, and nothing under way.                                *)
LEMMA LinksInvInit == Init => LinksInv
<1> SUFFICES ASSUME Init PROVE LinksInv
  OBVIOUS
<1>1. PICK linked \in {{}, {Earlier}} :
        /\ files = [r \in Request |-> IF r \in linked THEN Doc(First) ELSE NoRow]
        /\ rows = [r \in Request |-> IF r \in linked THEN Link(1) ELSE NoRow]
        /\ req = [r \in Request |->
                    IF r # Earlier THEN Unsent
                    ELSE [Unsent EXCEPT !.kind = "link", !.step = 1,
                            !.answer = IF r \in linked THEN "ok" ELSE "error"]]
        /\ pulled = [r \in Request |-> IF r \in linked THEN 1 ELSE 0]
  BY DEF Init
<1> DEFINE n == 1
           answer == IF Earlier \in linked THEN "ok" ELSE "error"
<1>2. /\ Doc(First) \in [version : 1 .. MaxVersion, there : BOOLEAN, account : Account]
      /\ Doc(First).version = 1 /\ Doc(First) # NoRow
  BY FlowAssumption, DocIsAFile
<1>3. /\ Link(1) \in [state : {"linked", "error", "unlinked"}, cursor : 1 .. MaxVersion]
      /\ Link(1).cursor = 1 /\ Link(1) # NoRow
  BY LinkBoundsAssumption, LinkIsARow
<1>4. Unsent.kind = "status" /\ Unsent.step = 0 /\ Unsent.answer = "none"
  BY DEF Unsent
<1>5. /\ req[Earlier] \in Call /\ req[Earlier].kind = "link" /\ req[Earlier].step = 1
      /\ req[Earlier].answer = answer
  <2>1. req[Earlier] = [Unsent EXCEPT !.kind = "link", !.step = 1, !.answer = answer]
    BY <1>1, EarlierAssumption
  <2>3. req[Earlier] = Ended(Unsent, "link", n, answer, NoRow)
    BY <2>1 DEF Ended, Unsent
  <2>2. n \in StepNo /\ n = 1 /\ answer \in Answers /\ "link" \in Kinds
    BY DEF StepNo, Answers, Kinds
  <2> HIDE DEF n, answer
  <2> QED
    BY <2>2, <2>3, CallEnds, UnsentIsACall
<1> HIDE DEF n
<1>6. \A r \in Request \ {Earlier} : req[r] = Unsent /\ rows[r] = NoRow /\ files[r] = NoRow
  BY <1>1
<1>7. req \in [Request -> Call]
  <2>1. \A r \in Request : req[r] \in Call
    BY <1>5, <1>6, UnsentIsACall
  <2> QED
    BY <1>1, <2>1
<1>8. ConnectionInv
  BY ConnectionInvInit DEF Init
<1>9. TypeInv
  <2>1. content = Saved(0) /\ revisions = {} /\ early = {} /\ over = {}
    BY DEF Init
  <2>2. content \in Content
    BY <2>1, LinkBoundsAssumption DEF Content
  <2>3. files \in FileType
    BY <1>1, <1>2 DEF FileType
  <2>4. rows \in RowType
    BY <1>1, <1>3 DEF RowType
  <2>5. pulled \in [Request -> 0 .. MaxVersion]
    <3>1. 0 \in 0 .. MaxVersion /\ 1 \in 0 .. MaxVersion
      BY LinkBoundsAssumption
    <3> QED
      BY <1>1, <3>1
  <2> QED
    BY <1>7, <1>8, <2>1, <2>2, <2>3, <2>4, <2>5
    DEF TypeInv, LinksTypeOK, ConnectionInv, FileType, RowType
<1>10. \A f, g \in LiveRows : f = g
  BY <1>6 DEF LiveRows
<1>11. \A r \in Request : Step(r) = "none" /\ ~Active(r)
  BY <1>4, <1>5, <1>6 DEF Step, Active
<1>12. ASSUME NEW r \in Request PROVE RequestInv(r)
  BY <1>4, <1>5, <1>6, <1>11 DEF RequestInv
<1>13. ASSUME NEW f \in Request PROVE RowInv(f)
  <2>1. early = {}
    BY DEF Init
  <2>2. CASE f # Earlier
    BY <1>4, <1>6, <2>1, <2>2 DEF RowInv
  <2>3. CASE f = Earlier /\ linked = {}
    <3>1. rows[f] = NoRow /\ files[f] = NoRow /\ req[f].answer # "ok"
      BY <1>1, <1>5, <2>3
    <3> QED
      BY <2>1, <3>1 DEF RowInv
  <2>4. CASE f = Earlier /\ linked = {Earlier}
    <3>1. rows[f] = Link(1) /\ files[f] = Doc(First) /\ pulled[f] = 1
      BY <1>1, <2>4
    <3>2. req[f].kind = "link" /\ req[f].answer = "ok"
      BY <1>5, <2>4
    <3> QED
      BY <1>2, <1>3, <2>1, <3>1, <3>2 DEF RowInv
  <2> QED
    BY <1>1, <2>2, <2>3, <2>4
<1> QED
  BY <1>8, <1>9, <1>10, <1>12, <1>13 DEF LinksInv

(* A call as Receive makes it.                                             *)
Accepted(c, kind, n, conn, file, cursor) ==
    [c EXCEPT !.kind = kind, !.step = n, !.prior = content, !.conn = conn, !.file = file,
              !.cursor = cursor]

(* A call that was admitted by the gate.                                    *)
LEMMA CallStarts ==
    ASSUME NEW c \in Call, NEW kind \in Kinds, NEW n \in StepNo, content \in Content,
           NEW conn \in Connection, NEW file \in Request, NEW cursor \in Version
    PROVE  /\ Accepted(c, kind, n, conn, file, cursor) \in Call
           /\ Accepted(c, kind, n, conn, file, cursor).kind = kind
           /\ Accepted(c, kind, n, conn, file, cursor).step = n
           /\ Accepted(c, kind, n, conn, file, cursor).conn = conn
           /\ Accepted(c, kind, n, conn, file, cursor).file = file
           /\ Accepted(c, kind, n, conn, file, cursor).answer = c.answer
BY DEF Call, Accepted

LEMMA FirstStep ==
    ASSUME NEW kind \in Kinds
    PROVE  1 <= Len(Path(kind)) /\ Path(kind)[1] = "token"
<1>1. CASE kind = "link"
  BY <1>1 DEF Path
<1>2. CASE kind = "status"
  BY <1>2 DEF Path
<1>3. CASE kind = "pull"
  BY <1>3 DEF Path
<1>4. CASE kind = "pull_final"
  BY <1>4 DEF Path
<1>5. CASE kind = "keep_app"
  BY <1>5 DEF Path
<1> QED
  BY <1>1, <1>2, <1>3, <1>4, <1>5 DEF Kinds

LEMMA ReceiveStep ==
    ASSUME LinksInv, NEW r \in Request, NEW kind \in Kinds, Receive(r, kind)
    PROVE  LinksInv'
<1>1. /\ req \in [Request -> Call] /\ files \in FileType /\ rows \in RowType
      /\ content \in Content
  BY DEF LinksInv, TypeInv, LinksTypeOK, FileType, RowType
<1>2. req[r].answer = "none" /\ rows[r] = NoRow /\ files[r] = NoRow
  BY DEF LinksInv, RowInv, RequestInv, Receive
<1>3. ConnectionInv' /\ HeldStay
  BY SameConnection DEF LinksInv, Receive
<1>4. FilesStay /\ RowsStay
  BY DEF FilesStay, RowsStay, Receive
<1> DEFINE n == 1
<1>5. n \in StepNo /\ n = 1
  BY DEF StepNo
<1> HIDE DEF n
<1>6. Unsent.answer = "none" /\ Unsent.file = NoRow
  BY DEF Unsent
<1>7. ASSUME NEW c \in Call, req' = [req EXCEPT ![r] = c], c.kind = kind,
             c.answer # "ok", RequestInv(r)'
      PROVE  LinksInv'
  <2>1. req' \in [Request -> Call] /\ req'[r] = c /\ \A q \in Request \ {r} : req'[q] = req[q]
    BY <1>1, <1>7
  <2>2. TypeInv'
    BY <1>3, <2>1 DEF LinksInv, ConnectionInv, TypeInv, LinksTypeOK, Receive
  <2> QED
    BY <1>2, <1>3, <1>4, <1>7, <2>1, <2>2, QuietStep DEF Receive
<1>8. CASE (kind = "link") # (LiveRows = {}) \/ connection = NoRow
  <2> DEFINE c == Ended(Unsent, kind, n, "refused", Unsent.file)
  <2>0. [Unsent EXCEPT !.kind = kind, !.step = 1, !.answer = "refused"]
          = [Unsent EXCEPT !.kind = kind, !.step = 1, !.answer = "refused", !.file = Unsent.file]
    BY DEF Unsent
  <2>1. req' = [req EXCEPT ![r] = c] /\ files' = files
    BY <1>8, <2>0 DEF Receive, Ended, n
  <2>2. c \in Call /\ c.kind = kind /\ c.step = 1 /\ c.answer = "refused"
    BY <1>5, <1>6, CallEnds, UnsentIsACall DEF Answers
  <2> HIDE DEF c
  <2>3. req'[r] = c
    BY <1>1, <2>1
  <2>4. Step(r)' = "none" /\ ~Active(r)'
    BY <2>2, <2>3 DEF Step, Active
  <2>5. RequestInv(r)'
    BY <1>2, <2>1, <2>2, <2>3, <2>4 DEF RequestInv
  <2> QED
    BY <1>7, <2>1, <2>2, <2>5
<1>9. CASE ~((kind = "link") # (LiveRows = {}) \/ connection = NoRow)
  <2>1. PICK f \in IF LiveRows = {} THEN {r} ELSE LiveRows :
          req' = [req EXCEPT ![r] = [Unsent EXCEPT !.kind = kind, !.step = 1,
                          !.prior = content, !.conn = connection, !.file = f,
                          !.cursor = IF LiveRows = {} THEN 0 ELSE rows[f].cursor]]
    BY <1>9 DEF Receive
  <2> DEFINE cursor == IF LiveRows = {} THEN 0 ELSE rows[f].cursor
             c == Accepted(Unsent, kind, n, connection, f, cursor)
  <2>2. /\ f \in Request /\ cursor \in Version
        /\ IF kind = "link" THEN f = r ELSE rows[f] # NoRow
    BY <1>1, <1>9, LinkBoundsAssumption DEF LiveRows, RowType, Version
  <2>3. connection \in Connection /\ Held(connection)
    BY <1>9, ConnectionIsHeld DEF LinksInv, ConnectionInv, ConnectionTypeOK
  <2>4. req' = [req EXCEPT ![r] = c]
    BY <1>5, <2>1 DEF Accepted
  <2> HIDE DEF cursor
  <2>5. /\ c \in Call /\ c.kind = kind /\ c.step = 1 /\ c.conn = connection
        /\ c.file = f /\ c.answer = "none"
    BY <1>1, <1>5, <1>6, <2>2, <2>3, CallStarts, UnsentIsACall
  <2> HIDE DEF c
  <2>6. req'[r] = c
    BY <1>1, <2>4
  <2>7. /\ Active(r)' /\ Step(r)' = "token" /\ 1 <= Len(Path(kind))
    BY <2>5, <2>6, FirstStep DEF Step, Active
  <2>8. \A row : row = connection => Held(row)'
    BY <1>3, <2>3 DEF HeldStay
  <2>9. RequestInv(r)'
    BY <1>2, <2>2, <2>5, <2>6, <2>7, <2>8 DEF RequestInv, Receive
  <2> QED
    BY <1>7, <2>4, <2>5, <2>9
<1> QED
  BY <1>8, <1>9

(* From here on, one lemma for each action of Links.                        *)
LEMMA GetTokenStep ==
    ASSUME LinksInv, NEW r \in Request, GetToken(r)
    PROVE  LinksInv'
<1>1. Step(r) = "token" /\ ~Last(req[r].kind, Step(r))
  BY DEF GetToken, Last
<1>2. ConnectionInv' /\ HeldStay
  BY <1>1, StandsAt, PersistStep DEF GetToken, LinksInv, HeldStay
<1> DEFINE v == req[r].version
           x == req[r].exported
<1>3. v \in Version /\ x \in Version
  BY <1>1, StandsAt DEF Call
<1>4. Moves(r, v, x)
  BY AdvanceIsAStep DEF GetToken
<1>5. rows \in RowType /\ rows' = rows /\ files' = files
  BY DEF LinksInv, TypeInv, LinksTypeOK, RowType, GetToken
<1> HIDE DEF v, x
<1>6. RequestInv(r)'
  <2> DEFINE next == After(req[r].kind, Step(r))
  <2>1. /\ next \in {"upload", "cursor", "detach"}
        /\ req[r].kind = "link" <=> next = "upload"
        /\ next = "detach" => req[r].kind = "keep_app"
    BY <1>1 DEF After
  <2>3. next = After(req[r].kind, Step(r))
    OBVIOUS
  <2>2. files[r] = NoRow
    BY <1>1 DEF LinksInv, RequestInv
  <2> HIDE DEF next
  <2> QED
    BY <1>1, <1>2, <1>3, <1>4, <1>5, <2>1, <2>2, <2>3, MovedRequest
<1>7. RowsStay
  BY <1>5 DEF RowsStay
<1> QED
  BY <1>1, <1>2, <1>3, <1>4, <1>5, <1>6, <1>7, QuietMove DEF GetToken

(* What most steps look at: the Doc of a request and its version.          *)
LEMMA FileOfRequest ==
    ASSUME LinksInv, NEW r \in Request, Step(r) # "none",
           req[r].kind # "link" \/ Step(r) \in {"cursor", "insert"}
    PROVE  /\ files \in FileType /\ rows \in RowType
           /\ File(r) \in Request /\ files[File(r)] # NoRow
           /\ files[File(r)].version \in 1 .. MaxVersion
           /\ files[File(r)].version \in Version
           /\ req[r].version \in Version /\ req[r].exported \in Version
<1>1. files \in FileType /\ rows \in RowType
  BY DEF LinksInv, TypeInv, LinksTypeOK, FileType, RowType
<1>2. File(r) \in Request /\ files[File(r)] # NoRow
  <2>1. CASE req[r].kind = "link"
    BY <2>1, StandsAt DEF LinksInv, RequestInv, File
  <2>2. CASE req[r].kind # "link"
    BY <2>2, StandsAt
  <2> QED
    BY <2>1, <2>2
<1>3. files[File(r)].version \in 1 .. MaxVersion
  BY <1>1, <1>2 DEF FileType
<1>4. files[File(r)].version \in Version
  BY <1>3, LinkBoundsAssumption DEF Version
<1>5. req[r].version \in Version /\ req[r].exported \in Version
  BY StandsAt DEF Call
<1> QED
  BY <1>1, <1>2, <1>3, <1>4, <1>5

(* A link leaves its live state.                                           *)
LEMMA LeavesLive ==
    ASSUME rows \in RowType, NEW f \in Request, rows[f] # NoRow,
           NEW state \in {"error", "unlinked"}, SetState(f, state)
    PROVE  rows' \in RowType /\ RowsStay /\ Detached(f)'
<1>1. PICK row \in [state : {"linked", "error", "unlinked"}, cursor : 1 .. MaxVersion] :
        row = rows[f]
  BY DEF RowType
<1> DEFINE new == [row EXCEPT !.state = state]
<1>2. /\ new \in [state : {"linked", "error", "unlinked"}, cursor : 1 .. MaxVersion]
      /\ new.cursor = row.cursor /\ new.state = state
  OBVIOUS
<1>3. rows' = [rows EXCEPT ![f] = new]
  BY <1>1 DEF SetState
<1> HIDE DEF new
<1>4. new \in [state : {"linked", "error", "unlinked"}, cursor : Nat]
  BY <1>2, LinkBoundsAssumption
<1>5. new # NoRow
  BY <1>4, NoLinkAssumption
<1>6. rows' \in RowType /\ rows'[f] = new /\ \A g \in Request \ {f} : rows'[g] = rows[g]
  BY <1>2, <1>3 DEF RowType
<1> QED
  BY <1>1, <1>2, <1>5, <1>6 DEF RowsStay, Detached

LEMMA AuthFailsStep ==
    ASSUME LinksInv, NEW r \in Request, AuthFails(r)
    PROVE  LinksInv'
<1> DEFINE a == IF req[r].kind = "status" THEN "ok" ELSE "error"
<1>1. Step(r) = "token" /\ Answer(r, a) /\ files' = files
  BY DEF AuthFails
<1>2. a \in Answers \ {"none"} /\ (a = "ok" => req[r].kind = "status")
  BY DEF Answers
<1> HIDE DEF a
<1>3. rows \in RowType /\ files' \in FileType /\ FilesStay
  BY <1>1 DEF LinksInv, TypeInv, LinksTypeOK, FileType, RowType, FilesStay
<1>4. rows' \in RowType /\ RowsStay
  <2>1. CASE req[r].kind \in {"link", "pull"}
    BY <1>3, <2>1 DEF AuthFails, RowsStay
  <2>2. CASE req[r].kind \notin {"link", "pull"}
    <3>1. req[r].file \in Request /\ rows[req[r].file] # NoRow
      BY <1>1, <2>2, StandsAt
    <3>2. SetState(req[r].file, "error")
      BY <2>2 DEF AuthFails
    <3> QED
      BY <1>3, <3>1, <3>2, LeavesLive
  <2> QED
    BY <2>1, <2>2
<1> QED
  BY <1>1, <1>2, <1>3, <1>4, QuietAnswer DEF AuthFails, Unlinks

LEMMA FailStep ==
    ASSUME LinksInv, NEW r \in Request, Fail(r)
    PROVE  LinksInv'
<1>1. Step(r) # "none" /\ Answer(r, "error") /\ "error" \in Answers \ {"none"}
  BY DEF Fail, Answers
<1>2. /\ rows' \in RowType /\ files' \in FileType /\ FilesStay /\ RowsStay
  BY DEF LinksInv, TypeInv, LinksTypeOK, FileType, RowType, FilesStay, RowsStay, Fail
<1> QED
  BY <1>1, <1>2, QuietAnswer DEF Fail

LEMMA RemoveStep ==
    ASSUME LinksInv, NEW r \in Request, Remove(r)
    PROVE  LinksInv'
<1>1. Step(r) = "remove" /\ Answer(r, "ok") /\ "ok" \in Answers \ {"none"}
  BY DEF Remove, Answers
<1>2. req[r].kind \in Unlinks /\ req[r].file \in Request /\ files[req[r].file] # NoRow
  BY <1>1, StandsAt DEF Unlinks
<1>3. files \in FileType /\ rows' \in RowType /\ RowsStay
  BY DEF LinksInv, TypeInv, LinksTypeOK, FileType, RowType, RowsStay, Remove
<1>4. files' \in FileType /\ FilesStay
  <2>1. CASE files' = files
    BY <1>3, <2>1 DEF FilesStay
  <2>2. CASE files' = [files EXCEPT ![req[r].file].there = FALSE]
    <3>1. PICK doc \in [version : 1 .. MaxVersion, there : BOOLEAN, account : Account] :
            doc = files[req[r].file]
      BY <1>2, <1>3 DEF FileType
    <3> DEFINE new == [doc EXCEPT !.there = FALSE]
    <3>2. /\ new \in [version : 1 .. MaxVersion, there : BOOLEAN, account : Account]
          /\ new.version = doc.version
      OBVIOUS
    <3>3. files' = [files EXCEPT ![req[r].file] = new]
      BY <2>2, <3>1
    <3> HIDE DEF new
    <3>4. new \in [version : Nat, there : BOOLEAN, account : Account]
      BY <3>2, LinkBoundsAssumption
    <3>5. new # NoRow
      BY <3>4, NoLinkAssumption
    <3> QED
      BY <1>2, <1>3, <3>1, <3>2, <3>3, <3>5 DEF FileType, FilesStay
  <2> QED
    BY <2>1, <2>2 DEF Remove
<1>5. Detached(req[r].file)'
  <2>1. Detached(req[r].file)
    BY <1>1 DEF LinksInv, RequestInv
  <2>2. req'[r].file = req[r].file
    BY <1>1 DEF Answer, LinksInv, TypeInv, Unsent
  <2> QED
    BY <2>1, <2>2 DEF Detached, Remove
<1> QED
  BY <1>1, <1>2, <1>3, <1>4, <1>5, QuietAnswer DEF Remove, Unlinks

LEMMA GetVersionStep ==
    ASSUME LinksInv, NEW r \in Request, GetVersion(r)
    PROVE  LinksInv'
<1>1. /\ Step(r) = "cursor"
      /\ UNCHANGED <<connectionVars, content, revisions, files, rows, pulled, early, over>>
  BY DEF GetVersion
<1>2. files \in FileType /\ rows \in RowType /\ FilesStay /\ RowsStay
  BY <1>1 DEF LinksInv, TypeInv, LinksTypeOK, FileType, RowType, FilesStay, RowsStay
<1>3. CASE req[r].kind = "status"
  <2>1. PICK a \in {"same", "changed"} : Answer(r, a)
    BY <1>3 DEF GetVersion
  <2>2. a \in Answers \ {"none"} /\ a # "ok"
    BY DEF Answers
  <2> QED
    BY <1>1, <1>2, <1>3, <2>1, <2>2, QuietAnswer
<1>4. CASE req[r].kind # "status"
  <2> DEFINE v == files[File(r)].version
             x == req[r].exported
             next == After(req[r].kind, Step(r))
  <2>1. /\ v \in Version /\ x \in Version /\ v \in 1 .. MaxVersion
        /\ files[File(r)] # NoRow
    BY <1>1, FileOfRequest
  <2>2. Moves(r, v, x)
    <3>1. req[r] \in Call
      BY DEF LinksInv, TypeInv
    <3>2. [Next1(r) EXCEPT !.version = v]
            = [Next1(r) EXCEPT !.version = v, !.exported = req[r].exported]
      BY <3>1 DEF Call, Next1
    <3> QED
      BY <1>4, <3>2 DEF GetVersion, Moves
  <2>3. next = (IF req[r].kind = "link" THEN "insert" ELSE "export") /\ ~Last(req[r].kind, Step(r))
    BY <1>1, <1>4 DEF After, Last
  <2>4. next = After(req[r].kind, Step(r)) /\ v = files'[File(r)].version
    BY <1>1
  <2>5. req[r].kind # "link" => files[r] = NoRow
    BY DEF LinksInv, RequestInv
  <2>6. 1 <= v /\ v <= v
    BY <2>1, LinkBoundsAssumption
  <2>7. ConnectionInv' /\ HeldStay
    BY <1>1, SameConnection DEF LinksInv
  <2>8. req[r].kind = "link" => files'[r] # NoRow
    BY <1>1, <2>1 DEF File
  <2> HIDE DEF v, x, next
  <2>9. RequestInv(r)'
    BY <1>1, <2>1, <2>2, <2>3, <2>4, <2>5, <2>6, <2>7, <2>8, MovedRequest
  <2> QED
    BY <1>1, <1>2, <2>1, <2>2, <2>3, <2>7, <2>9, QuietMove
<1> QED
  BY <1>3, <1>4

LEMMA ExportStep ==
    ASSUME LinksInv, NEW r \in Request, Export(r)
    PROVE  LinksInv'
<1>1. /\ Step(r) = "export"
      /\ UNCHANGED <<connectionVars, content, revisions, files, rows, pulled, early, over>>
  BY DEF Export
<1>2. files \in FileType /\ rows \in RowType /\ RowsStay
  BY <1>1 DEF LinksInv, TypeInv, LinksTypeOK, FileType, RowType, RowsStay
<1> DEFINE v == req[r].version
           x == files[File(r)].version
           next == After(req[r].kind, Step(r))
<1>3. req[r].kind \in Pulls /\ req[r].kind # "link"
  BY <1>1, StandsAt DEF Pulls
<1>4. v \in Version /\ x \in Version
  BY <1>1, <1>3, FileOfRequest
<1>5. Moves(r, v, x)
  <2>1. req[r] \in Call
    BY DEF LinksInv, TypeInv
  <2>2. [Next1(r) EXCEPT !.exported = x]
          = [Next1(r) EXCEPT !.version = req[r].version, !.exported = x]
    BY <2>1 DEF Call, Next1
  <2> QED
    BY <2>2 DEF Export, Moves
<1>6. next = "overwrite" /\ ~Last(req[r].kind, Step(r))
  BY <1>1 DEF After, Last
<1>7. next = After(req[r].kind, Step(r)) /\ x = files'[File(r)].version
  BY <1>1
<1>8. 1 <= v /\ v <= x /\ files[r] = NoRow
  BY <1>1, <1>3 DEF LinksInv, RequestInv
<1>9. x <= x
  BY <1>4, LinkBoundsAssumption DEF Version
<1>10. ConnectionInv' /\ HeldStay
  BY <1>1, SameConnection DEF LinksInv
<1> HIDE DEF v, x, next
<1>11. RequestInv(r)'
  BY <1>1, <1>3, <1>4, <1>5, <1>6, <1>7, <1>8, <1>9, <1>10, MovedRequest
<1> QED
  BY <1>1, <1>2, <1>4, <1>5, <1>6, <1>10, <1>11, QuietMove

(* The two steps of an unlink that move on: the second check of the        *)
(* version and the change of the row's state.                              *)
LEMMA UnlinkMoves ==
    ASSUME LinksInv, NEW r \in Request, Step(r) \in {"recheck", "detach"}, Advance(r),
           UNCHANGED <<connectionVars, content, revisions, files, pulled, early, over>>,
           rows' \in RowType, RowsStay, Step(r) = "detach" => Detached(req[r].file)'
    PROVE  LinksInv'
<1> DEFINE v == req[r].version
           x == req[r].exported
           next == After(req[r].kind, Step(r))
<1>1. req[r].kind \in Unlinks /\ req[r].kind # "link"
  BY StandsAt DEF Unlinks
<1>2. v \in Version /\ x \in Version
  BY StandsAt DEF Call
<1>3. Moves(r, v, x)
  BY AdvanceIsAStep
<1>4. /\ next = IF Step(r) = "recheck" THEN "detach" ELSE "remove"
      /\ ~Last(req[r].kind, Step(r)) /\ next = After(req[r].kind, Step(r))
  BY DEF After, Last
<1>5. files[r] = NoRow
  BY <1>1 DEF LinksInv, RequestInv
<1>6. req[r].kind = "pull_final" => x # 0 /\ (r \in over \/ content = Rendition(req[r].file, x))
  BY DEF LinksInv, RequestInv
<1>7. ConnectionInv' /\ HeldStay
  BY SameConnection DEF LinksInv
<1>8. \A f \in Request : rows[f] # NoRow => rows'[f] # NoRow
  BY DEF RowsStay
<1> HIDE DEF v, x, next
<1>9. RequestInv(r)'
  BY <1>1, <1>2, <1>3, <1>4, <1>5, <1>6, <1>7, <1>8, MovedRequest
<1> QED
  BY <1>2, <1>3, <1>4, <1>7, <1>9, QuietMove

LEMMA RecheckStep ==
    ASSUME LinksInv, NEW r \in Request, Recheck(r)
    PROVE  LinksInv'
<1>1. rows' \in RowType /\ RowsStay
  BY DEF LinksInv, TypeInv, LinksTypeOK, RowType, RowsStay, Recheck
<1> QED
  BY <1>1, UnlinkMoves DEF Recheck

LEMMA DetachStep ==
    ASSUME LinksInv, NEW r \in Request, Detach(r)
    PROVE  LinksInv'
<1>1. Step(r) = "detach" /\ SetState(req[r].file, "unlinked") /\ rows \in RowType
  BY DEF Detach, LinksInv, TypeInv, LinksTypeOK, RowType
<1>2. req[r].file \in Request /\ rows[req[r].file] # NoRow
  BY <1>1, StandsAt DEF Unlinks
<1>3. rows' \in RowType /\ RowsStay /\ \A f : f = req[r].file => Detached(f)'
  BY <1>1, <1>2, LeavesLive
<1>4. req'[r].file = req[r].file
  BY DEF Detach, Advance, Next1, LinksInv, TypeInv, Call
<1>5. Detached(req[r].file)'
  BY <1>3, <1>4
<1> QED
  BY <1>1, <1>3, <1>5, UnlinkMoves DEF Detach

LEMMA UploadStep ==
    ASSUME LinksInv, NEW r \in Request, Upload(r)
    PROVE  LinksInv'
<1>1. Step(r) = "upload" /\ Advance(r)
      /\ UNCHANGED <<connectionVars, content, revisions, rows, early, over>>
  BY DEF Upload
<1>2. /\ req[r].kind = "link" /\ rows[r] = NoRow /\ req[r].conn \in Connection
      /\ req[r].version \in Version /\ req[r].exported \in Version
  BY <1>1, StandsAt DEF Call
<1>3. files[r] = NoRow /\ r \notin early
  BY <1>1, <1>2 DEF LinksInv, RequestInv, RowInv
<1>4. Token(r) \in Flow
  BY <1>2 DEF Token, TokenOf, Connection
<1>5. /\ files \in FileType /\ rows \in RowType /\ pulled \in [Request -> 0 .. MaxVersion]
  BY DEF LinksInv, TypeInv, LinksTypeOK, FileType, RowType
<1> DEFINE doc == Doc(Token(r))
<1>6. /\ doc \in [version : 1 .. MaxVersion, there : BOOLEAN, account : Account]
      /\ doc.version = 1 /\ doc # NoRow
  BY <1>4, DocIsAFile
<1>7. files' = [files EXCEPT ![r] = doc] /\ pulled' = [pulled EXCEPT ![r] = 1]
  BY DEF Upload
<1> HIDE DEF doc
<1>8. /\ files' \in FileType /\ files'[r] = doc
      /\ \A f \in Request \ {r} : files'[f] = files[f] /\ pulled'[f] = pulled[f]
  BY <1>5, <1>6, <1>7 DEF FileType
<1>9. pulled' \in [Request -> 0 .. MaxVersion] /\ pulled'[r] = 1
  <2>1. 1 \in 0 .. MaxVersion
    BY LinkBoundsAssumption
  <2> QED
    BY <1>5, <1>7, <2>1
<1>10. ConnectionInv' /\ HeldStay
  BY <1>1, SameConnection DEF LinksInv
<1> DEFINE v == req[r].version
           x == req[r].exported
           next == After(req[r].kind, Step(r))
<1>11. Moves(r, v, x)
  BY <1>1, AdvanceIsAStep
<1>12. next = "cursor" /\ next = After(req[r].kind, Step(r)) /\ ~Last(req[r].kind, Step(r))
  BY <1>1 DEF After, Last
<1>13. v \in Version /\ x \in Version
  BY <1>2
<1> HIDE DEF v, x, next
<1>14. RequestInv(r)'
  BY <1>1, <1>2, <1>6, <1>8, <1>10, <1>11, <1>12, <1>13, MovedRequest
<1>15. /\ req' \in [Request -> Call]
       /\ \A q \in Request \ {r} : req'[q] = req[q]
       /\ req'[r].answer = "none"
  BY <1>1, <1>11, <1>12, <1>13, StandsAfter
<1>16. \A f \in Request : files[f] # NoRow =>
         files'[f] # NoRow /\ files[f].version <= files'[f].version
  BY <1>3, <1>5, <1>8 DEF FileType
<1>17. ASSUME NEW q \in Request, q # r PROVE RequestInv(q)'
  BY <1>1, <1>8, <1>10, <1>15, <1>16, <1>17, RequestFrame
<1>18. ASSUME NEW f \in Request PROVE RowInv(f)'
  <2>1. CASE f = r
    BY <1>1, <1>2, <1>3, <1>6, <1>8, <1>9, <1>15, <2>1 DEF RowInv
  <2>2. CASE f # r
    BY <1>1, <1>8, <1>15, <2>2 DEF RowInv, LinksInv
  <2> QED
    BY <2>1, <2>2
<1>19. TypeInv'
  BY <1>1, <1>8, <1>9, <1>10, <1>15
  DEF LinksInv, ConnectionInv, TypeInv, LinksTypeOK, FileType
<1>20. \A f, g \in LiveRows' : f = g
  BY <1>1 DEF LinksInv, LiveRows
<1> QED
  BY <1>10, <1>14, <1>17, <1>18, <1>19, <1>20 DEF LinksInv

LEMMA InsertStep ==
    ASSUME LinksInv, NEW r \in Request, Insert(r)
    PROVE  LinksInv'
<1>1. Step(r) = "insert"
      /\ UNCHANGED <<connectionVars, content, revisions, files, pulled, early, over>>
  BY DEF Insert
<1>2. req[r].kind = "link" /\ rows[r] = NoRow /\ File(r) = r
  BY <1>1, StandsAt DEF File
<1>3. /\ files \in FileType /\ rows \in RowType
      /\ files[r] # NoRow /\ files[r].version \in 1 .. MaxVersion
  BY <1>1, <1>2, FileOfRequest
<1>4. "ok" \in Answers \ {"none"} /\ "refused" \in Answers \ {"none"} /\ "link" \notin Unlinks
  BY DEF Answers, Unlinks
<1>5. CASE LiveRows # {}
  <2>1. Answer(r, "refused") /\ rows' = rows
    BY <1>5 DEF Insert
  <2>2. FilesStay /\ RowsStay
    BY <1>1, <2>1 DEF FilesStay, RowsStay
  <2> QED
    BY <1>1, <1>2, <1>3, <1>4, <2>1, <2>2, QuietAnswer
<1>6. CASE LiveRows = {}
  <2> DEFINE link == Link(req[r].version)
  <2>1. Answer(r, "ok") /\ rows' = [rows EXCEPT ![r] = link]
    BY <1>6 DEF Insert
  <2>2. 1 <= req[r].version /\ req[r].version <= files[r].version /\ req[r].version \in Nat
    <3>1. RequestInv(r) /\ req[r].version \in Version
      BY <1>1, FileOfRequest DEF LinksInv
    <3> QED
      BY <1>1, <1>2, <3>1, LinkBoundsAssumption DEF RequestInv, Version
  <2>3. req[r].version \in 1 .. MaxVersion
    BY <1>3, <2>2, LinkBoundsAssumption
  <2>4. /\ link \in [state : {"linked", "error", "unlinked"}, cursor : 1 .. MaxVersion]
        /\ link.cursor = req[r].version /\ link # NoRow
    BY <2>3, LinkIsARow
  <2> HIDE DEF link
  <2>5. rows' \in RowType /\ rows'[r] = link /\ \A f \in Request \ {r} : rows'[f] = rows[f]
    BY <1>3, <2>1, <2>4 DEF RowType
  <2>6. /\ req' \in [Request -> Call]
        /\ \A q \in Request \ {r} : req'[q] = req[q]
        /\ req'[r].kind = "link" /\ req'[r].answer = "ok"
        /\ RequestInv(r)'
    BY <1>2, <1>4, <2>1, AnswerEnds
  <2>7. ConnectionInv' /\ HeldStay
    BY <1>1, SameConnection DEF LinksInv
  <2>8. \A f \in Request : files[f] # NoRow =>
          files'[f] # NoRow /\ files[f].version <= files'[f].version
    BY <1>1, <1>3 DEF FileType
  <2>9. ASSUME NEW q \in Request, q # r PROVE RequestInv(q)'
    BY <1>1, <1>2, <1>3, <2>5, <2>6, <2>7, <2>8, <2>9, RequestFrame
  <2>10. ASSUME NEW f \in Request PROVE RowInv(f)'
    <3>1. CASE f # r
      BY <1>1, <2>5, <2>6, <3>1 DEF LinksInv, RowInv
    <3>2. CASE f = r
      <4>1. r \notin early => files[r].version = 1 /\ pulled[r] = 1
        BY <1>2, <1>3 DEF LinksInv, RowInv
      <4>2. r \notin early => rows'[r].cursor <= pulled'[r]
        BY <1>1, <2>2, <2>4, <2>5, <4>1
      <4>3. pulled[r] <= files[r].version
        BY <1>3 DEF LinksInv, RowInv
      <4> QED
        BY <1>1, <1>3, <2>4, <2>5, <2>6, <3>2, <4>2, <4>3 DEF RowInv
    <3> QED
      BY <3>1, <3>2
  <2>11. TypeInv'
    BY <1>1, <2>5, <2>6, <2>7 DEF LinksInv, ConnectionInv, TypeInv, LinksTypeOK, RowType
  <2>12. \A f, g \in LiveRows' : f = g
    BY <1>6, <2>5 DEF LiveRows
  <2> QED
    BY <2>6, <2>7, <2>9, <2>10, <2>11, <2>12 DEF LinksInv
<1> QED
  BY <1>5, <1>6

LEMMA OverwriteStep ==
    ASSUME LinksInv, NEW r \in Request, Overwrite(r)
    PROVE  LinksInv'
<1> DEFINE f == req[r].file
           v == req[r].version
           x == req[r].exported
<1>1. Step(r) = "overwrite" /\ UNCHANGED <<connectionVars, files, early>>
  BY DEF Overwrite
<1>2. /\ req[r].kind \in Pulls /\ req[r].kind # "link" /\ f \in Request /\ File(r) = f
      /\ rows[f] # NoRow /\ req[r] \in Call
  BY <1>1, StandsAt DEF Pulls
<1>3. /\ files \in FileType /\ rows \in RowType
      /\ files[f] # NoRow /\ files[f].version \in 1 .. MaxVersion
      /\ v \in Version /\ x \in Version
  BY <1>1, <1>2, FileOfRequest
<1>4. 1 <= v /\ v <= x /\ x <= files[f].version
  BY <1>1, <1>2 DEF LinksInv, RequestInv
<1>5. v \in 1 .. MaxVersion /\ x \in 1 .. MaxVersion
  BY <1>3, <1>4, LinkBoundsAssumption DEF Version
<1>6. /\ revisions' = revisions \cup {req[r].prior} /\ content' = Rendition(f, x)
      /\ rows' = [rows EXCEPT ![f].cursor = v] /\ pulled' = [pulled EXCEPT ![f] = x]
      /\ over' = (over \cup Exporting) \ {r}
  BY DEF Overwrite
<1>7. /\ rows' \in RowType /\ rows'[f] # NoRow /\ rows'[f].cursor = v
      /\ rows'[f].state = rows[f].state
      /\ \A g \in Request \ {f} : rows'[g] = rows[g]
  <2>1. PICK row \in [state : {"linked", "error", "unlinked"}, cursor : 1 .. MaxVersion] :
          row = rows[f]
    BY <1>2, <1>3 DEF RowType
  <2> DEFINE new == [row EXCEPT !.cursor = v]
  <2>2. /\ new \in [state : {"linked", "error", "unlinked"}, cursor : 1 .. MaxVersion]
        /\ new.cursor = v /\ new.state = row.state
    BY <1>5
  <2>3. rows' = [rows EXCEPT ![f] = new]
    BY <1>6, <2>1
  <2> HIDE DEF new
  <2>4. new \in [state : {"linked", "error", "unlinked"}, cursor : Nat]
    BY <2>2, LinkBoundsAssumption
  <2>5. new # NoRow
    BY <2>4, NoLinkAssumption
  <2> QED
    BY <1>2, <1>3, <2>1, <2>2, <2>3, <2>5 DEF RowType
<1>8. /\ content' \in Content /\ revisions' \subseteq Content /\ over' \subseteq Request
      /\ pulled' \in [Request -> 0 .. MaxVersion] /\ pulled'[f] = x
      /\ \A g \in Request \ {f} : pulled'[g] = pulled[g]
  <2>1. req[r].prior \in Content
    BY <1>2 DEF Call
  <2>2. content' \in Content
    BY <1>2, <1>5, <1>6 DEF Content
  <2>3. x \in 0 .. MaxVersion
    BY <1>3 DEF Version
  <2>4. /\ pulled \in [Request -> 0 .. MaxVersion] /\ revisions \subseteq Content
        /\ over \subseteq Request
    BY DEF LinksInv, TypeInv, LinksTypeOK
  <2> HIDE DEF x
  <2> QED
    BY <1>2, <1>6, <2>1, <2>2, <2>3, <2>4 DEF Exporting
<1>9. ConnectionInv' /\ HeldStay
  BY <1>1, SameConnection DEF LinksInv
<1>10. files[r] = NoRow
  BY <1>2 DEF LinksInv, RequestInv
<1>11. /\ req' \in [Request -> Call]
       /\ \A q \in Request \ {r} : req'[q] = req[q]
       /\ req'[r].kind = req[r].kind
       /\ RequestInv(r)'
  <2>1. CASE req[r].kind = "pull"
    <3>1. Answer(r, "ok") /\ "ok" \in Answers \ {"none"} /\ "pull" \notin Unlinks
      BY <2>1 DEF Overwrite, Answers, Unlinks
    <3> QED
      BY <1>1, <1>10, <2>1, <3>1, AnswerEnds
  <2>2. CASE req[r].kind # "pull"
    <3> DEFINE next == After(req[r].kind, Step(r))
    <3>1. Moves(r, v, x)
      BY <2>2, AdvanceIsAStep DEF Overwrite
    <3>2. next = "recheck" /\ next = After(req[r].kind, Step(r)) /\ ~Last(req[r].kind, Step(r))
      BY <1>1, <2>2 DEF After, Last
    <3>3. x # 0 /\ content' = Rendition(req[r].file, x)
      BY <1>5, <1>6, LinkBoundsAssumption
    <3>4. \A g \in Request : rows[g] # NoRow => rows'[g] # NoRow
      BY <1>7
    <3>5. files'[r] = NoRow
      BY <1>1, <1>10
    <3> HIDE DEF v, x, next
    <3>6. RequestInv(r)'
      BY <1>1, <1>2, <1>3, <1>9, <3>1, <3>2, <3>3, <3>4, <3>5, MovedRequest
    <3> QED
      BY <1>1, <1>3, <3>1, <3>2, <3>6, StandsAfter
  <2> QED
    BY <2>1, <2>2
<1>12. \A g \in Request : files[g] # NoRow =>
         files'[g] # NoRow /\ files[g].version <= files'[g].version
  BY <1>1, <1>3 DEF FileType
<1>13. ASSUME NEW q \in Request, q # r PROVE RequestInv(q)'
  <2>1. req[q].exported # 0 => q \in over'
    BY <1>6, <1>13 DEF Exporting
  <2>2. \A g \in Request : rows[g] # NoRow =>
          rows'[g] # NoRow /\ (rows'[g].state = "linked" => rows[g].state = "linked")
    BY <1>2, <1>7
  <2> QED
    BY <1>1, <1>3, <1>9, <1>11, <1>12, <1>13, <2>1, <2>2, RequestFrame
<1>14. ASSUME NEW g \in Request PROVE RowInv(g)'
  <2>1. (rows'[g] # NoRow <=> rows[g] # NoRow) /\ RowInv(g)
    BY <1>2, <1>7 DEF LinksInv
  <2>2. rows'[g] # NoRow <=> (req'[g].kind = "link" /\ req'[g].answer = "ok")
    BY <1>2, <1>11, <2>1 DEF RowInv
  <2>3. CASE g # f
    BY <1>1, <1>7, <1>8, <2>1, <2>2, <2>3 DEF RowInv
  <2>4. CASE g = f
    BY <1>1, <1>3, <1>4, <1>7, <1>8, <2>1, <2>2, <2>4 DEF RowInv
  <2> QED
    BY <2>3, <2>4
<1>15. TypeInv'
  BY <1>1, <1>7, <1>8, <1>9, <1>11 DEF LinksInv, ConnectionInv, TypeInv, LinksTypeOK, RowType
<1>16. \A g, h \in LiveRows' : g = h
  <2>1. LiveRows' \subseteq LiveRows
    BY <1>2, <1>7 DEF LiveRows
  <2> QED
    BY <2>1 DEF LinksInv
<1> QED
  BY <1>9, <1>11, <1>13, <1>14, <1>15, <1>16 DEF LinksInv

(* The steps that are not of a request.                                     *)
LEMMA SaveStep ==
    ASSUME LinksInv, Save
    PROVE  LinksInv'
<1>1. PICK n \in 1 .. MaxSaves : content' = Saved(n)
  BY DEF Save
<1>2. /\ over' = over \cup Exporting
      /\ UNCHANGED <<connectionVars, revisions, files, rows, req, pulled, early>>
  BY DEF Save
<1>3. ConnectionInv' /\ HeldStay
  BY <1>2, SameConnection DEF LinksInv
<1>4. content' \in Content /\ over' \subseteq Request
  <2>1. n \in 0 .. MaxSaves
    BY LinkBoundsAssumption
  <2> QED
    BY <1>1, <1>2, <2>1 DEF Content, Exporting, LinksInv, TypeInv, LinksTypeOK
<1>5. files \in FileType
  BY DEF LinksInv, TypeInv, LinksTypeOK, FileType
<1>6. \A f \in Request : files[f] # NoRow =>
        files'[f] # NoRow /\ files[f].version <= files'[f].version
  BY <1>2, <1>5 DEF FileType
<1>7. ASSUME NEW q \in Request PROVE RequestInv(q)'
  <2>1. req[q].exported # 0 => q \in over'
    BY <1>2 DEF Exporting
  <2> QED
    BY <1>2, <1>3, <1>5, <1>6, <2>1, RequestFrame
<1>8. ASSUME NEW f \in Request PROVE RowInv(f)'
  BY <1>2 DEF LinksInv, RowInv
<1>9. TypeInv'
  BY <1>2, <1>3, <1>4 DEF LinksInv, ConnectionInv, TypeInv, LinksTypeOK
<1>10. \A f, g \in LiveRows' : f = g
  BY <1>2 DEF LinksInv, LiveRows
<1> QED
  BY <1>3, <1>7, <1>8, <1>9, <1>10 DEF LinksInv

LEMMA EditRemotelyStep ==
    ASSUME LinksInv, NEW f \in Request, EditRemotely(f)
    PROVE  LinksInv'
<1>1. /\ files[f] # NoRow /\ files[f].version < MaxVersion
      /\ files' = [files EXCEPT ![f].version = @ + 1]
      /\ early' = IF rows[f] = NoRow THEN early \cup {f} ELSE early
      /\ UNCHANGED <<connectionVars, content, revisions, rows, req, pulled, over>>
  BY DEF EditRemotely
<1>2. files \in FileType
  BY DEF LinksInv, TypeInv, LinksTypeOK, FileType
<1>3. /\ files' \in FileType /\ files'[f] # NoRow /\ files'[f].version = files[f].version + 1
      /\ \A g \in Request \ {f} : files'[g] = files[g]
  <2>1. PICK doc \in [version : 1 .. MaxVersion, there : BOOLEAN, account : Account] :
          doc = files[f]
    BY <1>1, <1>2 DEF FileType
  <2> DEFINE v == doc.version + 1
             new == [doc EXCEPT !.version = v]
  <2>2. v \in 1 .. MaxVersion /\ v \in Nat /\ v = doc.version + 1
    BY <1>1, <2>1, LinkBoundsAssumption
  <2>3. files' = [files EXCEPT ![f] = new]
    BY <1>1, <2>1
  <2> HIDE DEF v
  <2>4. /\ new \in [version : 1 .. MaxVersion, there : BOOLEAN, account : Account]
        /\ new \in [version : Nat, there : BOOLEAN, account : Account]
        /\ new.version = v
    BY <2>2
  <2> HIDE DEF new
  <2>5. new # NoRow
    BY <2>4, NoLinkAssumption
  <2> QED
    BY <1>2, <2>1, <2>2, <2>3, <2>4, <2>5 DEF FileType
<1>4. \A g \in Request : files[g] # NoRow =>
        files'[g] # NoRow /\ files[g].version <= files'[g].version
  BY <1>2, <1>3 DEF FileType
<1>5. ConnectionInv' /\ HeldStay
  BY <1>1, SameConnection DEF LinksInv
<1>6. ASSUME NEW q \in Request PROVE RequestInv(q)'
  <2>1. files[q] = NoRow => files'[q] = NoRow
    BY <1>1, <1>3
  <2>2. RequestInv(q)
    BY DEF LinksInv
  <2>3. req[q].exported # 0 => q \in over' \/ (content' = content /\ q \notin over)
    BY <1>1
  <2> QED
    BY <1>1, <1>3, <1>4, <1>5, <2>1, <2>3, RequestFrame
<1>7. ASSUME NEW g \in Request PROVE RowInv(g)'
  <2>1. CASE g # f
    BY <1>1, <1>3, <2>1 DEF LinksInv, RowInv
  <2>2. CASE g = f
    <3>1. RowInv(f) /\ pulled[f] \in Nat /\ files[f].version \in Nat
      BY <1>1, <1>2, LinkBoundsAssumption DEF LinksInv, TypeInv, LinksTypeOK, FileType
    <3>2. pulled[f] <= files'[f].version
      BY <1>1, <1>3, <3>1 DEF RowInv
    <3> QED
      BY <1>1, <1>3, <2>2, <3>1, <3>2 DEF RowInv
  <2> QED
    BY <2>1, <2>2
<1>8. TypeInv'
  BY <1>1, <1>3, <1>5 DEF LinksInv, ConnectionInv, TypeInv, LinksTypeOK, FileType
<1>9. \A g, h \in LiveRows' : g = h
  BY <1>1 DEF LinksInv, LiveRows
<1> QED
  BY <1>5, <1>6, <1>7, <1>8, <1>9 DEF LinksInv

LEMMA ConnectionMoves ==
    ASSUME LinksInv, ConnectionNext, UNCHANGED linkVars
    PROVE  LinksInv'
<1>1. ConnectionInv' /\ HeldStay
  BY ConnectionStep, HeldStays DEF LinksInv, HeldStay
<1>2. files \in FileType
  BY DEF LinksInv, TypeInv, LinksTypeOK, FileType
<1>3. \A f \in Request : files[f] # NoRow =>
        files'[f] # NoRow /\ files[f].version <= files'[f].version
  BY <1>2 DEF FileType, linkVars
<1>4. ASSUME NEW q \in Request PROVE RequestInv(q)'
  BY <1>1, <1>2, <1>3, RequestFrame DEF linkVars
<1>5. ASSUME NEW f \in Request PROVE RowInv(f)'
  BY DEF LinksInv, RowInv, linkVars
<1>6. TypeInv'
  BY <1>1 DEF LinksInv, ConnectionInv, TypeInv, LinksTypeOK, linkVars
<1>7. \A f, g \in LiveRows' : f = g
  BY DEF LinksInv, LiveRows, linkVars
<1> QED
  BY <1>1, <1>4, <1>5, <1>6, <1>7 DEF LinksInv

(* Nothing of the connection or of the links changes.                      *)
LEMMA LinksStutter ==
    ASSUME LinksInv, UNCHANGED vars
    PROVE  LinksInv'
<1>1. ConnectionInv' /\ HeldStay
  BY SameConnection DEF LinksInv, vars
<1>2. files \in FileType
  BY DEF LinksInv, TypeInv, LinksTypeOK, FileType
<1>3. \A f \in Request : files[f] # NoRow =>
        files'[f] # NoRow /\ files[f].version <= files'[f].version
  BY <1>2 DEF FileType, vars, linkVars
<1>4. ASSUME NEW q \in Request PROVE RequestInv(q)'
  BY <1>1, <1>2, <1>3, RequestFrame DEF vars, linkVars
<1>5. ASSUME NEW f \in Request PROVE RowInv(f)'
  BY DEF LinksInv, RowInv, vars, linkVars
<1>6. TypeInv'
  BY <1>1 DEF LinksInv, ConnectionInv, TypeInv, LinksTypeOK, vars, linkVars
<1>7. \A f, g \in LiveRows' : f = g
  BY DEF LinksInv, LiveRows, vars, linkVars
<1> QED
  BY <1>1, <1>4, <1>5, <1>6, <1>7 DEF LinksInv

(* Every step of every actor.                                               *)
LEMMA LinksInvStep ==
    ASSUME LinksInv, [Next]_vars
    PROVE  LinksInv'
<1>1. CASE UNCHANGED vars
  BY <1>1, LinksStutter
<1>2. CASE ConnectionNext /\ UNCHANGED linkVars
  BY <1>2, ConnectionMoves
<1>3. ASSUME NEW r \in Request, Serve(r) PROVE LinksInv'
  <2>1. ASSUME NEW kind \in Kinds, Receive(r, kind) PROVE LinksInv'
    BY <2>1, ReceiveStep
  <2>2. CASE GetToken(r) \/ AuthFails(r)
    BY <2>2, GetTokenStep, AuthFailsStep
  <2>3. CASE Upload(r) \/ GetVersion(r) \/ Insert(r)
    BY <2>3, UploadStep, GetVersionStep, InsertStep
  <2>4. CASE Export(r) \/ Overwrite(r) \/ Recheck(r)
    BY <2>4, ExportStep, OverwriteStep, RecheckStep
  <2>5. CASE Detach(r) \/ Remove(r) \/ Fail(r)
    BY <2>5, DetachStep, RemoveStep, FailStep
  <2> QED
    BY <1>3, <2>1, <2>2, <2>3, <2>4, <2>5 DEF Serve
<1>4. ASSUME NEW f \in Request, EditRemotely(f) PROVE LinksInv'
  BY <1>4, EditRemotelyStep
<1>5. CASE Save
  BY <1>5, SaveStep
<1> QED
  BY <1>1, <1>2, <1>3, <1>4, <1>5 DEF Next

-----------------------------------------------------------------------------
(* Theorems                                                                *)

(* Inductive: the connection, every link row and every running request are *)
(* in the relations that LinksInv names, whatever interleaves with them.   *)
THEOREM LinksInvariance == Spec => []LinksInv
<1>1. Init => LinksInv
  BY LinksInvInit
<1>2. LinksInv /\ [Next]_vars => LinksInv'
  BY LinksInvStep
<1> QED
  BY <1>1, <1>2, PTL DEF Spec

(* Every variable of the links and of the connection keeps its type.       *)
THEOREM LinksTypeCorrect == Spec => []LinksTypeOK
<1>1. LinksInv => LinksTypeOK
  BY DEF LinksInv, TypeInv
<1> QED
  BY <1>1, LinksInvariance, PTL

(* The access token of the row and its refresh token come of one grant,    *)
(* unless a refresh that read the row before a reconnect was stored after  *)
(* it: no sequence of callbacks, refreshes and disconnects mixes them.     *)
THEOREM OneGrantPerRow == Spec => []TokensOfOneGrant
<1>1. LinksInv => TokensOfOneGrant
  BY DEF LinksInv, ConnectionInv
<1> QED
  BY <1>1, LinksInvariance, PTL

(* No request that read the row before a disconnect brings one of its      *)
(* tokens back: the refreshed token is stored by the id of the row.        *)
THEOREM DisconnectStands == Spec => []DisconnectIsFinal
<1>1. LinksInv => DisconnectIsFinal
  BY DEF LinksInv, ConnectionInv
<1> QED
  BY <1>1, LinksInvariance, PTL

(* A live link whose cursor is the Doc's version has that version in the   *)
(* document: the cursor is read before the export, so it is never ahead of *)
(* what the pull brought.                                                  *)
THEOREM StatusIsRight == Spec => []StatusMissesNothing
<1>1. LinksInv => StatusMissesNothing
  <2> SUFFICES ASSUME LinksInv, NEW f \in LiveRows \ early,
                      rows[f].cursor = files[f].version
               PROVE  pulled[f] = files[f].version
    BY DEF StatusMissesNothing
  <2>1. f \in Request /\ rows[f] # NoRow /\ RowInv(f)
    BY DEF LiveRows, LinksInv
  <2>2. files[f] # NoRow /\ rows[f].cursor <= pulled[f] /\ pulled[f] <= files[f].version
    BY <2>1 DEF RowInv
  <2>3. files \in FileType /\ pulled \in [Request -> 0 .. MaxVersion]
    BY DEF LinksInv, TypeInv, LinksTypeOK, FileType
  <2>4. files[f].version \in Nat /\ pulled[f] \in Nat
    BY <2>1, <2>2, <2>3, LinkBoundsAssumption DEF FileType
  <2> QED
    BY <2>2, <2>4
<1> QED
  BY <1>1, LinksInvariance, PTL

(* At most one link is live; a link answered ok is stored and no other     *)
(* link answer leaves a row; after an ok unlink its link stays detached.   *)
THEOREM AnswersAreTrue == Spec => []LinkAnswersTellTheTruth
<1>1. LinksInv => LinkAnswersTellTheTruth
  BY DEF LinksInv, RowInv, RequestInv, Detached, LiveRows, LinkAnswersTellTheTruth
<1> QED
  BY <1>1, LinksInvariance, PTL

(* pull-final never deletes a Doc whose export is not in the document,     *)
(* unless the document was written over it afterwards.                     *)
THEOREM PullFinalIsSafe == Spec => PullFinalKeepsTheDoc
<1>1. LinksInv => \A r \in Request :
        (Step(r) = "remove" /\ req[r].kind = "pull_final") =>
          r \in over \/ content = Rendition(req[r].file, req[r].exported)
  BY DEF LinksInv, RequestInv
<1> QED
  BY <1>1, LinksInvariance, PTL DEF PullFinalKeepsTheDoc
=============================================================================
