------------------------------ MODULE Connections ------------------------------
(***************************************************************************)
(* One user's Google connection (api/integrations.py, the token half of    *)
(* api/drive_client.py): the consent flow with its PKCE verifier in Redis, *)
(* the callback that stores the tokens, the cached access token and its    *)
(* refresh, and the disconnect.                                            *)
(*                                                                         *)
(* A flow is one press of Connect; the grant it leads to at Google bears   *)
(* its name, and so do the tokens of that grant.  The state parameter is   *)
(* authentic exactly if authorize issued it to this user: its signature,   *)
(* provider and user checks refuse everything else and change nothing.     *)
(***************************************************************************)

CONSTANTS
    Flow,           \* presses of Connect
    First,          \* the flow that made the connection there is at first
    Account,        \* Google accounts the user may pick
    AccountOf,      \* which one each flow ended with
    OAuthCall,      \* calls of callback and of disconnect
    NoRow

ASSUME FlowAssumption == First \in Flow /\ AccountOf \in [Flow -> Account]
ASSUME NoRowAssumption ==
    NoRow \notin [id : Flow, refresh : Flow, access : Flow, fresh : BOOLEAN]

VARIABLES
    connection,     \* the oauth_connections row of the user
    verifiers,      \* Redis: flows whose PKCE verifier can still be popped
    begun,          \* flows whose authorize URL was issued
    alive,          \* Google: grants neither revoked nor run out
    oauth,          \* each call: what it is about and where it stands
    dropped,        \* history: grants of rows a disconnect has deleted
    crossed         \* history: a token was persisted on a row reconnected since

connectionVars == <<connection, verifiers, begun, alive, oauth,
                    dropped, crossed>>

Connection == [id : Flow, refresh : Flow, access : Flow, fresh : BOOLEAN]
Idle == [flow |-> First, at |-> "idle"]

ConnectionInit ==
    /\ \E fresh \in BOOLEAN :
         connection = [id |-> First, refresh |-> First, access |-> First,
                       fresh |-> fresh]
    /\ begun = {First} /\ alive = {First} /\ verifiers = {}
    /\ oauth = [c \in OAuthCall |-> Idle]
    /\ dropped = {} /\ crossed = FALSE

-----------------------------------------------------------------------------
At(c, place) == oauth[c].at = place
Go(c, place) == oauth' = [oauth EXCEPT ![c].at = place]
To(c, f, place) == oauth' = [oauth EXCEPT ![c] = [flow |-> f, at |-> place]]

(* _verify_state: only a state that _mint_state signed for this user.      *)
Authentic(f) == f \in begun \ {First}

(* The code for tokens, and the email; a refusal may come after the grant. *)
Exchange(c, f) ==
    \/ alive' = alive \cup {f} /\ To(c, f, "store")
    \/ alive' \in {alive, alive \cup {f}} /\ To(c, f, "refused")

(* _best_effort_revoke: Google may be out of reach.                        *)
Revoke(g) == alive' \in {alive, alive \ {g}}

(* authorize: the verifier is stored before the URL is returned.           *)
Authorize(f) ==
    /\ f \notin begun
    /\ begun' = begun \cup {f}
    /\ verifiers' = verifiers \cup {f}
    /\ UNCHANGED <<connection, alive, oauth, dropped, crossed>>

(* The browser is back from the consent page: GETDEL of the verifier, which *)
(* lives ten minutes and may have run out.  A second redemption finds none. *)
Redeem(c, f) ==
    /\ At(c, "idle") /\ Authentic(f)
    /\ verifiers' = verifiers \ {f}
    /\ \/ f \in verifiers /\ Exchange(c, f)
       \/ UNCHANGED alive /\ To(c, f, "refused")
    /\ UNCHANGED <<connection, begun, dropped, crossed>>

(* Mutant: a reconnect leaves the cached access token.                     *)
StoreRefreshOnly(c) ==
    /\ At(c, "store")
    /\ LET f == oauth[c].flow IN
         connection' = IF connection = NoRow
                       THEN [id |-> f, refresh |-> f, access |-> f, fresh |-> TRUE]
                       ELSE [connection EXCEPT !.refresh = f]
    /\ Go(c, "done")
    /\ UNCHANGED <<verifiers, begun, alive, dropped, crossed>>

(* INSERT ... ON CONFLICT (user, provider) DO UPDATE: the row keeps its id. *)
Store(c) ==
    /\ At(c, "store")
    /\ LET f == oauth[c].flow IN
         connection' = [id |-> IF connection = NoRow THEN f ELSE connection.id,
                        refresh |-> f, access |-> f, fresh |-> TRUE]
    /\ Go(c, "done")
    /\ UNCHANGED <<verifiers, begun, alive, dropped, crossed>>

(* revoke: the row is read and its refresh token revoked, if Google can be *)
(* reached; then whatever row there is is deleted.                         *)
ReadConnection(c) ==
    /\ At(c, "idle")
    /\ IF connection = NoRow THEN To(c, First, "refused") /\ UNCHANGED alive
       ELSE To(c, connection.refresh, "delete") /\ Revoke(connection.refresh)
    /\ UNCHANGED <<connection, verifiers, begun, dropped, crossed>>

DeleteConnection(c) ==
    /\ At(c, "delete")
    /\ IF connection = NoRow
       THEN Go(c, "refused") /\ UNCHANGED <<connection, dropped>>
       ELSE /\ Go(c, "done")
            /\ dropped' = dropped \cup {connection.refresh, connection.access}
            /\ connection' = NoRow
    /\ UNCHANGED <<verifiers, begun, alive, crossed>>

(* A call of Google fails or is refused, or the api stops.                 *)
OAuthFails(c) ==
    /\ oauth[c].at \in {"store", "delete"}
    /\ Go(c, "refused")
    /\ UNCHANGED <<connection, verifiers, begun, alive, dropped, crossed>>

(* The access token's hour is over; a grant ends at Google: seven days in  *)
(* testing mode, or revoked on the account's own page.                     *)
TokenExpires ==
    /\ connection # NoRow /\ connection.fresh
    /\ connection' = [connection EXCEPT !.fresh = FALSE]
    /\ UNCHANGED <<verifiers, begun, alive, oauth, dropped, crossed>>

GrantEnds(g) ==
    /\ g \in alive
    /\ alive' = alive \ {g}
    /\ UNCHANGED <<connection, verifiers, begun, oauth, dropped, crossed>>

ConnectionNext ==
    \/ \E f \in Flow : Authorize(f) \/ GrantEnds(f)
    \/ \E c \in OAuthCall : \/ \E f \in Flow : Redeem(c, f)
                            \/ Store(c) \/ ReadConnection(c)
                            \/ DeleteConnection(c) \/ OAuthFails(c)
    \/ TokenExpires

-----------------------------------------------------------------------------
(* get_access_token, for a caller that read the row earlier: the cached    *)
(* token, or a refresh with the refresh token of that row.                 *)
TokenOf(row) == IF row.fresh THEN row.access ELSE row.refresh

Refused(row) == ~row.fresh /\ row.refresh \notin alive

(* Mutant: the refreshed token is written whether or not the row is there. *)
PersistByUser(row) ==
    IF row.fresh THEN UNCHANGED <<connection, crossed>>
    ELSE /\ connection' = [row EXCEPT !.access = row.refresh, !.fresh = TRUE]
         /\ UNCHANGED crossed

(* UPDATE ... WHERE id: a row that is gone is not brought back; a row that *)
(* was reconnected in between gets the access token of its earlier grant.  *)
Persist(row) ==
    IF row.fresh \/ connection = NoRow THEN UNCHANGED <<connection, crossed>>
    ELSE IF connection.id # row.id THEN UNCHANGED <<connection, crossed>>
    ELSE /\ connection' = [connection EXCEPT !.access = row.refresh, !.fresh = TRUE]
         /\ crossed' = (crossed \/ connection.refresh # row.refresh)

-----------------------------------------------------------------------------
(* Properties of the connection                                            *)

ConnectionTypeOK ==
    /\ connection \in Connection \cup {NoRow}
    /\ verifiers \subseteq begun /\ begun \subseteq Flow /\ alive \subseteq begun
    /\ oauth \in [OAuthCall -> [flow : Flow, at : {"idle", "store", "delete",
                               "done", "refused"}]]
    /\ dropped \subseteq begun
    /\ crossed \in BOOLEAN

(* The access token a request will use was issued for the account that     *)
(* the row shows, unless a refresh begun before a reconnect ended after it. *)
TokensOfOneGrant ==
    connection = NoRow \/ connection.access = connection.refresh \/ crossed

(* A disconnect is final: no request still running writes a token of the   *)
(* deleted row back.                                                       *)
DisconnectIsFinal ==
    connection = NoRow \/ {connection.refresh, connection.access} \cap dropped = {}
=============================================================================
