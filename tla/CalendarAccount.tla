--------------------------- MODULE CalendarAccount ---------------------------
(***************************************************************************)
(* A user's Google connection (calendar_security.py, application_services. *)
(* py, calendar_worker.py): authorization states that are issued, consumed *)
(* by a callback and purged, the exchange with Google between the two      *)
(* transactions of a callback, and the token row that callbacks, the       *)
(* calendar worker's refreshes and a disconnection write.                  *)
(*                                                                         *)
(* A grant is named by the authorization state whose exchange obtained it; *)
(* access tokens are not told apart.                                       *)
(***************************************************************************)
EXTENDS Naturals

CONSTANTS
  Users,
  States,       \* authorization states, by their random value
  Callbacks,    \* requests to complete an authorization, one at a time each
  NoGrant,      \* no token row, or no refresh token in Google's answer
  Ttl,          \* lifetime of a state, in ticks
  AccountHorizon \* bound: ticks of the clock

ASSUME AccountAssumption ==
  /\ NoGrant \notin States
  /\ Ttl \in Nat \ {0} /\ AccountHorizon \in Nat

VARIABLES
  clock,
  oauth,        \* oauth_states
  callback,     \* what each callback holds
  tokens,       \* google_oauth_tokens: the refresh token's grant by user
  refresh,      \* the calendar worker's refresh of each user's token
  exchanged     \* history: how many exchanges each state was let through to

accountVars == <<clock, oauth, callback, tokens, refresh, exchanged>>

NoState  == [status |-> "none", user |-> CHOOSE u \in Users : TRUE, expires |-> 0]
NoCallback == [pc |-> "idle", user |-> CHOOSE u \in Users : TRUE,
               state |-> CHOOSE s \in States : TRUE, at |-> 0, grant |-> NoGrant]

AccountInit ==
  /\ clock = 0
  /\ oauth = [s \in States |-> NoState]
  /\ callback = [c \in Callbacks |-> NoCallback]
  /\ tokens = [u \in Users |-> NoGrant]
  /\ refresh = [u \in Users |-> [pc |-> "idle", kept |-> NoGrant]]
  /\ exchanged = [s \in States |-> 0]

ClockTick ==
  /\ clock < AccountHorizon
  /\ clock' = clock + 1
  /\ UNCHANGED <<oauth, callback, tokens, refresh, exchanged>>

-----------------------------------------------------------------------------
(* OAuthStateStore *)

\* issue
IssueState(u, s) ==
  /\ oauth[s].status = "none"
  /\ oauth' = [oauth EXCEPT ![s] =
       [status |-> "open", user |-> u, expires |-> clock + Ttl]]
  /\ UNCHANGED <<clock, callback, tokens, refresh, exchanged>>

\* Mutant of Presentable: the state alone is looked up.
PresentableByAny(s, u) == oauth[s].status = "open"

\* The SELECT of consume; it does not look at the expiry.
Presentable(s, u) == oauth[s].status = "open" /\ oauth[s].user = u

\* Mutant of Consumable: the UPDATE trusts the SELECT.
ConsumableAgain(s, at) == oauth[s].status \in {"open", "used"} /\ at < oauth[s].expires

\* The UPDATE of consume; the clock was read before the transaction.
Consumable(s, at) == oauth[s].status = "open" /\ at < oauth[s].expires

\* consume up to its SELECT.
Present(c, u, s) ==
  /\ callback[c].pc = "idle"
  /\ Presentable(s, u)
  /\ callback' = [callback EXCEPT ![c] =
       [pc |-> "consuming", user |-> u, state |-> s, at |-> clock, grant |-> NoGrant]]
  /\ UNCHANGED <<clock, oauth, tokens, refresh, exchanged>>

\* The UPDATE: one row, or the callback is denied.
Consume(c) ==
  LET b == callback[c] IN
  /\ b.pc = "consuming"
  /\ IF Consumable(b.state, b.at)
     THEN /\ oauth' = [oauth EXCEPT ![b.state].status = "used"]
          /\ callback' = [callback EXCEPT ![c].pc = "exchanging"]
          /\ exchanged' = [exchanged EXCEPT ![b.state] = @ + 1]
     ELSE /\ callback' = [callback EXCEPT ![c] = NoCallback]
          /\ UNCHANGED <<oauth, exchanged>>
  /\ UNCHANGED <<clock, tokens, refresh>>

\* purge_expired; consumed records stay for an hour, beyond the clock's bound.
PurgeStates ==
  /\ \E s \in States : oauth[s].status # "none" /\ oauth[s].expires <= clock
  /\ oauth' = [s \in States |->
       IF oauth[s].status # "none" /\ oauth[s].expires <= clock
       THEN [oauth[s] EXCEPT !.status = "purged"] ELSE oauth[s]]
  /\ UNCHANGED <<clock, callback, tokens, refresh, exchanged>>

-----------------------------------------------------------------------------
(* complete_authorization after consume, and EncryptedGoogleTokenStore.save *)

\* The exchange fails; the state stays used and the user must begin again.
ExchangeFails(c) ==
  /\ callback[c].pc = "exchanging"
  /\ callback' = [callback EXCEPT ![c] = NoCallback]
  /\ UNCHANGED <<clock, oauth, tokens, refresh, exchanged>>

\* Google answers with a refresh token or, on a repeated consent, without.
Exchange(c) ==
  /\ callback[c].pc = "exchanging"
  /\ \E grant \in {callback[c].state, NoGrant} :
       callback' = [callback EXCEPT ![c].pc = "saving", ![c].grant = grant]
  /\ UNCHANGED <<clock, oauth, tokens, refresh, exchanged>>

\* save: the row's refresh token is kept when none is given; without one the
\* first connection is refused.
SaveExisting(c) ==
  LET b == callback[c] IN
  /\ b.pc = "saving"
  /\ callback' = [callback EXCEPT ![c] =
       IF b.grant # NoGrant THEN [b EXCEPT !.pc = "writing"]
       ELSE IF tokens[b.user] # NoGrant
       THEN [b EXCEPT !.pc = "writing", !.grant = tokens[b.user]]
       ELSE NoCallback]
  /\ UNCHANGED <<clock, oauth, tokens, refresh, exchanged>>

SaveTokens(c) ==
  LET b == callback[c] IN
  /\ b.pc = "writing"
  /\ tokens' = [tokens EXCEPT ![b.user] = b.grant]
  /\ callback' = [callback EXCEPT ![c] = NoCallback]
  /\ UNCHANGED <<clock, oauth, refresh, exchanged>>

\* disconnect; a worker's refresh under way is not stopped.
Disconnect(u) ==
  /\ tokens[u] # NoGrant
  /\ tokens' = [tokens EXCEPT ![u] = NoGrant]
  /\ UNCHANGED <<clock, oauth, callback, refresh, exchanged>>

-----------------------------------------------------------------------------
(* CalendarWorker._load_client and _fail *)

\* get; the token has expired, so Google is asked for a new access token.
LoadClient(u) ==
  /\ refresh[u].pc = "idle" /\ tokens[u] # NoGrant
  /\ refresh' = [refresh EXCEPT ![u].pc = "refreshing"]
  /\ UNCHANGED <<clock, oauth, callback, tokens, exchanged>>

\* save(refresh_token=None): the SELECT.  A row deleted meanwhile raises.
RefreshExisting(u) ==
  /\ refresh[u].pc = "refreshing"
  /\ refresh' = [refresh EXCEPT ![u] =
       IF tokens[u] = NoGrant THEN [pc |-> "idle", kept |-> NoGrant]
       ELSE [pc |-> "writing", kept |-> tokens[u]]]
  /\ UNCHANGED <<clock, oauth, callback, tokens, exchanged>>

\* The upsert: a row deleted or replaced after the SELECT is written again.
RefreshWrite(u) ==
  /\ refresh[u].pc = "writing"
  /\ tokens' = [tokens EXCEPT ![u] = refresh[u].kept]
  /\ refresh' = [refresh EXCEPT ![u] = [pc |-> "idle", kept |-> NoGrant]]
  /\ UNCHANGED <<clock, oauth, callback, exchanged>>

\* GoogleCalendarAuthorizationRevoked: the user's row is deleted.
Revoked(u) ==
  /\ refresh[u].pc = "refreshing"
  /\ tokens' = [tokens EXCEPT ![u] = NoGrant]
  /\ refresh' = [refresh EXCEPT ![u].pc = "idle"]
  /\ UNCHANGED <<clock, oauth, callback, exchanged>>

AccountNext ==
  \/ ClockTick \/ PurgeStates
  \/ \E u \in Users : \/ \E s \in States : IssueState(u, s)
                      \/ Disconnect(u)
                      \/ LoadClient(u) \/ RefreshExisting(u) \/ RefreshWrite(u) \/ Revoked(u)
  \/ \E c \in Callbacks :
       \/ \E u \in Users, s \in States : Present(c, u, s)
       \/ Consume(c) \/ ExchangeFails(c) \/ Exchange(c) \/ SaveExisting(c) \/ SaveTokens(c)

-----------------------------------------------------------------------------
\* A state serves once and its user only: of all the callbacks that present it,
\* together or one after the other, one at most gets to the exchange with
\* Google, and a user's account only ever holds a grant this user asked for,
\* whichever callbacks, refreshes, purges and disconnections overlap.
StateServesOnce ==
  /\ \A s \in States : exchanged[s] <= 1
  /\ \A u \in Users : tokens[u] # NoGrant => oauth[tokens[u]].user = u
=============================================================================
