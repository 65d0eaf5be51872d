--------------------------- MODULE ControlsProofs ---------------------------
(***************************************************************************)
(* Proofs about the small machines and the queues.                         *)
(*                                                                         *)
(* For any number of threads, writes, users, states and callbacks: the     *)
(* circuit breaker lets one call through between two openings, a           *)
(* transaction() block is all or nothing, an authorization state serves    *)
(* once and its user only; for any number of requests, sessions, windows   *)
(* and tool rounds, both rate limiters keep their limits and the prompts   *)
(* of the chat cost no more than they may.                                 *)
(*                                                                         *)
(* For any operations, ranges, notifications, devices, workers, attempts   *)
(* and faults of the two queues whose workers call a provider under a      *)
(* lease: the Calendar operations are a durable queue, a calendar that     *)
(* says fresh is recent while requests and workers do not cross, and the   *)
(* push provider takes a message again only after a fault.                 *)
(***************************************************************************)
EXTENDS MCControls, FiniteSetTheorems, TLAPS

-----------------------------------------------------------------------------
(* CircuitBreaker *)

\* A breaker that is open has counted enough failures to open again; freshly
\* opened it lets nobody through, and past its period only with the flag set.
BreakerInv ==
  /\ opened \in {"never", "recent", "past"}
  /\ failures \in Nat /\ probes \in Nat
  /\ opened # "never" => failures >= Threshold /\ probes <= 1
  /\ opened = "recent" => ~probe /\ probes = 0
  /\ opened = "past" => (probe \/ probes = 0)

LEMMA BreakerStep == ASSUME BreakerInv, [BreakerNext]_breakerVars PROVE BreakerInv'
<1>1. CASE Cool
  BY <1>1 DEF BreakerInv, Cool
<1>2. ASSUME NEW t \in Threads, BreakerInv, BeforeCall(t) PROVE BreakerInv'
  <2>1. CASE opened = "recent" \/ (opened = "past" /\ probe)
    BY <1>2, <2>1 DEF BreakerInv, BeforeCall
  <2>2. CASE ~(opened = "recent" \/ (opened = "past" /\ probe))
    <3>1. opened' = opened /\ failures' = failures
      BY <1>2 DEF BeforeCall
    <3>2. probe' = (probe \/ opened = "past")
      BY <1>2, <2>2 DEF BeforeCall
    <3>3. probes' = IF opened = "past" THEN probes + 1 ELSE probes
      BY <1>2, <2>2 DEF BeforeCall
    <3>4. CASE opened = "past"
      <4>1. probe' = TRUE /\ probes = 0
        BY <1>2, <2>2, <3>2, <3>4 DEF BreakerInv
      <4> QED BY <1>2, <3>1, <3>3, <3>4, <4>1 DEF BreakerInv
    <3>5. CASE opened = "never"
      BY <1>2, <3>1, <3>3, <3>5 DEF BreakerInv
    <3> QED BY <1>2, <2>2, <3>4, <3>5 DEF BreakerInv
  <2> QED BY <2>1, <2>2
<1>3. ASSUME NEW t \in Threads, BreakerInv, Succeeded(t) PROVE BreakerInv'
  BY <1>3 DEF BreakerInv, Succeeded
<1>4. ASSUME NEW t \in Threads, NEW class \in FailureClasses, BreakerInv, Failed(t, class)
      PROVE BreakerInv'
  <2>1. /\ failures' = failures + 1 /\ probe' = FALSE
        /\ opened' = IF failures + 1 >= Threshold THEN "recent" ELSE opened
        /\ probes' = IF opened' = "recent" THEN 0 ELSE probes
    BY <1>4 DEF Failed, ProbeAfterFailure, Reopened
  <2>2. CASE failures + 1 >= Threshold
    BY <1>4, <2>1, <2>2, BreakerAssumption DEF BreakerInv
  <2>3. CASE ~(failures + 1 >= Threshold)
    <3>1. opened = "never"
      BY <1>4, <2>3, BreakerAssumption DEF BreakerInv
    <3> QED BY <1>4, <2>1, <2>3, <3>1 DEF BreakerInv
  <2> QED BY <2>2, <2>3
<1>5. CASE UNCHANGED breakerVars
  BY <1>5 DEF BreakerInv, breakerVars
<1> QED BY <1>1, <1>2, <1>3, <1>4, <1>5 DEF BreakerNext

\* One call at most is let through a breaker between two of its openings,
\* whatever answers come late (external_resilience.py).
THEOREM ProbesOnce ==
  BreakerInit /\ [][BreakerNext]_breakerVars => []OneProbePerOpening
<1>1. BreakerInit => BreakerInv
  BY DEF BreakerInit, BreakerInv
<1>2. BreakerInv /\ [BreakerNext]_breakerVars => BreakerInv'
  BY BreakerStep
<1>3. BreakerInv => OneProbePerOpening
  BY DEF BreakerInv, OneProbePerOpening
<1> QED BY <1>1, <1>2, <1>3, PTL

-----------------------------------------------------------------------------
(* TransactionScope *)

\* The writes of a block wait in the connection's transaction, unless an error
\* has been marked; none of them is durable.
ScopeInv ==
  /\ depth \in Nat /\ next \in Nat
  /\ \A k \in pending \cup committed \cup block : k \in Nat /\ k < next
  /\ depth > 0 => block \cap committed = {}
  /\ depth > 0 /\ ~failed => block \subseteq pending

LEMMA ScopeStep == ASSUME ScopeInv, [ScopeNext]_scopeVars PROVE ScopeInv'
<1>1. CASE Enter
  <2>1. depth' = depth + 1 /\ pending' = pending /\ committed' = committed /\ next' = next
    BY <1>1 DEF Enter
  <2>2. CASE depth = 0
    <3>1. block' = {}
      BY <1>1, <2>2 DEF Enter
    <3> QED BY <2>1, <2>2, <3>1 DEF ScopeInv
  <2>3. CASE depth # 0
    <3>1. block' = block /\ depth > 0 /\ depth' \in Nat
      BY <1>1, <2>1, <2>3 DEF Enter, ScopeInv
    <3>2. ~failed' => ~failed
      BY <1>1, <3>1, Zenon DEF Enter
    <3>3. ~failed' => block' \subseteq pending'
      BY <2>1, <3>1, <3>2, Zenon DEF ScopeInv
    <3>4. block' \cap committed' = {}
      BY <2>1, <3>1, Zenon DEF ScopeInv
    <3>5. \A k \in pending' \cup committed' \cup block' : k \in Nat /\ k < next'
      BY <2>1, <3>1, Zenon DEF ScopeInv
    <3>6. next' \in Nat
      BY <2>1, Zenon DEF ScopeInv
    <3> QED BY <3>1, <3>3, <3>4, <3>5, <3>6, Zenon DEF ScopeInv
  <2> QED BY <2>2, <2>3
<1>2. CASE Execute
  <2>1. /\ depth' = depth /\ next' = next + 1 /\ committed' = committed
        /\ pending' = pending \cup {next} /\ block' = block \cup {next}
    BY <1>2, Zenon DEF Execute
  <2>2. failed' = failed
    BY <1>2, Zenon DEF Execute
  <2>3. \A k \in pending' \cup committed' \cup block' : k \in Nat /\ k < next'
    BY <2>1 DEF ScopeInv
  <2>4. depth' > 0 => block' \cap committed' = {}
    <3>1. next \notin committed
      BY DEF ScopeInv
    <3> QED BY <2>1, <3>1 DEF ScopeInv
  <2>5. depth' > 0 /\ ~failed' => block' \subseteq pending'
    <3> SUFFICES ASSUME depth > 0, ~failed PROVE block' \subseteq pending'
      BY <2>1, <2>2, Zenon
    <3> QED BY <2>1, Zenon DEF ScopeInv
  <2>6. depth' \in Nat /\ next' \in Nat
    BY <2>1 DEF ScopeInv
  <2> QED BY <2>3, <2>4, <2>5, <2>6, Zenon DEF ScopeInv
<1>3. CASE ExecuteFails
  <2>1. /\ depth' = depth /\ next' = next /\ raising' = TRUE /\ committed' = committed
        /\ block' = block /\ pending' = {} /\ failed' = (failed \/ depth > 0)
    BY <1>3 DEF ExecuteFails, MarksFailure
  <2> QED BY <2>1 DEF ScopeInv
<1>4. CASE Disconnected
  <2>1. /\ depth' = depth /\ next' = next + 1 /\ committed' = committed
        /\ failed' = (failed \/ depth > 0)
    BY <1>4 DEF Disconnected, MarksFailure
  <2>2. block' = block \/ (depth = 0 /\ block' = block \cup {next})
    BY <1>4 DEF Disconnected
  <2>3. pending' = {} \/ pending' = {next}
    BY <1>4 DEF Disconnected
  <2>4. depth' \in Nat /\ next' \in Nat
    BY <2>1 DEF ScopeInv
  <2>5. \A k \in pending' \cup committed' \cup block' : k \in Nat /\ k < next'
    BY <2>1, <2>2, <2>3 DEF ScopeInv
  <2>6. depth' > 0 => block' \cap committed' = {}
    BY <2>1, <2>2 DEF ScopeInv
  <2>7. ~(depth' > 0 /\ ~failed')
    BY <2>1, Zenon
  <2> QED BY <2>4, <2>5, <2>6, <2>7, Zenon DEF ScopeInv
<1>5. CASE HelperCommit
  BY <1>5 DEF ScopeInv, HelperCommit, Standalone
<1>6. CASE Catch
  BY <1>6 DEF ScopeInv, Catch
<1>7. CASE Leave
  <2>1. CASE depth > 1
    <3>1. /\ depth' = depth - 1 /\ next' = next /\ block' = block
          /\ pending' = pending /\ committed' = committed
      BY <1>7, <2>1 DEF Leave
    <3>2. ~failed' => ~failed
      BY <1>7, <2>1 DEF Leave
    <3>3. depth > 0 /\ depth' \in Nat /\ next' \in Nat
      BY <2>1, <3>1 DEF ScopeInv
    <3>4. \A k \in pending' \cup committed' \cup block' : k \in Nat /\ k < next'
      BY <3>1, Zenon DEF ScopeInv
    <3>5. block' \cap committed' = {}
      BY <3>1, <3>3, Zenon DEF ScopeInv
    <3>6. ~failed' => block' \subseteq pending'
      BY <3>1, <3>2, <3>3, Zenon DEF ScopeInv
    <3> QED BY <3>3, <3>4, <3>5, <3>6, Zenon DEF ScopeInv
  <2>2. CASE depth = 1
    <3>1. /\ depth' = 0 /\ next' = next /\ raising' = raising /\ block' = block
          /\ pending' = {} /\ failed' = FALSE /\ committed' \subseteq committed \cup pending
      BY <1>7, <2>2 DEF Leave
    <3> QED BY <3>1 DEF ScopeInv
  <2> QED BY <1>7, <2>1, <2>2 DEF Leave, ScopeInv
<1>8. CASE Release
  BY <1>8 DEF ScopeInv, Release, RolledBack
<1>9. CASE UNCHANGED scopeVars
  BY <1>9 DEF ScopeInv, scopeVars
<1> QED BY <1>1, <1>2, <1>3, <1>4, <1>5, <1>6, <1>7, <1>8, <1>9 DEF ScopeNext

\* A block is all or nothing, however deep it is nested, whatever its helpers
\* commit and whichever errors are swallowed in it (Database.transaction).
THEOREM BlocksAreAtomic ==
  ScopeInit /\ [][ScopeNext]_scopeVars => BlockIsAtomic
<1> DEFINE Atomic ==
      /\ depth > 0 => block' \cap committed' = {} \/ depth' = 0
      /\ depth = 1 /\ depth' = 0 => block \subseteq committed' \/ block \cap committed' = {}
<1>1. ScopeInit => ScopeInv
  BY DEF ScopeInit, ScopeInv
<1>2. ScopeInv /\ [ScopeNext]_scopeVars => ScopeInv'
  BY ScopeStep
<1>3. ScopeInv /\ ScopeInv' /\ [ScopeNext]_scopeVars => [Atomic]_scopeVars
  <2> SUFFICES ASSUME ScopeInv, ScopeInv', ScopeNext PROVE Atomic
    OBVIOUS
  <2>1. depth > 0 => block' \cap committed' = {} \/ depth' = 0
    BY DEF ScopeInv
  <2>2. ASSUME depth = 1, depth' = 0
        PROVE block \subseteq committed' \/ block \cap committed' = {}
    <3>1. Leave
      BY <2>2 DEF ScopeNext, Enter, Execute, ExecuteFails, Disconnected, HelperCommit, Catch,
                  Release
    <3>2. CASE failed \/ raising
      <4>1. committed' = committed
        BY <2>2, <3>1, <3>2 DEF Leave
      <4> QED BY <2>2, <4>1 DEF ScopeInv
    <3>3. CASE ~(failed \/ raising)
      <4>1. committed' = committed \cup pending
        BY <2>2, <3>1, <3>3 DEF Leave
      <4> QED BY <2>2, <3>3, <4>1 DEF ScopeInv
    <3> QED BY <3>2, <3>3
  <2> QED BY <2>1, <2>2
<1>4. [][Atomic]_scopeVars <=> BlockIsAtomic
  BY DEF BlockIsAtomic
<1> QED BY <1>1, <1>2, <1>3, <1>4, PTL

-----------------------------------------------------------------------------
(* CalendarAccount *)

AnyUser  == Users \cup {NoState.user}
AnyState == States \cup {NoCallback.state}
Grants   == States \cup {NoGrant}

AccountType ==
  /\ clock \in Nat
  /\ oauth \in [States -> [status : {"none", "open", "used", "purged"}, user : AnyUser,
                           expires : Nat]]
  /\ callback \in [Callbacks ->
       [pc : {"idle", "consuming", "exchanging", "saving", "writing"}, user : AnyUser,
        state : AnyState, at : Nat, grant : Grants]]
  /\ tokens \in [Users -> Grants]
  /\ refresh \in [Users -> [pc : {"idle", "refreshing", "writing"}, kept : Grants]]
  /\ exchanged \in [States -> Nat]

\* A grant that exists and was asked for by this user.
Owned(g, u) == g \in States /\ oauth[g].status # "none" /\ oauth[g].user = u

\* A state that has not been used was never let through.
UsedOnce ==
  \A s \in States :
    /\ exchanged[s] <= 1
    /\ oauth[s].status \in {"none", "open"} => exchanged[s] = 0

\* What a callback holds is its user's.
CallbackInv ==
  \A c \in Callbacks :
    LET b == callback[c] IN
    /\ b.pc # "idle" => b.user \in Users /\ Owned(b.state, b.user)
    /\ b.pc = "saving" => b.grant \in {b.state, NoGrant}
    /\ b.pc = "writing" => Owned(b.grant, b.user)

\* So is what the token row and a refresh under way hold.
TokenInv ==
  \A u \in Users :
    /\ tokens[u] # NoGrant => Owned(tokens[u], u)
    /\ refresh[u].pc = "writing" => Owned(refresh[u].kept, u)

AccountInv == AccountType /\ UsedOnce /\ CallbackInv /\ TokenInv

LEMMA AccountStart == AccountInit => AccountInv
<1> SUFFICES ASSUME AccountInit PROVE AccountInv
  OBVIOUS
<1> USE AccountAssumption DEF AccountInit
<1>1. AccountType
  BY DEF AccountType, NoState, NoCallback, AnyUser, AnyState, Grants
<1>2. UsedOnce
  BY DEF UsedOnce
<1>3. CallbackInv
  BY DEF CallbackInv, NoCallback
<1>4. TokenInv
  BY DEF TokenInv
<1> QED BY <1>1, <1>2, <1>3, <1>4 DEF AccountInv

\* The steps that only move a callback.
LEMMA CallbackMoves ==
  ASSUME AccountInv, NEW c \in Callbacks, NEW b,
         UNCHANGED <<clock, oauth, tokens, refresh, exchanged>>,
         callback' = [callback EXCEPT ![c] = b],
         b \in [pc : {"idle", "consuming", "exchanging", "saving", "writing"},
                user : AnyUser, state : AnyState, at : Nat, grant : Grants],
         b.pc # "idle" => b.user \in Users /\ Owned(b.state, b.user),
         b.pc = "saving" => b.grant \in {b.state, NoGrant},
         b.pc = "writing" => Owned(b.grant, b.user)
  PROVE  AccountInv'
<1>1. AccountType'
  BY DEF AccountInv, AccountType
<1>2. UsedOnce'
  BY DEF AccountInv, UsedOnce
<1>3. CallbackInv'
  BY DEF AccountInv, AccountType, CallbackInv, Owned
<1>4. TokenInv'
  BY DEF AccountInv, TokenInv, Owned
<1> QED BY <1>1, <1>2, <1>3, <1>4 DEF AccountInv

LEMMA NoCallbackType ==
  /\ NoCallback \in [pc : {"idle", "consuming", "exchanging", "saving", "writing"},
                     user : AnyUser, state : AnyState, at : Nat, grant : Grants]
  /\ NoCallback.pc = "idle"
BY DEF NoCallback, NoState, AnyUser, AnyState, Grants

\* The steps on one user's token row and its refresh.
LEMMA TokenMoves ==
  ASSUME AccountInv, NEW u \in Users, NEW g \in Grants, NEW r,
         UNCHANGED <<clock, oauth, exchanged>>,
         callback' = callback \/ \E c \in Callbacks : callback' = [callback EXCEPT ![c] = NoCallback],
         tokens' = [tokens EXCEPT ![u] = g],
         refresh' = [refresh EXCEPT ![u] = r],
         r \in [pc : {"idle", "refreshing", "writing"}, kept : Grants],
         g # NoGrant => Owned(g, u),
         r.pc = "writing" => Owned(r.kept, u)
  PROVE  AccountInv'
<1>1. AccountType'
  BY NoCallbackType DEF AccountInv, AccountType
<1>2. UsedOnce'
  BY DEF AccountInv, UsedOnce
<1>3. CallbackInv'
  BY NoCallbackType DEF AccountInv, AccountType, CallbackInv, Owned
<1>4. TokenInv'
  BY DEF AccountInv, AccountType, TokenInv, Owned
<1> QED BY <1>1, <1>2, <1>3, <1>4 DEF AccountInv

LEMMA AccountStep == AccountInv /\ [AccountNext]_accountVars => AccountInv'
<1> SUFFICES ASSUME AccountInv, [AccountNext]_accountVars PROVE AccountInv'
  OBVIOUS
<1> USE AccountAssumption
<1>1. CASE ClockTick
  BY <1>1 DEF ClockTick, AccountInv, AccountType, UsedOnce, CallbackInv, TokenInv, Owned
<1>2. CASE PurgeStates
  <2>1. AccountType'
    BY <1>2 DEF PurgeStates, AccountInv, AccountType
  <2>2. \A s \in States : /\ oauth'[s].user = oauth[s].user
                          /\ oauth'[s].status \in {oauth[s].status, "purged"}
                          /\ oauth[s].status = "none" => oauth'[s].status = "none"
                          /\ oauth[s].status # "none" => oauth'[s].status # "none"
    BY <1>2 DEF PurgeStates, AccountInv, AccountType
  <2>3. \A g, u : Owned(g, u) => Owned(g, u)'
    BY <2>2 DEF Owned
  <2>4. UsedOnce'
    BY <1>2, <2>2 DEF PurgeStates, AccountInv, UsedOnce
  <2>5. CallbackInv'
    BY <1>2, <2>3 DEF PurgeStates, AccountInv, CallbackInv
  <2>6. TokenInv'
    BY <1>2, <2>3 DEF PurgeStates, AccountInv, TokenInv
  <2> QED BY <2>1, <2>4, <2>5, <2>6 DEF AccountInv
<1>3. ASSUME NEW u \in Users, NEW s \in States, IssueState(u, s) PROVE AccountInv'
  <2>1. AccountType'
    BY <1>3 DEF IssueState, AccountInv, AccountType, AnyUser
  <2>2. \A g, v : Owned(g, v) => Owned(g, v)'
    BY <1>3 DEF IssueState, Owned, AccountInv, AccountType
  <2>4. UsedOnce'
    BY <1>3 DEF IssueState, AccountInv, AccountType, UsedOnce
  <2>5. CallbackInv'
    BY <1>3, <2>2 DEF IssueState, AccountInv, CallbackInv
  <2>6. TokenInv'
    BY <1>3, <2>2 DEF IssueState, AccountInv, TokenInv
  <2> QED BY <2>1, <2>4, <2>5, <2>6 DEF AccountInv
<1>4. ASSUME NEW c \in Callbacks, NEW u \in Users, NEW s \in States, Present(c, u, s)
      PROVE AccountInv'
  <2> DEFINE b == [pc |-> "consuming", user |-> u, state |-> s, at |-> clock, grant |-> NoGrant]
  <2>1. b \in [pc : {"idle", "consuming", "exchanging", "saving", "writing"},
               user : AnyUser, state : AnyState, at : Nat, grant : Grants]
    BY DEF AccountInv, AccountType, AnyUser, AnyState, Grants
  <2>2. Owned(s, u)
    BY <1>4 DEF Present, Presentable, Owned
  <2>3. b.pc = "consuming" /\ b.user = u /\ b.state = s
    OBVIOUS
  <2>4. UNCHANGED <<clock, oauth, tokens, refresh, exchanged>> /\ callback' = [callback EXCEPT ![c] = b]
    BY <1>4 DEF Present
  <2> HIDE DEF b
  <2> QED BY <2>1, <2>2, <2>3, <2>4, CallbackMoves
<1>5. ASSUME NEW c \in Callbacks, Consume(c) PROVE AccountInv'
  <2> DEFINE s == callback[c].state
  <2>1. CASE ~Consumable(s, callback[c].at)
    <3>1. UNCHANGED <<clock, oauth, tokens, refresh, exchanged>>
          /\ callback' = [callback EXCEPT ![c] = NoCallback]
      BY <1>5, <2>1 DEF Consume
    <3> QED BY <3>1, NoCallbackType, CallbackMoves
  <2>2. CASE Consumable(s, callback[c].at)
    <3>1. /\ oauth' = [oauth EXCEPT ![s].status = "used"]
          /\ callback' = [callback EXCEPT ![c].pc = "exchanging"]
          /\ exchanged' = [exchanged EXCEPT ![s] = @ + 1]
          /\ UNCHANGED <<clock, tokens, refresh>>
      BY <1>5, <2>2 DEF Consume
    <3>2. callback[c].pc = "consuming" /\ s \in States
      BY <1>5 DEF Consume, AccountInv, CallbackInv, Owned
    <3>3. AccountType'
      <4>1. oauth[s] \in [status : {"none", "open", "used", "purged"}, user : AnyUser,
                          expires : Nat]
        BY <3>2 DEF AccountInv, AccountType
      <4>2. [oauth[s] EXCEPT !.status = "used"] \in
              [status : {"none", "open", "used", "purged"}, user : AnyUser, expires : Nat]
        BY <4>1
      <4>3. callback[c] \in
              [pc : {"idle", "consuming", "exchanging", "saving", "writing"}, user : AnyUser,
               state : AnyState, at : Nat, grant : Grants]
        BY DEF AccountInv, AccountType
      <4>4. [callback[c] EXCEPT !.pc = "exchanging"] \in
              [pc : {"idle", "consuming", "exchanging", "saving", "writing"}, user : AnyUser,
               state : AnyState, at : Nat, grant : Grants]
        BY <4>3
      <4>5. exchanged[s] + 1 \in Nat
        BY <3>2 DEF AccountInv, AccountType
      <4>6. oauth' = [oauth EXCEPT ![s] = [oauth[s] EXCEPT !.status = "used"]]
        BY <3>1
      <4>7. callback' = [callback EXCEPT ![c] = [callback[c] EXCEPT !.pc = "exchanging"]]
        BY <3>1
      <4>8. exchanged' = [exchanged EXCEPT ![s] = exchanged[s] + 1]
        BY <3>1
      <4> QED BY <3>1, <3>2, <4>2, <4>4, <4>5, <4>6, <4>7, <4>8 DEF AccountInv, AccountType
    <3>4. \A g, u : Owned(g, u) => Owned(g, u)'
      BY <3>1, <3>2 DEF Owned, AccountInv, AccountType
    <3>5. UsedOnce'
      BY <2>2, <3>1, <3>2 DEF Consumable, AccountInv, AccountType, UsedOnce
    <3>6. CallbackInv'
      BY <3>1, <3>2, <3>4 DEF AccountInv, AccountType, CallbackInv
    <3>7. TokenInv'
      BY <3>1, <3>4 DEF AccountInv, TokenInv
    <3> QED BY <3>3, <3>5, <3>6, <3>7 DEF AccountInv
  <2> QED BY <2>1, <2>2
<1>6. ASSUME NEW c \in Callbacks, ExchangeFails(c) PROVE AccountInv'
  BY <1>6, NoCallbackType, CallbackMoves DEF ExchangeFails
<1>7. ASSUME NEW c \in Callbacks, Exchange(c) PROVE AccountInv'
  <2>1. PICK grant \in {callback[c].state, NoGrant} :
          callback' = [callback EXCEPT ![c] = [callback[c] EXCEPT !.pc = "saving", !.grant = grant]]
    BY <1>7 DEF Exchange
  <2> DEFINE b == [callback[c] EXCEPT !.pc = "saving", !.grant = grant]
  <2>2. callback[c].pc = "exchanging" /\ UNCHANGED <<clock, oauth, tokens, refresh, exchanged>>
    BY <1>7 DEF Exchange
  <2>3. callback[c].user \in Users /\ Owned(callback[c].state, callback[c].user)
    BY <2>2 DEF AccountInv, CallbackInv
  <2>4. b \in [pc : {"idle", "consuming", "exchanging", "saving", "writing"},
               user : AnyUser, state : AnyState, at : Nat, grant : Grants]
    <3>1. grant \in Grants
      BY <2>3 DEF Grants, Owned
    <3>2. callback[c] \in
            [pc : {"idle", "consuming", "exchanging", "saving", "writing"}, user : AnyUser,
             state : AnyState, at : Nat, grant : Grants]
      BY DEF AccountInv, AccountType
    <3> QED BY <3>1, <3>2
  <2>5. b.pc = "saving" /\ b.user = callback[c].user /\ b.state = callback[c].state /\ b.grant = grant
    BY DEF AccountInv, AccountType
  <2>6. callback' = [callback EXCEPT ![c] = b]
    BY <2>1
  <2> HIDE DEF b
  <2> QED BY <2>2, <2>3, <2>4, <2>5, <2>6, CallbackMoves
<1>8. ASSUME NEW c \in Callbacks, SaveExisting(c) PROVE AccountInv'
  <2> DEFINE u == callback[c].user
             b == IF callback[c].grant # NoGrant THEN [callback[c] EXCEPT !.pc = "writing"]
                  ELSE IF tokens[u] # NoGrant
                  THEN [callback[c] EXCEPT !.pc = "writing", !.grant = tokens[u]]
                  ELSE NoCallback
  <2>1. /\ callback[c].pc = "saving" /\ callback' = [callback EXCEPT ![c] = b]
        /\ UNCHANGED <<clock, oauth, tokens, refresh, exchanged>>
    BY <1>8 DEF SaveExisting
  <2>2. /\ u \in Users /\ Owned(callback[c].state, u)
        /\ callback[c].grant \in {callback[c].state, NoGrant}
    BY <2>1 DEF AccountInv, CallbackInv
  <2>3. tokens[u] # NoGrant => Owned(tokens[u], u)
    BY <2>2 DEF AccountInv, TokenInv
  <2>4. b \in [pc : {"idle", "consuming", "exchanging", "saving", "writing"},
               user : AnyUser, state : AnyState, at : Nat, grant : Grants]
    BY <2>2, <2>3, NoCallbackType DEF AccountInv, AccountType, Grants
  <2>5. \/ b.pc = "idle"
        \/ /\ b.pc = "writing" /\ b.user = u /\ b.state = callback[c].state
           /\ b.grant = callback[c].state \/ (tokens[u] # NoGrant /\ b.grant = tokens[u])
    BY <2>2, NoCallbackType DEF AccountInv, AccountType
  <2> HIDE DEF b, u
  <2> QED BY <2>1, <2>2, <2>3, <2>4, <2>5, CallbackMoves
<1>9. ASSUME NEW c \in Callbacks, SaveTokens(c) PROVE AccountInv'
  <2> DEFINE u == callback[c].user
             g == callback[c].grant
  <2>1. /\ callback[c].pc = "writing" /\ tokens' = [tokens EXCEPT ![u] = g]
        /\ callback' = [callback EXCEPT ![c] = NoCallback]
        /\ UNCHANGED <<clock, oauth, refresh, exchanged>>
    BY <1>9 DEF SaveTokens
  <2>2. u \in Users /\ Owned(g, u) /\ g \in Grants
    BY <2>1 DEF AccountInv, AccountType, CallbackInv
  <2>3. refresh' = [refresh EXCEPT ![u] = refresh[u]]
    BY <2>1, <2>2 DEF AccountInv, AccountType
  <2>4. /\ refresh[u] \in [pc : {"idle", "refreshing", "writing"}, kept : Grants]
        /\ refresh[u].pc = "writing" => Owned(refresh[u].kept, u)
    BY <2>2 DEF AccountInv, AccountType, TokenInv
  <2> HIDE DEF u, g
  <2> QED BY <2>1, <2>2, <2>3, <2>4, TokenMoves
<1>10. ASSUME NEW u \in Users, Disconnect(u) PROVE AccountInv'
  <2>1. /\ refresh' = [refresh EXCEPT ![u] = refresh[u]] /\ callback' = callback
        /\ tokens' = [tokens EXCEPT ![u] = NoGrant] /\ UNCHANGED <<clock, oauth, exchanged>>
    BY <1>10 DEF Disconnect, AccountInv, AccountType
  <2>2. /\ refresh[u] \in [pc : {"idle", "refreshing", "writing"}, kept : Grants]
        /\ refresh[u].pc = "writing" => Owned(refresh[u].kept, u)
    BY DEF AccountInv, AccountType, TokenInv
  <2>3. NoGrant \in Grants
    BY DEF Grants
  <2> QED BY <2>1, <2>2, <2>3, TokenMoves
<1>11. ASSUME NEW u \in Users, LoadClient(u) \/ RefreshExisting(u) \/ RefreshWrite(u) \/ Revoked(u)
       PROVE AccountInv'
  <2> DEFINE Idle == [pc |-> "idle", kept |-> NoGrant]
  <2>1. /\ refresh[u] \in [pc : {"idle", "refreshing", "writing"}, kept : Grants]
        /\ refresh[u].pc = "writing" => Owned(refresh[u].kept, u)
        /\ tokens[u] \in Grants
        /\ tokens[u] # NoGrant => Owned(tokens[u], u)
        /\ tokens = [tokens EXCEPT ![u] = tokens[u]]
    BY DEF AccountInv, AccountType, TokenInv
  <2>2. NoGrant \in Grants
        /\ Idle \in [pc : {"idle", "refreshing", "writing"}, kept : Grants] /\ Idle.pc = "idle"
    BY DEF Grants
  <2>3. CASE LoadClient(u)
    <3> DEFINE r == [refresh[u] EXCEPT !.pc = "refreshing"]
    <3>1. refresh' = [refresh EXCEPT ![u] = r] /\ UNCHANGED <<clock, oauth, callback, tokens, exchanged>>
      BY <2>3 DEF LoadClient
    <3>2. r \in [pc : {"idle", "refreshing", "writing"}, kept : Grants] /\ r.pc = "refreshing"
      BY <2>1
    <3>3. tokens' = [tokens EXCEPT ![u] = tokens[u]]
      BY <2>1, <3>1
    <3> HIDE DEF r
    <3> QED BY <2>1, <3>1, <3>2, <3>3, TokenMoves
  <2>4. CASE RefreshExisting(u)
    <3> DEFINE r == IF tokens[u] = NoGrant THEN Idle ELSE [pc |-> "writing", kept |-> tokens[u]]
    <3>1. refresh' = [refresh EXCEPT ![u] = r] /\ UNCHANGED <<clock, oauth, callback, tokens, exchanged>>
      BY <2>4 DEF RefreshExisting
    <3>2. /\ r \in [pc : {"idle", "refreshing", "writing"}, kept : Grants]
          /\ r.pc = "writing" => tokens[u] # NoGrant /\ r.kept = tokens[u]
      <4>1. CASE tokens[u] = NoGrant
        BY <2>2, <4>1
      <4>2. CASE tokens[u] # NoGrant
        BY <2>1, <4>2
      <4> QED BY <4>1, <4>2
    <3>3. tokens' = [tokens EXCEPT ![u] = tokens[u]]
      BY <2>1, <3>1
    <3> HIDE DEF r, Idle
    <3> QED BY <2>1, <3>1, <3>2, <3>3, TokenMoves
  <2>5. CASE RefreshWrite(u)
    <3> DEFINE k == refresh[u].kept
    <3>1. /\ refresh[u].pc = "writing" /\ tokens' = [tokens EXCEPT ![u] = k]
          /\ refresh' = [refresh EXCEPT ![u] = Idle]
          /\ UNCHANGED <<clock, oauth, callback, exchanged>>
      BY <2>5 DEF RefreshWrite
    <3>2. k \in Grants /\ Owned(k, u)
      BY <2>1, <3>1
    <3> HIDE DEF k, Idle
    <3> QED BY <2>2, <3>1, <3>2, TokenMoves
  <2>6. CASE Revoked(u)
    <3> DEFINE r == [refresh[u] EXCEPT !.pc = "idle"]
    <3>1. refresh' = [refresh EXCEPT ![u] = r] /\ tokens' = [tokens EXCEPT ![u] = NoGrant]
          /\ UNCHANGED <<clock, oauth, callback, exchanged>>
      BY <2>6 DEF Revoked
    <3>2. r \in [pc : {"idle", "refreshing", "writing"}, kept : Grants] /\ r.pc = "idle"
      BY <2>1
    <3> HIDE DEF r
    <3> QED BY <2>2, <3>1, <3>2, TokenMoves
  <2> QED BY <1>11, <2>3, <2>4, <2>5, <2>6
<1>12. CASE UNCHANGED accountVars
  BY <1>12 DEF accountVars, AccountInv, AccountType, UsedOnce, CallbackInv, TokenInv, Owned
<1> QED BY <1>1, <1>2, <1>3, <1>4, <1>5, <1>6, <1>7, <1>8, <1>9, <1>10, <1>11, <1>12
        DEF AccountNext

\* An authorization state is exchanged once at most, and a token row only ever
\* holds a grant its user asked for, for any users, states and callbacks.
THEOREM StatesServeOnce ==
  AccountInit /\ [][AccountNext]_accountVars => []StateServesOnce
<1>1. AccountInv => StateServesOnce
  BY DEF AccountInv, UsedOnce, TokenInv, Owned, StateServesOnce
<1> QED BY <1>1, AccountStart, AccountStep, PTL

-----------------------------------------------------------------------------
(* RateLimits *)

\* The process's limiter: the queue holds the newest admissions, all older ones
\* have aged, and MaxRequests admissions take longer than the window.
SlidingInv ==
  /\ now \in 0 .. Horizon /\ admits \in Seq(Nat) /\ hits \in Seq(Nat)
  /\ \A i \in 1 .. Len(admits) : admits[i] <= now
  /\ \A i, j \in 1 .. Len(admits) : i <= j => admits[i] <= admits[j]
  /\ Len(hits) <= MaxRequests /\ Len(hits) <= Len(admits)
  /\ \A i \in 1 .. Len(hits) : hits[i] = admits[Len(admits) - Len(hits) + i]
  /\ \A i \in 1 .. Len(admits) - Len(hits) : now - admits[i] > Window
  /\ \A i \in 1 .. Len(admits) :
       i + MaxRequests <= Len(admits) => admits[i + MaxRequests] - admits[i] > Window

\* The database limiter: of a window that lasts, or is still to come, nothing
\* has been purged, so the row counts what was admitted in time.
FixedInv ==
  /\ now \in 0 .. Horizon
  /\ bucket \in [WindowKeys -> 0 .. MaxRequests] /\ onTime \in [WindowKeys -> 0 .. MaxRequests]
  /\ \A r \in DOMAIN request : request[r] \in 0 .. now
  /\ \A k \in WindowKeys : KeyAt(now) <= k => onTime[k] <= bucket[k]

LEMMA DivBounds ==
  ASSUME NEW a \in Nat, NEW b \in Nat, b > 0
  PROVE  a \div b \in Nat /\ b * (a \div b) <= a /\ a < b * (a \div b) + b
<1>1. a \div b \in Nat
  BY SMT
<1>2. b * (a \div b) <= a
  BY SMT
<1>3. a < b * (a \div b) + b
  BY SMT
<1> QED BY <1>1, <1>2, <1>3

\* The window of an earlier time is not a later one.
LEMMA Keys ==
  ASSUME NEW t \in Nat, NEW u \in Nat, t <= u
  PROVE  KeyAt(t) \in Nat /\ KeyAt(u) \in Nat /\ KeyAt(t) <= KeyAt(u)
<1> DEFINE p == t \div Window
           q == u \div Window
<1>1. p \in Nat /\ Window * p <= t /\ q \in Nat /\ u < Window * q + Window
      /\ Window \in Nat /\ Window > 0
  BY LimitAssumption, DivBounds
<1> HIDE DEF p, q
<1>2. p <= q
  <2> SUFFICES ASSUME q < p PROVE FALSE
    BY <1>1
  <2>1. Window * (q + 1) <= Window * p
    BY <1>1
  <2>2. Window * (q + 1) = Window * q + Window
    BY <1>1
  <2> QED BY <1>1, <2>1, <2>2
<1> QED BY <1>1, <1>2 DEF KeyAt, p, q

\* A window that is over before t is not that of t, nor of a later time.
LEMMA OverBefore ==
  ASSUME NEW t \in Nat, NEW k \in Nat, (k + 1) * Window <= t PROVE k < KeyAt(t)
<1> DEFINE p == t \div Window
<1>1. p \in Nat /\ t < Window * p + Window /\ Window \in Nat /\ Window > 0
  BY LimitAssumption, DivBounds
<1> HIDE DEF p
<1>2. (k + 1) * Window = Window * (k + 1) /\ Window * (p + 1) = Window * p + Window
  BY <1>1
<1>3. k < p
  <2> SUFFICES ASSUME p <= k PROVE FALSE
    BY <1>1
  <2>1. Window * (p + 1) <= Window * (k + 1)
    BY <1>1
  <2> QED BY <1>1, <1>2, <2>1
<1> QED BY <1>3 DEF KeyAt, p

LEMMA SlidingTick == ASSUME SlidingInv, Tick PROVE SlidingInv'
<1>1. /\ now \in Nat /\ now' = now + 1 /\ now < Horizon /\ Horizon \in Nat /\ Window \in Nat
      /\ admits' = admits /\ hits' = hits
  BY LimitAssumption DEF SlidingInv, Tick
<1>2. \A i \in 1 .. Len(admits) : admits[i] \in Nat
  BY DEF SlidingInv
<1>3. Len(admits) \in Nat /\ Len(hits) \in Nat
  BY DEF SlidingInv
<1>4. \A i \in 1 .. Len(admits) - Len(hits) : admits[i] \in Nat
  BY <1>2, <1>3
<1> QED BY <1>1, <1>2, <1>3, <1>4 DEF SlidingInv

\* The front of the queue that is dropped.
LEMMA SlidingKept ==
  ASSUME SlidingInv, NEW n \in 0 .. Len(hits), Drops(n)
  PROVE  LET kept == SubSeq(hits, n + 1, Len(hits)) IN
         /\ kept \in Seq(Nat) /\ Len(kept) = Len(hits) - n
         /\ \A i \in 1 .. Len(kept) : kept[i] = admits[Len(admits) - Len(kept) + i]
         /\ \A i \in 1 .. Len(admits) - Len(kept) : now - admits[i] > Window
<1> DEFINE kept == SubSeq(hits, n + 1, Len(hits))
<1>1. /\ hits \in Seq(Nat) /\ admits \in Seq(Nat) /\ Len(hits) \in Nat /\ Len(admits) \in Nat
      /\ Len(hits) <= Len(admits) /\ n \in Nat
  BY DEF SlidingInv
<1>2. /\ kept \in Seq(Nat) /\ Len(kept) = Len(hits) - n
      /\ \A i \in 1 .. Len(hits) - n : kept[i] = hits[n + i]
  BY <1>1
<1> HIDE DEF kept
<1>3. ASSUME NEW i \in 1 .. Len(kept) PROVE kept[i] = admits[Len(admits) - Len(kept) + i]
  <2>1. n + i \in 1 .. Len(hits) /\ Len(admits) - Len(kept) + i = Len(admits) - Len(hits) + (n + i)
    <3>1. i \in Nat /\ i > 0 /\ i <= Len(hits) - n
      BY <1>1, <1>2
    <3> QED BY <1>1, <1>2, <3>1
  <2>2. hits[n + i] = admits[Len(admits) - Len(hits) + (n + i)]
    BY <2>1 DEF SlidingInv
  <2> QED BY <1>2, <2>1, <2>2
<1>4. ASSUME NEW i \in 1 .. Len(admits) - Len(kept) PROVE now - admits[i] > Window
  <2>1. CASE i <= Len(admits) - Len(hits)
    BY <1>1, <2>1 DEF SlidingInv
  <2>2. CASE i > Len(admits) - Len(hits)
    <3> DEFINE j == i - (Len(admits) - Len(hits))
    <3>1. j \in 1 .. n /\ j \in 1 .. Len(hits) /\ Len(admits) - Len(hits) + j = i
      BY SMTT(30), <1>1, <1>2, <2>2
    <3>2. hits[j] = admits[i]
      BY <3>1 DEF SlidingInv
    <3>3. now - hits[j] > Window
      BY <3>1 DEF Drops, Aged
    <3> QED BY <3>2, <3>3
  <2> QED BY <1>1, <1>2, <2>1, <2>2
<1> QED BY <1>2, <1>3, <1>4 DEF kept

LEMMA SlidingCheck == ASSUME SlidingInv, Check PROVE SlidingInv'
<1>1. PICK n \in 0 .. Len(hits) :
        LET kept == SubSeq(hits, n + 1, Len(hits)) IN
        /\ Drops(n)
        /\ IF Len(kept) >= MaxRequests
           THEN hits' = kept /\ UNCHANGED admits
           ELSE hits' = Append(kept, now) /\ admits' = Append(admits, now)
        /\ UNCHANGED <<now, bucket, request, onTime>>
  BY DEF Check
<1> DEFINE kept == SubSeq(hits, n + 1, Len(hits))
           m == Len(admits)
<1>2. /\ kept \in Seq(Nat) /\ Len(kept) = Len(hits) - n
      /\ \A i \in 1 .. Len(kept) : kept[i] = admits[m - Len(kept) + i]
      /\ \A i \in 1 .. m - Len(kept) : now - admits[i] > Window
  BY <1>1, SlidingKept
<1>3. now' = now
  BY <1>1
<1>4. IF Len(kept) >= MaxRequests
      THEN hits' = kept /\ UNCHANGED admits
      ELSE hits' = Append(kept, now) /\ admits' = Append(admits, now)
  BY <1>1
<1> HIDE DEF kept
<1>5. /\ now \in Nat /\ hits \in Seq(Nat) /\ admits \in Seq(Nat) /\ m \in Nat /\ Len(hits) \in Nat
      /\ Len(hits) <= m /\ n \in Nat /\ MaxRequests \in Nat /\ MaxRequests > 0 /\ Len(kept) \in Nat
      /\ Len(kept) <= m /\ Len(hits) <= MaxRequests /\ Len(kept) <= Len(hits) /\ Window \in Nat
  BY <1>2, LimitAssumption DEF SlidingInv
<1>6. CASE Len(kept) >= MaxRequests
  <2>1. hits' = kept /\ admits' = admits
    BY <1>4, <1>6
  <2>2. Len(hits') <= MaxRequests
    BY <1>5, <2>1
  <2> QED BY <1>2, <1>3, <1>5, <2>1, <2>2 DEF SlidingInv
<1>7. CASE Len(kept) < MaxRequests
  <2>1. hits' = Append(kept, now) /\ admits' = Append(admits, now)
    BY <1>4, <1>5, <1>7
  <2>2. /\ admits' \in Seq(Nat) /\ Len(admits') = m + 1 /\ admits'[m + 1] = now
        /\ \A i \in 1 .. m : admits'[i] = admits[i] /\ admits[i] \in Nat
    BY <1>5, <2>1
  <2>3. /\ hits' \in Seq(Nat) /\ Len(hits') = Len(kept) + 1 /\ hits'[Len(kept) + 1] = now
        /\ \A i \in 1 .. Len(kept) : hits'[i] = kept[i]
    BY <1>2, <1>5, <2>1
  <2>4. \A i \in 1 .. m + 1 : admits'[i] <= now
    <3> SUFFICES ASSUME NEW i \in 1 .. m + 1 PROVE admits'[i] <= now
      OBVIOUS
    <3>1. CASE i = m + 1
      BY <1>5, <2>2, <3>1
    <3>2. CASE i # m + 1
      <4>1. i \in 1 .. m
        BY <1>5, <3>2
      <4> QED BY <2>2, <4>1 DEF SlidingInv
    <3> QED BY <3>1, <3>2
  <2>5. ASSUME NEW i \in 1 .. m + 1, NEW j \in 1 .. m + 1, i <= j PROVE admits'[i] <= admits'[j]
    <3>1. CASE j = m + 1
      BY <2>2, <2>4, <3>1
    <3>2. CASE j # m + 1
      <4>1. i \in 1 .. m /\ j \in 1 .. m
        BY <1>5, <2>5, <3>2
      <4> QED BY <2>2, <2>5, <4>1 DEF SlidingInv
    <3> QED BY <3>1, <3>2
  <2>6. ASSUME NEW i \in 1 .. Len(kept) + 1
        PROVE  hits'[i] = admits'[(m + 1) - (Len(kept) + 1) + i]
    <3>1. CASE i = Len(kept) + 1
      <4>1. (m + 1) - (Len(kept) + 1) + i = m + 1
        BY <1>5, <3>1
      <4> QED BY <2>2, <2>3, <3>1, <4>1
    <3>2. CASE i # Len(kept) + 1
      <4>1. i \in 1 .. Len(kept) /\ (m + 1) - (Len(kept) + 1) + i = m - Len(kept) + i
            /\ m - Len(kept) + i \in 1 .. m
        BY <1>5, <3>2
      <4> QED BY <1>2, <2>2, <2>3, <4>1
    <3> QED BY <3>1, <3>2
  <2>7. ASSUME NEW i \in 1 .. (m + 1) - (Len(kept) + 1) PROVE now - admits'[i] > Window
    <3>1. i \in 1 .. m - Len(kept) /\ i \in 1 .. m
      BY <1>5
    <3> QED BY <1>2, <2>2, <3>1
  <2>8. ASSUME NEW i \in 1 .. m + 1, i + MaxRequests <= m + 1
        PROVE  admits'[i + MaxRequests] - admits'[i] > Window
    <3>1. i \in 1 .. m /\ i \in Nat /\ i + MaxRequests \in Nat /\ i + MaxRequests > 0
      BY <1>5, <2>8
    <3>2. CASE i + MaxRequests = m + 1
      <4>1. i \in 1 .. m - Len(kept)
        BY <1>5, <1>7, <3>2
      <4>2. now - admits[i] > Window
        BY <1>2, <4>1
      <4> QED BY <2>2, <3>1, <3>2, <4>2
    <3>3. CASE i + MaxRequests # m + 1
      <4>1. i + MaxRequests \in 1 .. m /\ i + MaxRequests <= m
        <5>1. m \in Nat /\ i + MaxRequests \in Nat /\ i + MaxRequests > 0
              /\ i + MaxRequests <= m + 1 /\ i + MaxRequests # m + 1
          BY <1>5, <2>8, <3>1, <3>3
        <5> HIDE DEF m
        <5> QED BY <5>1
      <4>2. admits[i + MaxRequests] - admits[i] > Window
        BY <3>1, <4>1 DEF SlidingInv
      <4> QED BY <2>2, <3>1, <4>1, <4>2
    <3> QED BY <3>2, <3>3
  <2>9. Len(hits') <= MaxRequests /\ Len(hits') <= Len(admits')
    BY <1>5, <1>7, <2>2, <2>3
  <2> HIDE DEF m
  <2> QED BY <1>3, <2>2, <2>3, <2>4, <2>5, <2>6, <2>7, <2>8, <2>9 DEF SlidingInv
<1> QED BY <1>5, <1>6, <1>7

LEMMA SlidingHolds == ASSUME SlidingInv PROVE SlidingWindowHolds
<1> SUFFICES ASSUME NEW i \in 1 .. Len(admits)
             PROVE  Cardinality({j \in i .. Len(admits) : admits[j] <= admits[i] + Window}) <= MaxRequests
  BY DEF SlidingWindowHolds
<1> DEFINE S == {j \in i .. Len(admits) : admits[j] <= admits[i] + Window}
           T == i .. i + MaxRequests - 1
<1>1. /\ Len(admits) \in Nat /\ MaxRequests \in Nat /\ MaxRequests > 0 /\ Window \in Nat
      /\ \A j \in 1 .. Len(admits) : admits[j] \in Nat
  BY LimitAssumption DEF SlidingInv
<1>2. S \subseteq T
  <2> SUFFICES ASSUME NEW j \in i .. Len(admits), admits[j] <= admits[i] + Window, j >= i + MaxRequests
               PROVE  FALSE
    BY <1>1
  <2>1. i + MaxRequests \in 1 .. Len(admits) /\ j \in 1 .. Len(admits) /\ i + MaxRequests <= Len(admits)
    BY <1>1
  <2>2. admits[i + MaxRequests] - admits[i] > Window
    BY <2>1 DEF SlidingInv
  <2>3. admits[i + MaxRequests] <= admits[j]
    BY <2>1 DEF SlidingInv
  <2> QED BY <1>1, <2>1, <2>2, <2>3
<1>3. IsFiniteSet(T) /\ Cardinality(T) = MaxRequests
  <2>1. i \in Int /\ i + MaxRequests - 1 \in Int /\ ~(i > i + MaxRequests - 1)
        /\ (i + MaxRequests - 1) - i + 1 = MaxRequests
    BY <1>1
  <2> QED BY <2>1, FS_Interval
<1> HIDE DEF S, T
<1>4. Cardinality(S) <= Cardinality(T)
  BY <1>2, <1>3, FS_Subset
<1> QED BY <1>3, <1>4 DEF S

LEMMA FixedTick == ASSUME FixedInv, Tick PROVE FixedInv'
<1>1. now \in Nat /\ now' = now + 1 /\ now < Horizon /\ Horizon \in Nat
      /\ UNCHANGED <<bucket, request, onTime>>
  BY LimitAssumption DEF FixedInv, Tick
<1>2. KeyAt(now) \in Nat /\ KeyAt(now') \in Nat /\ KeyAt(now) <= KeyAt(now')
  BY <1>1, Keys
<1>3. \A k \in WindowKeys : KeyAt(now') <= k => onTime[k] <= bucket[k]
  BY <1>2 DEF FixedInv, WindowKeys
<1>4. \A r \in DOMAIN request : request[r] \in 0 .. now'
  BY <1>1 DEF FixedInv
<1> QED BY <1>1, <1>3, <1>4 DEF FixedInv, KeyAt

LEMMA FixedArrive == ASSUME FixedInv, NEW r \in Requests, Arrive(r) PROVE FixedInv'
<1>1. UNCHANGED <<now, bucket, onTime>> /\ now \in Nat
  BY LimitAssumption DEF Arrive, FixedInv
<1>2. \A q \in DOMAIN request' : request'[q] \in 0 .. now
  BY <1>1 DEF Arrive, FixedInv
<1> QED BY <1>1, <1>2 DEF FixedInv, KeyAt

LEMMA FixedAdmit == ASSUME FixedInv, NEW r \in Requests, Admit(r) PROVE FixedInv'
<1> DEFINE t == request[r]
           k == KeyAt(t)
           count == Purged(t)[k] + 1
<1>1. /\ now \in Nat /\ now <= Horizon /\ Horizon \in Nat /\ t \in Nat /\ t <= now
      /\ MaxRequests \in Nat /\ now' = now
  BY LimitAssumption DEF Admit, FixedInv
<1>2. \A q \in DOMAIN request' : request'[q] \in 0 .. now
  BY DEF Admit, FixedInv
<1>3. k \in Nat /\ KeyAt(now) \in Nat /\ k <= KeyAt(now) /\ KeyAt(now) <= KeyAt(Horizon)
      /\ KeyAt(Horizon) \in Nat
  BY <1>1, Keys
<1>4. k \in WindowKeys
  BY <1>3 DEF WindowKeys, KeyAt
<1>5. CASE Over(count)
  <2>1. UNCHANGED <<bucket, onTime>>
    BY <1>5 DEF Admit
  <2> QED BY <1>1, <1>2, <2>1 DEF FixedInv, KeyAt
<1>6. CASE ~Over(count)
  <2>1. /\ bucket' = [Purged(t) EXCEPT ![k] = count]
        /\ onTime' = IF KeyAt(now) = k THEN [onTime EXCEPT ![k] = @ + 1] ELSE onTime
    BY <1>6 DEF Admit
  <2>2. \A i \in WindowKeys : i \in Nat /\ bucket[i] \in Nat /\ bucket[i] <= MaxRequests
                              /\ onTime[i] \in Nat /\ onTime[i] <= MaxRequests
    BY <1>1 DEF FixedInv, WindowKeys
  <2>3. Purged(t) \in [WindowKeys -> 0 .. MaxRequests]
    BY <1>1, <2>2 DEF Purged
  <2>4. count \in 0 .. MaxRequests /\ count = Purged(t)[k] + 1
    BY <1>1, <1>4, <1>6, <2>3 DEF Over
  <2>5. bucket' \in [WindowKeys -> 0 .. MaxRequests]
        /\ \A i \in WindowKeys : bucket'[i] = IF i = k THEN count ELSE Purged(t)[i]
    BY <1>4, <2>1, <2>3, <2>4
  <2> HIDE DEF count
  <2>6. \A i \in WindowKeys : KeyAt(now) <= i => Purged(t)[i] = bucket[i]
    <3> SUFFICES ASSUME NEW i \in WindowKeys, KeyAt(now) <= i PROVE Purged(t)[i] = bucket[i]
      OBVIOUS
    <3>1. ~((i + 1) * Window <= t)
      <4> SUFFICES ASSUME (i + 1) * Window <= t PROVE FALSE
        OBVIOUS
      <4> HIDE DEF t
      <4>1. i < KeyAt(t)
        BY <1>1, <2>2, OverBefore
      <4> QED BY <1>3, <2>2, <4>1 DEF k
    <3> QED BY <3>1 DEF Purged
  <2> HIDE DEF t
  <2>7. /\ \A i \in WindowKeys : onTime'[i] = IF i = k /\ KeyAt(now) = k THEN onTime[i] + 1 ELSE onTime[i]
        /\ DOMAIN onTime' = WindowKeys /\ onTime' = [i \in WindowKeys |-> onTime'[i]]
    BY <1>4, <2>1 DEF FixedInv
  <2> HIDE DEF k
  <2>8. ASSUME NEW i \in WindowKeys PROVE onTime'[i] \in 0 .. MaxRequests /\ (KeyAt(now) <= i => onTime'[i] <= bucket'[i])
    <3>1. KeyAt(now) <= i => onTime[i] <= bucket[i]
      BY DEF FixedInv
    <3>2. CASE i = k /\ KeyAt(now) = k
      <4>1. Purged(t)[i] = bucket[i] /\ onTime[i] <= bucket[i]
        BY <1>3, <2>6, <3>1, <3>2
      <4>2. bucket'[i] = bucket[i] + 1 /\ bucket'[i] <= MaxRequests /\ onTime'[i] = onTime[i] + 1
        BY <2>2, <2>4, <2>5, <2>7, <3>2, <4>1
      <4> QED BY <1>1, <2>2, <4>1, <4>2
    <3>3. CASE ~(i = k /\ KeyAt(now) = k)
      <4>1. onTime'[i] = onTime[i]
        BY <2>7, <3>3
      <4>2. KeyAt(now) <= i => i # k
        BY <1>3, <2>2, <3>3
      <4>3. KeyAt(now) <= i => bucket'[i] = bucket[i]
        BY <2>5, <2>6, <4>2
      <4> QED BY <1>1, <2>2, <3>1, <4>1, <4>3
    <3> QED BY <3>2, <3>3
  <2>9. onTime' \in [WindowKeys -> 0 .. MaxRequests]
    BY <2>7, <2>8
  <2> QED BY <1>1, <1>2, <2>5, <2>8, <2>9 DEF FixedInv, KeyAt
<1> QED BY <1>5, <1>6

LimitInv == SlidingInv /\ FixedInv

LEMMA LimitInitInv == ASSUME LimitInit PROVE LimitInv
<1>1. /\ now = 0 /\ hits = <<>> /\ admits = <<>> /\ request = <<>>
      /\ bucket = [k \in WindowKeys |-> 0] /\ onTime = [k \in WindowKeys |-> 0]
      /\ MaxRequests \in Nat /\ Horizon \in Nat
  BY LimitAssumption DEF LimitInit
<1>2. SlidingInv
  BY <1>1 DEF SlidingInv
<1>3. DOMAIN request = {}
  BY <1>1
<1>4. FixedInv
  BY <1>1, <1>3 DEF FixedInv
<1> QED BY <1>2, <1>4 DEF LimitInv

LEMMA LimitStep == ASSUME LimitInv, [SlidingNext \/ FixedNext]_limitVars PROVE LimitInv'
<1>1. CASE UNCHANGED limitVars
  BY <1>1 DEF limitVars, LimitInv, SlidingInv, FixedInv, KeyAt
<1>2. CASE Tick
  BY <1>2, SlidingTick, FixedTick DEF LimitInv
<1>3. CASE Check
  <2>1. UNCHANGED <<now, bucket, request, onTime>>
    BY <1>3 DEF Check
  <2>2. FixedInv'
    BY <2>1 DEF LimitInv, FixedInv, KeyAt
  <2> QED BY <1>3, <2>2, SlidingCheck DEF LimitInv
<1>4. ASSUME NEW r \in Requests, Arrive(r) \/ Admit(r) PROVE LimitInv'
  <2>1. UNCHANGED <<now, hits, admits>>
    BY <1>4 DEF Arrive, Admit
  <2>2. SlidingInv'
    BY <2>1 DEF LimitInv, SlidingInv
  <2> QED BY <1>4, <2>2, FixedArrive, FixedAdmit DEF LimitInv
<1> QED BY <1>1, <1>2, <1>3, <1>4 DEF SlidingNext, FixedNext
-----------------------------------------------------------------------------
(* Assistant *)

\* What a prompt may cost, and what one that is in work has used up of it: the
\* tries of its past sends, whether they were needed or not, and of this one.
Cost == (1 + MaxRounds) * SendAttempts
Used(z) == z.rounds * SendAttempts + z.tries

\* Requests that the prompts of window k may still send, one element for each.
Active(c) == turn[c].pc \in {"streaming", "tools"}
Owes(c, n, k) == Active(c) /\ turn[c].window = k /\ n > Used(turn[c])
Left(k) == {x \in Chats \X (1 .. Cost) : Owes(x[1], x[2], k)}

Roles == {"user", "assistant"}
InTurns(s) == \A i \in 1 .. Len(s) : s[i] = "assistant" => i > 1 /\ s[i - 1] = "user"

Turns == [pc : {"quiet", "prompted", "streaming", "tools"}, rounds : 0 .. MaxRounds,
          tries : 0 .. SendAttempts, window : 0 .. LastMinute]

ChatTypeOK ==
  /\ minute \in 0 .. LastMinute
  /\ admitted \in [0 .. LastMinute -> Nat] /\ asked \in [0 .. LastMinute -> Nat]
  /\ shown \in [Chats -> Seq(Roles)]
  /\ memory \in [Chats -> {"absent", "new", "answered", "call"}]
  /\ turn \in [Chats -> Turns]

\* Requests that were sent and those that may follow are paid for by admissions.
CostsOK ==
  /\ \A k \in 0 .. LastMinute :
       admitted[k] <= ChatLimit /\ asked[k] + Cardinality(Left(k)) <= admitted[k] * Cost
  /\ \A c \in Chats : turn[c].pc = "tools" => turn[c].rounds < MaxRounds

\* A script that is not quiet has its prompt at the end of the page.
PageOK(c) ==
  /\ memory[c] \in {"answered", "call"} => shown[c] # <<>>
  /\ InTurns(shown[c])
  /\ turn[c].pc # "quiet" => Len(shown[c]) > 0 /\ shown[c][Len(shown[c])] = "user"

ChatInv == ChatTypeOK /\ CostsOK /\ \A c \in Chats : PageOK(c)

LEMMA Paid ==
  ASSUME NEW a \in Nat, NEW b \in Nat
  PROVE  a * b \in Nat /\ (a + 1) * b = a * b + b
OBVIOUS

LEMMA Grown ==
  ASSUME NEW a \in Nat, NEW b \in Nat, NEW d \in Nat, a <= d
  PROVE  a * b <= d * b
<1> DEFINE e == d - a
<1>1. e \in Nat /\ d = a + e
  OBVIOUS
<1> HIDE DEF e
<1>2. d * b = a * b + e * b
  BY <1>1
<1>3. a * b \in Nat /\ e * b \in Nat
  BY <1>1, Paid
<1> QED BY <1>2, <1>3

\* A prompt has its first request, the next one while its send has a try left,
\* and the first one of another round while it has a round left.
LEMMA Spending ==
  /\ Cost \in Nat /\ Cost >= 1 /\ SendAttempts \in Nat /\ SendAttempts >= 1 /\ MaxRounds \in Nat
  /\ \A z \in Turns :
       /\ Used(z) \in Nat /\ z.rounds \in Nat /\ z.tries \in Nat
       /\ z.tries < SendAttempts => Used(z) + 1 <= Cost
       /\ z.rounds < MaxRounds =>
            /\ Used(z) + 1 <= Cost
            /\ Used(z) + 1 <= (z.rounds + 1) * SendAttempts + 1
<1>1. MaxRounds \in Nat /\ SendAttempts \in Nat /\ SendAttempts >= 1
  BY ChatAssumption
<1>2. Cost = MaxRounds * SendAttempts + SendAttempts /\ MaxRounds * SendAttempts \in Nat
  BY <1>1, Paid DEF Cost
<1>3. Cost \in Nat /\ Cost >= 1
  BY <1>1, <1>2
<1>4. ASSUME NEW z \in Turns
      PROVE  /\ Used(z) \in Nat /\ z.rounds \in Nat /\ z.tries \in Nat
             /\ z.tries < SendAttempts => Used(z) + 1 <= Cost
             /\ z.rounds < MaxRounds =>
                  /\ Used(z) + 1 <= Cost
                  /\ Used(z) + 1 <= (z.rounds + 1) * SendAttempts + 1
  <2>1. /\ z.rounds \in Nat /\ z.rounds <= MaxRounds
        /\ z.tries \in Nat /\ z.tries <= SendAttempts
    BY <1>1 DEF Turns
  <2> DEFINE n == z.rounds
             t == z.tries
             u == n * SendAttempts
             M == MaxRounds * SendAttempts
  <2>2. u \in Nat /\ (n + 1) * SendAttempts = u + SendAttempts /\ u <= M
    BY <1>1, <2>1, Paid, Grown
  <2>3. n < MaxRounds => u + SendAttempts <= M
    <3>1. n < MaxRounds => n + 1 <= MaxRounds /\ n + 1 \in Nat
      BY <1>1, <2>1
    <3>2. n < MaxRounds => (n + 1) * SendAttempts <= M
      BY <1>1, <3>1, Grown
    <3> QED BY <2>2, <3>2
  <2>4. Used(z) = u + t
    BY DEF Used
  <2>5. n \in Nat /\ t \in Nat /\ t <= SendAttempts /\ M \in Nat /\ Cost = M + SendAttempts
    BY <1>2, <2>1
  <2> HIDE DEF n, t, u, M
  <2>6. u + t \in Nat /\ (t < SendAttempts => u + t + 1 <= Cost)
    BY <1>1, <2>2, <2>5
  <2>7. n < MaxRounds => u + t + 1 <= Cost /\ u + t + 1 <= u + SendAttempts + 1
    BY <1>1, <2>2, <2>3, <2>5
  <2> QED BY <2>2, <2>4, <2>5, <2>6, <2>7 DEF n, t
<1> QED BY <1>1, <1>3, <1>4

LEMMA Said ==
  ASSUME NEW s \in Seq(Roles), InTurns(s), NEW r \in Roles,
         r = "user" \/ (Len(s) > 0 /\ s[Len(s)] = "user")
  PROVE  /\ Append(s, r) \in Seq(Roles) /\ InTurns(Append(s, r))
         /\ Append(s, r) # <<>> /\ Len(Append(s, r)) > 0 /\ Append(s, r)[Len(Append(s, r))] = r
<1> DEFINE t == Append(s, r)
<1>1. /\ Len(s) \in Nat /\ t \in Seq(Roles) /\ Len(t) = Len(s) + 1 /\ t[Len(s) + 1] = r
      /\ \A i \in 1 .. Len(s) : t[i] = s[i]
  OBVIOUS
<1> HIDE DEF t
<1>2. t # <<>> /\ Len(t) > 0 /\ t[Len(t)] = r
  BY <1>1
<1>3. ASSUME NEW i \in 1 .. Len(t), t[i] = "assistant" PROVE i > 1 /\ t[i - 1] = "user"
  <2>1. CASE i = Len(s) + 1
    <3>1. r = "assistant"
      BY <1>1, <1>3, <2>1
    <3> QED BY <1>1, <2>1, <3>1
  <2>2. CASE i # Len(s) + 1
    <3>1. i \in 1 .. Len(s) /\ s[i] = "assistant"
      BY <1>1, <1>3, <2>2
    <3>2. i > 1 /\ s[i - 1] = "user"
      BY <3>1 DEF InTurns
    <3>3. i - 1 \in 1 .. Len(s)
      BY <1>1, <3>1, <3>2
    <3> QED BY <1>1, <3>2, <3>3
  <2> QED BY <2>1, <2>2
<1>4. InTurns(t)
  BY <1>3 DEF InTurns
<1> QED BY <1>1, <1>2, <1>4 DEF t

LEMMA LeftFinite ==
  ASSUME NEW k PROVE IsFiniteSet(Left(k)) /\ Cardinality(Left(k)) \in Nat
<1>1. IsFiniteSet(1 .. Cost)
  BY Spending, FS_Interval
<1>2. IsFiniteSet(Chats \X (1 .. Cost))
  BY <1>1, ChatAssumption, FS_Product
<1>3. Left(k) \subseteq Chats \X (1 .. Cost)
  BY DEF Left
<1> QED BY <1>2, <1>3, FS_Subset, FS_CardinalityType

\* A session that ends its turn, or goes on without a request, owes no more.
LEMMA LeftShrinks ==
  ASSUME NEW k, \A d \in Chats : \A n \in 1 .. Cost : Owes(d, n, k)' => Owes(d, n, k)
  PROVE  /\ Cardinality(Left(k))' <= Cardinality(Left(k))
         /\ Cardinality(Left(k))' \in Nat /\ Cardinality(Left(k)) \in Nat
<1> DEFINE S == Left(k)
           T == Left(k)'
<1>a. T \subseteq S
  BY DEF Left
<1>1. IsFiniteSet(S) /\ Cardinality(S) \in Nat /\ T \subseteq S
  BY <1>a, LeftFinite
<1> HIDE DEF S, T
<1>2. IsFiniteSet(T) /\ Cardinality(T) <= Cardinality(S)
  BY <1>1, FS_Subset
<1>3. Cardinality(T) \in Nat
  BY <1>2, FS_CardinalityType
<1> QED BY <1>1, <1>2, <1>3 DEF S, T

\* Steps of one session that send nothing.
LEMMA QuietStep ==
  ASSUME ChatInv, NEW c \in Chats, NEW q \in Turns, turn' = [turn EXCEPT ![c] = q],
         UNCHANGED <<minute, admitted, asked>>,
         q.pc \in {"streaming", "tools"} =>
           Active(c) /\ q.window = turn[c].window /\ Used(q) = Used(turn[c]),
         q.pc = "tools" => q.rounds < MaxRounds,
         NEW s \in Seq(Roles), shown' = [shown EXCEPT ![c] = s],
         NEW m \in {"absent", "new", "answered", "call"}, memory' = [memory EXCEPT ![c] = m],
         m \in {"answered", "call"} => s # <<>>,
         InTurns(s),
         q.pc # "quiet" => Len(s) > 0 /\ s[Len(s)] = "user"
  PROVE  ChatInv'
<1>1. ChatTypeOK'
  BY DEF ChatInv, ChatTypeOK
<1>2. \A d \in Chats : turn'[d] = IF d = c THEN q ELSE turn[d]
  BY DEF ChatInv, ChatTypeOK
<1>3. CostsOK'
  <2>1. ASSUME NEW k \in 0 .. LastMinute
        PROVE  (admitted[k] <= ChatLimit /\ asked[k] + Cardinality(Left(k)) <= admitted[k] * Cost)'
    <3>1. \A d \in Chats : \A n \in 1 .. Cost : Owes(d, n, k)' => Owes(d, n, k)
      BY <1>2 DEF Owes, Active
    <3>2. /\ Cardinality(Left(k))' <= Cardinality(Left(k))
          /\ Cardinality(Left(k))' \in Nat /\ Cardinality(Left(k)) \in Nat
      BY <3>1, LeftShrinks
    <3>3. /\ admitted[k] <= ChatLimit /\ asked[k] + Cardinality(Left(k)) <= admitted[k] * Cost
          /\ asked[k] \in Nat /\ admitted[k] \in Nat
      BY DEF ChatInv, CostsOK, ChatTypeOK
    <3>4. admitted[k] * Cost \in Nat
      BY <3>3, Paid, Spending
    <3> QED BY <3>2, <3>3, <3>4
  <2> QED BY <1>2, <2>1 DEF ChatInv, CostsOK
<1>4. ASSUME NEW d \in Chats PROVE PageOK(d)'
  <2>1. shown'[d] = (IF d = c THEN s ELSE shown[d]) /\ memory'[d] = (IF d = c THEN m ELSE memory[d])
    BY DEF ChatInv, ChatTypeOK
  <2> QED BY <1>2, <2>1 DEF ChatInv, PageOK
<1> QED BY <1>1, <1>3, <1>4 DEF ChatInv

LEMMA ChatTypes ==
  ASSUME ChatInv, NEW c \in Chats
  PROVE  /\ turn[c] \in Turns /\ shown[c] \in Seq(Roles) /\ Len(shown[c]) \in Nat
         /\ memory[c] \in {"absent", "new", "answered", "call"} /\ PageOK(c)
         /\ shown = [shown EXCEPT ![c] = shown[c]] /\ memory = [memory EXCEPT ![c] = memory[c]]
         /\ turn = [turn EXCEPT ![c] = turn[c]]
         /\ Quiet \in Turns /\ Quiet.pc = "quiet"
<1>1. /\ turn[c] \in Turns /\ shown[c] \in Seq(Roles) /\ PageOK(c)
      /\ memory[c] \in {"absent", "new", "answered", "call"}
  BY DEF ChatInv, ChatTypeOK
<1>2. Len(shown[c]) \in Nat
  BY <1>1
<1>3. shown = [shown EXCEPT ![c] = shown[c]] /\ memory = [memory EXCEPT ![c] = memory[c]]
  BY DEF ChatInv, ChatTypeOK
<1>4. turn = [turn EXCEPT ![c] = turn[c]]
  BY DEF ChatInv, ChatTypeOK
<1>5. Quiet \in Turns /\ Quiet.pc = "quiet"
  BY ChatAssumption DEF Quiet, Turns
<1> QED BY <1>1, <1>2, <1>3, <1>4, <1>5

\* A reply follows its prompt.
LEMMA RepliesStep ==
  ASSUME ChatInv, NEW c \in Chats, turn[c].pc # "quiet", Replies(c), UNCHANGED <<minute, admitted, asked>>,
         NEW m \in {"absent", "new", "answered", "call"}, memory' = [memory EXCEPT ![c] = m]
  PROVE  ChatInv'
<1> DEFINE s == Append(shown[c], "assistant")
<1>1. s \in Seq(Roles) /\ InTurns(s) /\ s # <<>>
  BY ChatTypes, Said DEF PageOK, Roles
<1>2. shown' = [shown EXCEPT ![c] = s] /\ turn' = [turn EXCEPT ![c] = Quiet]
  BY DEF Replies, Says
<1> HIDE DEF s
<1>3. Quiet \in Turns /\ Quiet.pc = "quiet"
  BY ChatTypes
<1> QED BY <1>1, <1>2, <1>3, QuietStep

LEMMA PromptStep == ASSUME ChatInv, NEW c \in Chats, Prompt(c) PROVE ChatInv'
<1> DEFINE s == Append(shown[c], "user")
           q == [turn[c] EXCEPT !.pc = "prompted"]
<1>1. s \in Seq(Roles) /\ InTurns(s) /\ s # <<>> /\ Len(s) > 0 /\ s[Len(s)] = "user"
  BY ChatTypes, Said DEF PageOK, Roles
<1>2. turn[c] \in Turns /\ memory[c] \in {"absent", "new", "answered", "call"}
  BY ChatTypes
<1>3. q \in Turns /\ q.pc = "prompted"
  BY <1>2 DEF Turns
<1>4. /\ shown' = [shown EXCEPT ![c] = s] /\ turn' = [turn EXCEPT ![c] = q]
      /\ UNCHANGED <<minute, admitted, asked>>
  BY DEF Prompt, Says, Phase
<1>5. memory' = [memory EXCEPT ![c] = memory[c]]
  BY ChatTypes DEF Prompt
<1> HIDE DEF s, q
<1> QED BY <1>1, <1>2, <1>3, <1>4, <1>5, QuietStep

\* The first request of a prompt is paid for with those of its rounds.
LEMMA AdmissionStep == ASSUME ChatInv, NEW c \in Chats, Admission(c) PROVE ChatInv'
<1>1. /\ turn[c].pc = "prompted" /\ UNCHANGED <<minute, memory>>
  BY DEF Admission
<1>2. CASE ~(admitted[minute] < ChatLimit)
  <2>1. Replies(c) /\ UNCHANGED <<admitted, asked>>
    BY <1>2 DEF Admission
  <2>2. memory' = [memory EXCEPT ![c] = memory[c]] /\ memory[c] \in {"absent", "new", "answered", "call"}
    BY <1>1, ChatTypes
  <2> QED BY <1>1, <2>1, <2>2, RepliesStep
<1>3. CASE admitted[minute] < ChatLimit
  <2> DEFINE q == [pc |-> "streaming", rounds |-> 0, tries |-> 1, window |-> minute]
  <2>1. /\ admitted' = [admitted EXCEPT ![minute] = @ + 1] /\ asked' = [asked EXCEPT ![minute] = @ + 1]
        /\ turn' = [turn EXCEPT ![c] = q] /\ shown' = shown
    BY <1>3 DEF Admission
  <2>2. /\ minute \in 0 .. LastMinute /\ admitted \in [0 .. LastMinute -> Nat]
        /\ asked \in [0 .. LastMinute -> Nat] /\ ChatLimit \in Nat /\ MaxRounds \in Nat
        /\ SendAttempts \in Nat /\ SendAttempts >= 1
    BY ChatAssumption DEF ChatInv, ChatTypeOK
  <2>a. q \in Turns /\ q.pc = "streaming" /\ q.rounds = 0 /\ q.tries = 1 /\ q.window = minute
    BY <2>2 DEF Turns
  <2>b. PICK B \in Nat : Cost = B + 1
    <3>1. Cost \in Nat /\ Cost >= 1
      BY Spending
    <3>2. Cost - 1 \in Nat /\ Cost = (Cost - 1) + 1
      BY <3>1
    <3> QED BY <3>2
  <2>3. q \in Turns /\ q.pc = "streaming" /\ Used(q) = 1 /\ q.window = minute
    <3>1. Used(q) = 0 * SendAttempts + 1
      BY <2>a DEF Used
    <3> QED BY <2>2, <2>a, <3>1
  <2> HIDE DEF q
  <2>4. \A d \in Chats : turn'[d] = IF d = c THEN q ELSE turn[d]
    BY <2>1 DEF ChatInv, ChatTypeOK
  <2>5. \A k \in 0 .. LastMinute :
          /\ admitted'[k] = IF k = minute THEN admitted[k] + 1 ELSE admitted[k]
          /\ asked'[k] = IF k = minute THEN asked[k] + 1 ELSE asked[k]
    BY <2>1, <2>2
  <2>6. ChatTypeOK'
    <3>1. admitted' \in [0 .. LastMinute -> Nat] /\ asked' \in [0 .. LastMinute -> Nat]
      BY <2>1, <2>2
    <3> QED BY <1>1, <2>1, <2>3, <3>1 DEF ChatInv, ChatTypeOK
  <2>7. ASSUME NEW k \in 0 .. LastMinute, k # minute
        PROVE  (admitted[k] <= ChatLimit /\ asked[k] + Cardinality(Left(k)) <= admitted[k] * Cost)'
    <3>1. \A d \in Chats : \A n \in 1 .. Cost : Owes(d, n, k)' => Owes(d, n, k)
      BY <2>3, <2>4, <2>7 DEF Owes, Active
    <3>2. /\ Cardinality(Left(k))' <= Cardinality(Left(k))
          /\ Cardinality(Left(k))' \in Nat /\ Cardinality(Left(k)) \in Nat
      BY <3>1, LeftShrinks
    <3>3. /\ admitted[k] <= ChatLimit /\ asked[k] + Cardinality(Left(k)) <= admitted[k] * Cost
          /\ asked[k] \in Nat /\ admitted[k] \in Nat /\ admitted'[k] = admitted[k] /\ asked'[k] = asked[k]
      BY <2>5, <2>7 DEF ChatInv, CostsOK, ChatTypeOK
    <3>4. admitted[k] * Cost \in Nat
      BY <3>3, Paid, Spending
    <3> QED BY <3>2, <3>3, <3>4
  <2>8. (admitted[minute] <= ChatLimit)' /\ asked'[minute] + Cardinality(Left(minute)')
           <= admitted'[minute] * Cost
    <3> DEFINE S == Left(minute)
               T == {c} \X (2 .. Cost)
    <3>1. /\ admitted[minute] < ChatLimit /\ asked[minute] \in Nat /\ admitted[minute] \in Nat
          /\ asked[minute] + Cardinality(S) <= admitted[minute] * Cost
          /\ admitted'[minute] = admitted[minute] + 1 /\ asked'[minute] = asked[minute] + 1 /\ minute' = minute
      BY <1>1, <1>3, <2>2, <2>5 DEF ChatInv, CostsOK
    <3>2. IsFiniteSet(T) /\ Cardinality(T) = B
      <4>1. IsFiniteSet(2 .. Cost) /\ Cardinality(2 .. Cost) = B
        BY SMTT(30), <2>b, FS_Interval
      <4>2. IsFiniteSet({c}) /\ Cardinality({c}) = 1
        BY FS_Singleton
      <4>3. IsFiniteSet(T) /\ Cardinality(T) = 1 * B
        BY ZenonT(40), <4>1, <4>2, FS_Product
      <4> QED BY <4>3
    <3>3. IsFiniteSet(S) /\ Cardinality(S) \in Nat
      BY LeftFinite
    <3>4. IsFiniteSet(S \cup T) /\ Cardinality(S \cup T) <= Cardinality(S) + B
      <4> HIDE DEF S, T
      <4>1. IsFiniteSet(S \cap T)
        BY <3>3, FS_Subset
      <4>2. Cardinality(S \cap T) \in Nat
        BY <4>1, FS_CardinalityType
      <4>3. IsFiniteSet(S \cup T) /\ Cardinality(S \cup T) = Cardinality(S) + Cardinality(T) - Cardinality(S \cap T)
        BY <3>2, <3>3, FS_Union
      <4> QED BY <2>2, <3>2, <3>3, <4>2, <4>3
    <3>5. Left(minute)' \subseteq S \cup T
      <4>1. \A d \in Chats : d # c => \A n : Owes(d, n, minute)' => Owes(d, n, minute)
        BY <2>4, <3>1 DEF Owes, Active
      <4>2. \A n \in 1 .. Cost : Owes(c, n, minute)' => n \in 2 .. Cost
        BY <2>3, <2>4, <2>b, <3>1 DEF Owes
      <4> QED BY <4>1, <4>2 DEF Left
    <3> HIDE DEF S, T
    <3>6. Cardinality(Left(minute)') <= Cardinality(S \cup T) /\ IsFiniteSet(Left(minute)')
      BY <3>4, <3>5, FS_Subset
    <3>7. Cardinality(Left(minute)') \in Nat /\ Cardinality(S \cup T) \in Nat
      BY <3>4, <3>6, FS_CardinalityType
    <3>8. admitted[minute] * Cost \in Nat
      BY <3>1, Paid, Spending
    <3> DEFINE p == admitted[minute] * Cost
    <3>9. p \in Nat /\ asked[minute] + Cardinality(S) <= p
      BY <3>1, <3>8
    <3>10. admitted'[minute] * Cost = p + B + 1
      <4> DEFINE a == admitted[minute]
      <4>1. admitted'[minute] = a + 1 /\ a \in Nat /\ p = a * Cost
        BY <3>1
      <4> HIDE DEF a, p
      <4>2. (a + 1) * Cost = a * Cost + Cost
        BY <4>1, Paid, Spending
      <4> QED BY <2>b, <4>1, <4>2
    <3> HIDE DEF p
    <3>11. asked'[minute] + Cardinality(Left(minute)') <= p + B + 1
      BY SMTT(30), <2>2, <3>1, <3>3, <3>4, <3>6, <3>7, <3>9
    <3>12. admitted'[minute] <= ChatLimit
      BY <2>2, <3>1
    <3> QED BY <3>1, <3>10, <3>11, <3>12
  <2>9. CostsOK'
    BY <1>1, <2>3, <2>4, <2>7, <2>8 DEF ChatInv, CostsOK
  <2>10. ASSUME NEW d \in Chats PROVE PageOK(d)'
    BY <1>1, <2>1, <2>4 DEF ChatInv, PageOK
  <2> QED BY <2>6, <2>9, <2>10 DEF ChatInv
<1> QED BY <1>2, <1>3

\* A request that follows another one of its prompt was owed.
LEMMA RequestStep ==
  ASSUME ChatInv, NEW c \in Chats, Active(c), NEW q \in Turns, q.pc = "streaming",
         q.window = turn[c].window, Used(q) > Used(turn[c]), Used(turn[c]) + 1 <= Cost,
         turn' = [turn EXCEPT ![c] = q], asked' = [asked EXCEPT ![turn[c].window] = @ + 1],
         UNCHANGED <<minute, admitted, shown, memory>>
  PROVE  ChatInv'
<1> DEFINE w == turn[c].window
           u == Used(turn[c])
<1>1. /\ turn[c] \in Turns /\ turn[c].pc # "quiet" /\ w \in 0 .. LastMinute
      /\ asked \in [0 .. LastMinute -> Nat]
  BY DEF ChatInv, ChatTypeOK, Turns, Active
<1>2. asked' = [asked EXCEPT ![w] = @ + 1]
  OBVIOUS
<1>3. /\ q.window = w /\ u \in Nat /\ u + 1 \in 1 .. Cost
      /\ Used(q) \in Nat /\ Used(q) > u /\ Cost \in Nat
  BY <1>1, Spending
<1> HIDE DEF u, w
<1>4. \A d \in Chats : turn'[d] = IF d = c THEN q ELSE turn[d]
  BY <1>2 DEF ChatInv, ChatTypeOK
<1>5. \A k \in 0 .. LastMinute : asked'[k] = IF k = w THEN asked[k] + 1 ELSE asked[k]
  BY <1>1, <1>2
<1>6. ChatTypeOK'
  <2>1. asked' \in [0 .. LastMinute -> Nat]
    BY <1>1, <1>2
  <2>2. turn' \in [Chats -> Turns]
    BY DEF ChatInv, ChatTypeOK
  <2> QED BY <2>1, <2>2 DEF ChatInv, ChatTypeOK
<1>7. ASSUME NEW k \in 0 .. LastMinute, k # w
      PROVE  (admitted[k] <= ChatLimit /\ asked[k] + Cardinality(Left(k)) <= admitted[k] * Cost)'
  <2>1. \A d \in Chats : \A m \in 1 .. Cost : Owes(d, m, k)' => Owes(d, m, k)
    BY <1>3, <1>4, <1>7 DEF Owes, Active
  <2>2. /\ Cardinality(Left(k))' <= Cardinality(Left(k))
        /\ Cardinality(Left(k))' \in Nat /\ Cardinality(Left(k)) \in Nat
    BY <2>1, LeftShrinks
  <2>3. /\ admitted[k] <= ChatLimit /\ asked[k] + Cardinality(Left(k)) <= admitted[k] * Cost
        /\ asked[k] \in Nat /\ admitted[k] \in Nat /\ asked'[k] = asked[k]
    BY <1>5, <1>7 DEF ChatInv, CostsOK, ChatTypeOK
  <2>4. admitted[k] * Cost \in Nat
    BY <2>3, Paid, Spending
  <2> QED BY <1>2, <2>2, <2>3, <2>4
<1>8. ASSUME NEW k \in 0 .. LastMinute, k = w
      PROVE  (admitted[k] <= ChatLimit /\ asked[k] + Cardinality(Left(k)) <= admitted[k] * Cost)'
  <2> DEFINE S == Left(k)
             x == <<c, u + 1>>
  <2>1. IsFiniteSet(S) /\ Cardinality(S) \in Nat
    BY LeftFinite
  <2>2. x \in S
    <3>1. turn[c].window = k /\ u + 1 > Used(turn[c])
      BY <1>3, <1>8 DEF u, w
    <3> QED BY <1>3, <3>1 DEF Left, Owes
  <2>3. Left(k)' \subseteq S \ {x}
    <3>1. \A d \in Chats : \A m \in 1 .. Cost :
            Owes(d, m, k)' => Owes(d, m, k) /\ <<d, m>> # x
      <4>1. ASSUME NEW m \in 1 .. Cost, Owes(c, m, k)'
            PROVE  Owes(c, m, k) /\ m # u + 1
        <5>1. m > Used(q)
          BY <1>4, <4>1 DEF Owes
        <5>2. m > u /\ m # u + 1
          BY <1>3, <5>1
        <5> QED BY <1>8, <5>2 DEF Owes, u, w
      <4>2. \A d \in Chats, m \in 1 .. Cost : d # c => (Owes(d, m, k)' => Owes(d, m, k))
        BY <1>4 DEF Owes, Active
      <4> QED BY <4>1, <4>2
    <3> QED BY <3>1 DEF Left
  <2> HIDE DEF S, x
  <2>4. IsFiniteSet(S \ {x}) /\ Cardinality(S \ {x}) = Cardinality(S) - 1
    BY <2>1, <2>2, FS_RemoveElement
  <2>5. IsFiniteSet(Left(k)') /\ Cardinality(Left(k)') <= Cardinality(S) - 1
    BY <2>3, <2>4, FS_Subset
  <2>6. Cardinality(Left(k)') \in Nat
    BY <2>5, FS_CardinalityType
  <2>7. /\ admitted[k] <= ChatLimit /\ asked[k] + Cardinality(S) <= admitted[k] * Cost
        /\ asked[k] \in Nat /\ admitted[k] \in Nat /\ asked'[k] = asked[k] + 1
    BY <1>5, <1>8 DEF ChatInv, CostsOK, ChatTypeOK, S
  <2>8. admitted[k] * Cost \in Nat
    BY <2>7, Paid, Spending
  <2> QED BY <1>2, <2>1, <2>5, <2>6, <2>7, <2>8
<1>9. CostsOK'
  BY <1>3, <1>4, <1>7, <1>8 DEF ChatInv, CostsOK
<1>10. ASSUME NEW d \in Chats PROVE PageOK(d)'
  BY <1>1, <1>2, <1>4 DEF ChatInv, PageOK
<1> QED BY <1>6, <1>9, <1>10 DEF ChatInv

LEMMA SendStep ==
  ASSUME ChatInv, NEW c \in Chats, SendResults(c) \/ SendAgain(c) PROVE ChatInv'
<1>1. turn[c] \in Turns /\ SendAttempts \in Nat /\ SendAttempts >= 1 /\ MaxRounds \in Nat
  BY ChatTypes, Spending
<1>2. ASSUME NEW n \in 0 .. MaxRounds, NEW t \in 0 .. SendAttempts, Sends(c, n, t), Active(c),
             n * SendAttempts + t > Used(turn[c]), Used(turn[c]) + 1 <= Cost
      PROVE  ChatInv'
  <2> DEFINE q == [turn[c] EXCEPT !.pc = "streaming", !.rounds = n, !.tries = t]
  <2>1. /\ turn' = [turn EXCEPT ![c] = q] /\ asked' = [asked EXCEPT ![turn[c].window] = @ + 1]
        /\ UNCHANGED <<minute, admitted, shown, memory>>
    BY <1>2 DEF Sends
  <2> DEFINE x == [turn[c] EXCEPT !.pc = "streaming"]
             y == [x EXCEPT !.rounds = n]
  <2>2. x \in Turns /\ x.pc = "streaming" /\ x.window = turn[c].window
    BY <1>1 DEF Turns
  <2>3. y \in Turns /\ y.pc = x.pc /\ y.window = x.window /\ y.rounds = n
    <3> HIDE DEF x
    <3> QED BY <2>2 DEF Turns
  <2>4. q = [y EXCEPT !.tries = t]
    BY <1>1 DEF Turns
  <2> HIDE DEF x, y, q
  <2>5. q \in Turns /\ q.pc = y.pc /\ q.window = y.window /\ q.rounds = y.rounds /\ q.tries = t
    BY <2>3, <2>4 DEF Turns
  <2>6. Used(q) = n * SendAttempts + t
    BY <2>3, <2>5 DEF Used
  <2> QED BY <1>2, <2>1, <2>2, <2>3, <2>5, <2>6, RequestStep
<1>3. CASE SendResults(c)
  <2> DEFINE n == turn[c].rounds
  <2>1. turn[c].pc = "tools" /\ Sends(c, n + 1, 1) /\ n < MaxRounds /\ Active(c)
    BY <1>3 DEF SendResults, ChatInv, CostsOK, Active
  <2>2. /\ n \in Nat /\ Used(turn[c]) \in Nat /\ Used(turn[c]) + 1 <= Cost
        /\ Used(turn[c]) + 1 <= (n + 1) * SendAttempts + 1
    BY <1>1, <2>1, Spending
  <2> HIDE DEF n
  <2>3. n + 1 \in 0 .. MaxRounds /\ 1 \in 0 .. SendAttempts /\ (n + 1) * SendAttempts \in Nat
    BY <1>1, <2>1, <2>2, Paid
  <2>4. (n + 1) * SendAttempts + 1 > Used(turn[c])
    BY <2>2, <2>3
  <2> QED BY <1>2, <2>1, <2>2, <2>3, <2>4
<1>4. CASE SendAgain(c)
  <2> DEFINE n == turn[c].rounds
             t == turn[c].tries
  <2>1. t < SendAttempts /\ Sends(c, n, t + 1) /\ Active(c)
    BY <1>4 DEF SendAgain, Active
  <2>2. /\ n \in 0 .. MaxRounds /\ t \in Nat /\ Used(turn[c]) \in Nat /\ Used(turn[c]) + 1 <= Cost
        /\ Used(turn[c]) = n * SendAttempts + t /\ n * SendAttempts \in Nat
    <3>1. /\ n \in 0 .. MaxRounds /\ n \in Nat /\ t \in Nat /\ Used(turn[c]) \in Nat
          /\ Used(turn[c]) + 1 <= Cost
      BY <1>1, <2>1, Spending DEF Turns
    <3> QED BY <1>1, <3>1, Paid DEF Used
  <2> HIDE DEF n, t
  <2>3. t + 1 \in 0 .. SendAttempts
    BY <1>1, <2>1, <2>2
  <2>4. n * SendAttempts + (t + 1) > Used(turn[c])
    BY <2>2
  <2> QED BY <1>2, <2>1, <2>2, <2>3, <2>4
<1> QED BY <1>3, <1>4

LEMMA StreamStep ==
  ASSUME ChatInv, NEW c \in Chats, StreamEnds(c) \/ ToolsAsked(c) \/ ProviderFails(c) PROVE ChatInv'
<1>1. turn[c].pc = "streaming" /\ UNCHANGED <<minute, admitted, asked>>
  BY DEF StreamEnds, ToolsAsked, ProviderFails
<1>2. PICK m \in {"absent", "new", "answered", "call"} : memory' = [memory EXCEPT ![c] = m]
  BY ChatTypes DEF StreamEnds, ToolsAsked, ProviderFails
<1>3. CASE Replies(c)
  BY <1>1, <1>2, <1>3, RepliesStep
<1>4. CASE MoreRounds(c) /\ Phase(c, "tools") /\ UNCHANGED shown
  <2> DEFINE q == [turn[c] EXCEPT !.pc = "tools"]
  <2>a. /\ q \in Turns /\ q.pc = "tools" /\ q.rounds = turn[c].rounds
        /\ q.tries = turn[c].tries /\ q.window = turn[c].window
    BY ChatTypes DEF Turns
  <2>1. q \in Turns /\ q.pc = "tools" /\ Used(q) = Used(turn[c]) /\ q.window = turn[c].window
    BY <2>a DEF Used
  <2>2. turn' = [turn EXCEPT ![c] = q] /\ shown' = [shown EXCEPT ![c] = shown[c]]
        /\ turn[c].rounds < MaxRounds
    BY <1>4, ChatTypes DEF Phase, MoreRounds
  <2> HIDE DEF q
  <2>3. /\ shown[c] \in Seq(Roles) /\ Len(shown[c]) \in Nat
        /\ Len(shown[c]) > 0 /\ shown[c][Len(shown[c])] = "user" /\ shown[c] # <<>>
        /\ InTurns(shown[c])
    BY <1>1, ChatTypes DEF PageOK
  <2>4. Active(c)
    BY <1>1 DEF Active
  <2>5. q.rounds < MaxRounds
    BY <2>a, <2>2
  <2> QED BY <1>1, <1>2, <2>1, <2>2, <2>3, <2>4, <2>5, QuietStep
<1> QED BY <1>3, <1>4 DEF StreamEnds, ToolsAsked, ProviderFails

LEMMA EndsStep ==
  ASSUME ChatInv, NEW c \in Chats, CreateClient(c) \/ Interrupt(c) \/ ClearChat(c) PROVE ChatInv'
<1>1. /\ turn[c] \in Turns /\ shown[c] \in Seq(Roles) /\ PageOK(c)
      /\ Quiet \in Turns /\ Quiet.pc = "quiet" /\ UNCHANGED <<minute, admitted, asked>>
      /\ memory[c] \in {"absent", "new", "answered", "call"}
  BY ChatTypes DEF CreateClient, Interrupt, ClearChat
<1>2. CASE CreateClient(c) /\ memory' = [memory EXCEPT ![c] = "new"] /\ UNCHANGED turn
  <2>1. turn[c].pc = "prompted" /\ shown' = [shown EXCEPT ![c] = shown[c]]
        /\ turn' = [turn EXCEPT ![c] = turn[c]]
    BY <1>2, ChatTypes DEF CreateClient
  <2> QED BY <1>1, <1>2, <2>1, QuietStep DEF PageOK
<1>3. CASE turn' = [turn EXCEPT ![c] = Quiet] /\ UNCHANGED <<memory, shown>>
  <2>1. shown' = [shown EXCEPT ![c] = shown[c]] /\ memory' = [memory EXCEPT ![c] = memory[c]]
    BY <1>3, ChatTypes
  <2> QED BY <1>1, <1>3, <2>1, QuietStep DEF PageOK
<1>4. CASE ClearChat(c)
  <2>1. /\ shown' = [shown EXCEPT ![c] = <<>>] /\ memory' = [memory EXCEPT ![c] = "absent"]
        /\ turn' = [turn EXCEPT ![c] = Quiet]
    BY <1>4 DEF ClearChat, Cleared
  <2>2. <<>> \in Seq(Roles) /\ InTurns(<<>>)
    BY DEF InTurns
  <2> QED BY <1>1, <2>1, <2>2, QuietStep
<1> QED BY <1>2, <1>3, <1>4 DEF CreateClient, Interrupt

LEMMA ChatStep == ASSUME ChatInv, [ChatNext]_chatVars PROVE ChatInv'
<1>1. CASE UNCHANGED chatVars \/ NextWindow
  <2>1. UNCHANGED <<admitted, asked, shown, memory, turn>>
    BY <1>1 DEF chatVars, NextWindow
  <2>2. minute' \in 0 .. LastMinute
    BY <1>1, ChatAssumption DEF chatVars, NextWindow, ChatInv, ChatTypeOK
  <2>3. \A k : Left(k)' = Left(k)
    BY <2>1 DEF Left, Owes, Active
  <2> QED BY <2>1, <2>2, <2>3 DEF ChatInv, ChatTypeOK, CostsOK, PageOK
<1>2. ASSUME NEW c \in Chats, AnswerItself(c) PROVE ChatInv'
  <2>1. turn[c].pc # "quiet" /\ Replies(c) /\ UNCHANGED <<minute, admitted, asked>>
        /\ memory' = [memory EXCEPT ![c] = memory[c]] /\ memory[c] \in {"absent", "new", "answered", "call"}
    BY <1>2, ChatTypes DEF AnswerItself
  <2> QED BY <2>1, RepliesStep
<1> QED BY <1>1, <1>2, PromptStep, AdmissionStep, SendStep, StreamStep, EndsStep DEF ChatNext

LEMMA ChatInitInv == ASSUME ChatInit PROVE ChatInv
<1>1. /\ minute = 0 /\ admitted = [k \in 0 .. LastMinute |-> 0] /\ asked = admitted
      /\ shown = [c \in Chats |-> <<>>] /\ memory = [c \in Chats |-> "absent"]
      /\ turn = [c \in Chats |-> Quiet] /\ LastMinute \in Nat /\ MaxRounds \in Nat /\ ChatLimit \in Nat
      /\ SendAttempts \in Nat
  BY ChatAssumption DEF ChatInit
<1>2. Quiet \in Turns /\ Quiet.pc = "quiet"
  BY <1>1 DEF Quiet, Turns
<1>3. ChatTypeOK
  BY <1>1, <1>2 DEF ChatTypeOK
<1>4. \A c \in Chats : turn[c].pc = "quiet" /\ shown[c] = <<>> /\ memory[c] = "absent"
  BY <1>1, <1>2
<1>5. ASSUME NEW k \in 0 .. LastMinute
      PROVE  admitted[k] <= ChatLimit /\ asked[k] + Cardinality(Left(k)) <= admitted[k] * Cost
  <2>1. Left(k) = {}
    BY <1>4 DEF Left, Owes, Active
  <2>2. Cardinality(Left(k)) = 0
    BY <2>1, FS_EmptySet
  <2>3. 0 * Cost \in Nat
    BY Paid, Spending
  <2> QED BY <1>1, <2>2, <2>3
<1>6. \A c \in Chats : PageOK(c)
  <2>1. InTurns(<<>>)
    BY DEF InTurns
  <2> QED BY <1>4, <2>1 DEF PageOK
<1> QED BY <1>3, <1>4, <1>5, <1>6 DEF ChatInv, CostsOK

LEMMA ChatHolds == ASSUME ChatInv PROVE ChatIsBounded
<1>1. ASSUME NEW k \in 0 .. LastMinute PROVE admitted[k] <= ChatLimit /\ asked[k] <= admitted[k] * Cost
  <2>1. /\ admitted[k] <= ChatLimit /\ asked[k] + Cardinality(Left(k)) <= admitted[k] * Cost
        /\ asked[k] \in Nat /\ admitted[k] \in Nat /\ Cardinality(Left(k)) \in Nat
    BY LeftFinite DEF ChatInv, CostsOK, ChatTypeOK
  <2> DEFINE p == admitted[k] * Cost
  <2>2. p \in Nat
    BY <2>1, Paid, Spending
  <2>3. asked[k] + Cardinality(Left(k)) <= p
    BY <2>1
  <2>a. admitted[k] <= ChatLimit
    BY <2>1
  <2> HIDE DEF p
  <2>4. asked[k] <= p
    <3>1. asked[k] \in Nat /\ Cardinality(Left(k)) \in Nat
      BY <2>1
    <3> QED BY <2>2, <2>3, <3>1
  <2> QED BY <2>a, <2>4 DEF p
<1>2. ASSUME NEW c \in Chats
      PROVE  (memory[c] \in {"answered", "call"} => shown[c] # <<>>) /\ InTurns(shown[c])
  BY DEF ChatInv, PageOK
<1> QED BY <1>1, <1>2 DEF ChatIsBounded, InTurns, Cost

-----------------------------------------------------------------------------
UsageInv == LimitInv /\ ChatInv

LEMMA UsageStep == ASSUME UsageInv, [Next]_controls PROVE UsageInv'
<1>1. [SlidingNext \/ FixedNext]_limitVars
  BY DEF Next, SmallNext, QueueNext, controls, smallVars
<1>2. [ChatNext]_chatVars
  BY DEF Next, SmallNext, QueueNext, controls, smallVars
<1> QED BY <1>1, <1>2, LimitStep, ChatStep DEF UsageInv

\* No admission of either limiter is more than its limit allows, and no prompt
\* costs more requests than the attempts of its first send and of its rounds, in
\* any behaviour of any of the parts.
THEOREM UsageBounded == Spec => []UsageIsBounded
<1>1. Init => UsageInv
  BY LimitInitInv, ChatInitInv DEF Init, UsageInv
<1>2. UsageInv => UsageIsBounded
  BY SlidingHolds, ChatHolds DEF UsageInv, UsageIsBounded, LimitInv, LimitsHold, FixedWindowHolds, FixedInv, WindowKeys
<1> QED BY <1>1, <1>2, UsageStep, PTL DEF Spec

-----------------------------------------------------------------------------
(* CalendarSync *)

OperationRows ==
  [status : {"absent", "queued", "failed", "processing", "completed", "cancelled"},
   range : Ranges \cup {NoRange}, attempts : Nat, owner : CalendarWorkers \cup {Nobody},
   due : BOOLEAN, lapsed : BOOLEAN]

HolderStates ==
  [pc : {"idle", "next", "fetching", "storing", "failing"}, batch : SUBSET SyncRequests,
   at : SUBSET SyncRequests, seen : Nat]

SyncType ==
  /\ op \in [SyncRequests -> OperationRows]
  /\ sync \in [status : {"none", "pending", "running", "fresh", "error"},
               range : Ranges \cup {NoRange}, asked : Nat]
  /\ version \in Nat
  /\ cache \in [Ranges -> Nat]
  /\ holder \in [CalendarWorkers -> HolderStates]
  /\ crossed \in BOOLEAN

\* Until requests or workers cross: every operation is for the range the state
\* names, one worker reads, and what it reads is no older than the request.
OneRange == \A r \in SyncRequests : op[r].status # "absent" => op[r].range = sync.range /\ sync.range \in Ranges
InHands  == \A w \in CalendarWorkers : \A r \in holder[w].batch \cup holder[w].at : op[r].status # "absent"
OneReads == \A v, w \in CalendarWorkers : Reading(v) /\ Reading(w) => v = w
Recent   == \A w \in CalendarWorkers :
              holder[w].pc = "storing" /\ sync.status \in {"running", "fresh"} => holder[w].seen >= sync.asked
Straight == OneRange /\ OneReads /\ Recent /\ sync.asked <= version /\ Covered

SyncInv == SyncType /\ InHands /\ (~crossed => Straight)

\* What each step does to the stage of an operation.
LEMMA Typed ==
  ASSUME NEW o \in OperationRows, NEW s \in {"completed", "cancelled", "failed"}
  PROVE  /\ Freed(o, s) \in OperationRows /\ Freed(o, s).status = s /\ Freed(o, s).range = o.range
         /\ \A b \in BOOLEAN : /\ FailedRow(o, b) \in OperationRows
                               /\ FailedRow(o, b).status = "failed"
                               /\ FailedRow(o, b).range = o.range
<1>1. Freed(o, s) \in OperationRows /\ Freed(o, s).status = s /\ Freed(o, s).range = o.range
  BY DEF Freed, OperationRows
<1>2. ASSUME NEW b \in BOOLEAN
      PROVE  /\ FailedRow(o, b) \in OperationRows /\ FailedRow(o, b).status = "failed"
             /\ FailedRow(o, b).range = o.range
  BY SyncAssumption DEF FailedRow, Freed, OperationRows
<1> QED BY <1>1, <1>2

LEMMA HandsType ==
  /\ HandsFree \in HolderStates /\ HandsFree.pc = "idle" /\ HandsFree.batch = {} /\ HandsFree.at = {}
  /\ \A h \in HolderStates : /\ Done(h) \in HolderStates /\ Done(h).pc \in {"idle", "next"}
                             /\ Done(h).batch \subseteq h.batch /\ Done(h).at = {}
BY DEF HandsFree, HolderStates, Done

LEMMA SyncStart == SyncInit => SyncInv
<1> SUFFICES ASSUME SyncInit PROVE SyncInv
  OBVIOUS
<1> USE HandsType, SyncAssumption DEF SyncInit
<1>1. Absent \in OperationRows /\ Absent.status = "absent"
  BY DEF Absent, OperationRows
<1>2. SyncType
  BY <1>1 DEF SyncType
<1>3. InHands
  BY DEF InHands
<1>4. OneRange /\ OneReads /\ Recent
  BY <1>1 DEF OneRange, OneReads, Recent, Reading
<1>5. sync.asked <= version /\ Covered
  BY DEF Covered
<1> QED BY <1>2, <1>3, <1>4, <1>5 DEF SyncInv, Straight

-----------------------------------------------------------------------------
\* The steps, one lemma each.
LEMMA RequestKept ==
  ASSUME SyncInv, NEW r \in SyncRequests, NEW g \in Ranges, RequestSync(r, g) PROVE SyncInv'
<1> DEFINE row == [Absent EXCEPT !.status = "queued", !.range = g, !.due = TRUE]
<1>1. row \in OperationRows /\ row.status = "queued" /\ row.range = g
  BY SyncAssumption DEF Absent, OperationRows
<1>2. /\ op[r].status = "absent" /\ op' = [op EXCEPT ![r] = row]
      /\ sync' = [status |-> "pending", range |-> g, asked |-> version]
      /\ crossed' = (crossed \/ sync.range \notin {NoRange, g})
      /\ UNCHANGED <<version, cache, holder>>
  BY DEF RequestSync
<1> HIDE DEF row
<1>3. SyncType'
  BY <1>1, <1>2 DEF SyncInv, SyncType
<1>4. InHands'
  BY <1>1, <1>2 DEF SyncInv, SyncType, InHands
<1>5. ASSUME ~crossed' PROVE Straight'
  <2>1. ~crossed /\ sync.range \in {NoRange, g}
    BY <1>2, <1>5
  <2>2. Straight
    BY <2>1 DEF SyncInv
  <2>3. OneRange'
    BY <1>1, <1>2, <2>1, <2>2, SyncAssumption DEF Straight, OneRange, SyncInv, SyncType
  <2>4. OneReads' /\ Recent' /\ Covered' /\ (sync.asked <= version)'
    BY <1>2, <2>2 DEF Straight, OneReads, Reading, Recent, Covered, SyncInv, SyncType
  <2> QED BY <2>3, <2>4 DEF Straight
<1> QED BY <1>3, <1>4, <1>5 DEF SyncInv

\* Steps on one operation's row, or on its way out of a worker's hands.
LEMMA RowAlone ==
  ASSUME SyncInv, op' \in [SyncRequests -> OperationRows],
         \A r \in SyncRequests : /\ op'[r].range = op[r].range
                                 /\ op'[r].status = "absent" <=> op[r].status = "absent",
         holder' \in [CalendarWorkers -> HolderStates],
         \A w \in CalendarWorkers :
           \/ holder'[w] = holder[w]
           \/ /\ holder'[w].pc \notin {"fetching", "storing"}
              /\ \A r \in holder'[w].batch \cup holder'[w].at :
                   r \in holder[w].batch \cup holder[w].at \/ op[r].status # "absent",
         sync' = sync \/ sync' = [sync EXCEPT !.status = "error"],
         UNCHANGED <<version, cache, crossed>>
  PROVE  SyncInv'
<1>1. SyncType'
  BY DEF SyncInv, SyncType
<1>2. InHands'
  <2> SUFFICES ASSUME NEW w \in CalendarWorkers, NEW r \in holder'[w].batch \cup holder'[w].at
               PROVE  op'[r].status # "absent"
    BY DEF InHands
  <2>1. r \in SyncRequests
    BY DEF HolderStates
  <2> QED BY <2>1 DEF SyncInv, InHands
<1>3. sync'.range = sync.range /\ sync'.asked = sync.asked /\ sync'.status \in {sync.status, "error"}
  BY DEF SyncInv, SyncType
<1>4. ASSUME ~crossed' PROVE Straight'
  <2>1. Straight
    BY <1>4 DEF SyncInv
  <2>2. OneRange'
    BY <1>3, <2>1 DEF Straight, OneRange
  <2>3. OneReads' /\ Recent'
    BY <1>3, <2>1 DEF Straight, OneReads, Reading, Recent
  <2>4. (sync.asked <= version)' /\ Covered'
    BY <1>3, <2>1 DEF Straight, Covered
  <2> QED BY <2>2, <2>3, <2>4 DEF Straight
<1> QED BY <1>1, <1>2, <1>4 DEF SyncInv

LEMMA Disconnects == ASSUME SyncInv, DisconnectAccount PROVE SyncInv'
<1>1. /\ \A r \in SyncRequests : op[r] \in OperationRows
      /\ crossed' = TRUE /\ cache' = [g \in Ranges |-> 0] /\ UNCHANGED <<sync, version, holder>>
  BY DEF DisconnectAccount, SyncInv, SyncType
<1>2. op' = [r \in SyncRequests |->
        IF op[r].status \in {"queued", "failed"} THEN [op[r] EXCEPT !.status = "cancelled"] ELSE op[r]]
  BY DEF DisconnectAccount
<1>3. \A r \in SyncRequests : /\ op'[r] \in OperationRows
                              /\ op'[r].status = "absent" <=> op[r].status = "absent"
  BY <1>1, <1>2 DEF OperationRows
<1>4. SyncType'
  BY <1>1, <1>2, <1>3 DEF SyncInv, SyncType
<1>5. InHands'
  BY <1>1, <1>3 DEF SyncInv, SyncType, InHands, HolderStates
<1> QED BY <1>1, <1>4, <1>5 DEF SyncInv

LEMMA Claims == ASSUME SyncInv, NEW w \in CalendarWorkers, ClaimSync(w) PROVE SyncInv'
<1> DEFINE ready == {r \in SyncRequests : ReadyForClaim(op[r])}
           h == [HandsFree EXCEPT !.pc = "next", !.batch = ready]
<1>1. /\ holder' = [holder EXCEPT ![w] = h] /\ UNCHANGED <<sync, version, cache, crossed>>
      /\ op' = [r \in SyncRequests |->
           IF r \in ready
           THEN [op[r] EXCEPT !.status = "processing", !.owner = w, !.lapsed = FALSE, !.attempts = @ + 1]
           ELSE op[r]]
  BY DEF ClaimSync
<1>2. \A r \in ready : op[r].status # "absent"
  BY DEF ReadyForClaim
<1>3. h \in HolderStates /\ h.pc = "next" /\ h.batch = ready /\ h.at = {}
  BY DEF HandsFree, HolderStates
<1> HIDE DEF ready, h
<1>4. ASSUME NEW r \in SyncRequests
      PROVE  /\ op'[r] \in OperationRows /\ op'[r].range = op[r].range
             /\ op'[r].status = "absent" <=> op[r].status = "absent"
  <2>1. op[r] \in OperationRows
    BY DEF SyncInv, SyncType
  <2>2. CASE r \notin ready
    BY <1>1, <2>1, <2>2
  <2>3. CASE r \in ready
    <3> DEFINE row == [op[r] EXCEPT !.status = "processing", !.owner = w, !.lapsed = FALSE,
                                    !.attempts = op[r].attempts + 1]
    <3>1. op'[r] = row
      BY <1>1, <2>3
    <3>2. op[r].attempts + 1 \in Nat
      BY <2>1 DEF OperationRows
    <3>3. row \in OperationRows /\ row.range = op[r].range /\ row.status = "processing"
      BY <2>1, <3>2 DEF OperationRows
    <3> HIDE DEF row
    <3> QED BY <1>2, <2>3, <3>1, <3>3
  <2> QED BY <2>2, <2>3
<1>5. op' \in [SyncRequests -> OperationRows]
  BY <1>1, <1>4
<1>6. /\ holder' \in [CalendarWorkers -> HolderStates] /\ holder'[w] = h
      /\ \A v \in CalendarWorkers : v # w => holder'[v] = holder[v]
  BY <1>1, <1>3 DEF SyncInv, SyncType
<1>7. \A v \in CalendarWorkers :
        \/ holder'[v] = holder[v]
        \/ /\ holder'[v].pc \notin {"fetching", "storing"}
           /\ \A r \in holder'[v].batch \cup holder'[v].at :
                r \in holder[v].batch \cup holder[v].at \/ op[r].status # "absent"
  BY <1>2, <1>3, <1>6
<1> QED BY <1>1, <1>4, <1>5, <1>6, <1>7, RowAlone

LEMMA Begins ==
  ASSUME SyncInv, NEW w \in CalendarWorkers, NEW r \in SyncRequests, BeginSync(w, r) PROVE SyncInv'
<1> DEFINE h == [holder[w] EXCEPT !.pc = "fetching", !.at = {r}]
<1>1. /\ r \in holder[w].batch /\ holder' = [holder EXCEPT ![w] = h]
      /\ sync' = [sync EXCEPT !.status = "running"]
      /\ crossed' = (crossed \/ \E v \in CalendarWorkers \ {w} : Reading(v))
      /\ UNCHANGED <<op, version, cache>>
  BY DEF BeginSync
<1>2. holder[w] \in HolderStates
  BY DEF SyncInv, SyncType
<1>3. h \in HolderStates /\ h.pc = "fetching" /\ h.batch = holder[w].batch /\ h.at = {r}
  BY <1>2 DEF HolderStates
<1> HIDE DEF h
<1>4. /\ holder' \in [CalendarWorkers -> HolderStates] /\ holder'[w] = h
      /\ \A v \in CalendarWorkers : v # w => holder'[v] = holder[v]
  BY <1>1, <1>3 DEF SyncInv, SyncType
<1>5. sync'.range = sync.range /\ sync'.asked = sync.asked /\ sync'.status = "running"
  BY <1>1 DEF SyncInv, SyncType
<1>6. SyncType'
  BY <1>1, <1>4 DEF SyncInv, SyncType
<1>7. InHands'
  BY <1>1, <1>3, <1>4 DEF SyncInv, InHands
<1>8. ASSUME ~crossed' PROVE Straight'
  <2>1. ~crossed /\ \A v \in CalendarWorkers : v # w => ~Reading(v)
    BY <1>1, <1>8
  <2>2. Straight
    BY <2>1 DEF SyncInv
  <2>3. OneRange'
    BY <1>1, <1>5, <2>2 DEF Straight, OneRange
  <2>4. OneReads'
    BY <1>4, <2>1 DEF OneReads, Reading
  <2>5. Recent'
    BY <1>3, <1>4, <2>1 DEF Recent, Reading
  <2>6. (sync.asked <= version)' /\ Covered'
    BY <1>1, <1>5, <2>2 DEF Straight, Covered
  <2> QED BY <2>3, <2>4, <2>5, <2>6 DEF Straight
<1> QED BY <1>6, <1>7, <1>8 DEF SyncInv

LEMMA Fetches == ASSUME SyncInv, NEW w \in CalendarWorkers, FetchRange(w) PROVE SyncInv'
<1> DEFINE h == [holder[w] EXCEPT !.pc = "storing", !.seen = version]
<1>1. /\ holder[w].pc = "fetching" /\ holder' = [holder EXCEPT ![w] = h]
      /\ UNCHANGED <<op, sync, version, cache, crossed>>
  BY DEF FetchRange
<1>2. holder[w] \in HolderStates /\ version \in Nat
  BY DEF SyncInv, SyncType
<1>3. /\ h \in HolderStates /\ h.pc = "storing" /\ h.seen = version
      /\ h.batch = holder[w].batch /\ h.at = holder[w].at
  BY <1>2 DEF HolderStates
<1> HIDE DEF h
<1>4. /\ holder' \in [CalendarWorkers -> HolderStates] /\ holder'[w] = h
      /\ \A v \in CalendarWorkers : v # w => holder'[v] = holder[v]
  BY <1>1, <1>3 DEF SyncInv, SyncType
<1>5. SyncType'
  BY <1>1, <1>4 DEF SyncInv, SyncType
<1>6. InHands'
  BY <1>1, <1>3, <1>4 DEF SyncInv, InHands
<1>7. ASSUME ~crossed' PROVE Straight'
  <2>1. Straight
    BY <1>1, <1>7 DEF SyncInv
  <2>2. OneRange' /\ Covered' /\ (sync.asked <= version)'
    BY <1>1, <2>1 DEF Straight, OneRange, Covered
  <2>3. OneReads'
    BY <1>1, <1>4, <2>1 DEF Straight, OneReads, Reading
  <2>4. Recent'
    BY <1>1, <1>3, <1>4, <2>1 DEF Straight, Recent
  <2> QED BY <2>2, <2>3, <2>4 DEF Straight
<1> QED BY <1>5, <1>6, <1>7 DEF SyncInv

LEMMA Stores ==
  ASSUME SyncInv, NEW w \in CalendarWorkers, NEW r \in SyncRequests, StoreRange(w, r) PROVE SyncInv'
<1> DEFINE row == Freed(op[r], "completed")
           h == Done(holder[w])
<1>1. /\ holder[w].pc = "storing" /\ r \in holder[w].at
      /\ sync.status \in {"running", "fresh"} /\ op[r].status = "processing"
      /\ cache' = [cache EXCEPT ![op[r].range] = holder[w].seen]
      /\ sync' = [sync EXCEPT !.status = "fresh"]
      /\ op' = [op EXCEPT ![r] = row] /\ holder' = [holder EXCEPT ![w] = h]
      /\ UNCHANGED <<version, crossed>>
  BY DEF StoreRange, MayBeFresh, Leased, SyncInv, SyncType
<1>2. holder[w] \in HolderStates /\ op[r] \in OperationRows
  BY DEF SyncInv, SyncType
<1>3. /\ row \in OperationRows /\ row.status = "completed" /\ row.range = op[r].range
      /\ h \in HolderStates /\ h.pc \in {"idle", "next"}
      /\ h.batch \subseteq holder[w].batch /\ h.at = {}
  BY <1>2, Typed, HandsType
<1> HIDE DEF row, h
<1>4. /\ holder' \in [CalendarWorkers -> HolderStates] /\ holder'[w] = h
      /\ \A v \in CalendarWorkers : v # w => holder'[v] = holder[v]
  BY <1>1, <1>3 DEF SyncInv, SyncType
<1>5. /\ op' \in [SyncRequests -> OperationRows] /\ op'[r] = row
      /\ \A q \in SyncRequests : q # r => op'[q] = op[q]
  BY <1>1, <1>3 DEF SyncInv, SyncType
<1>6. sync'.range = sync.range /\ sync'.asked = sync.asked /\ sync'.status = "fresh"
  BY <1>1 DEF SyncInv, SyncType
<1>7. cache' \in [Ranges -> Nat]
  <2>1. holder[w].seen \in Nat
    BY <1>2 DEF HolderStates
  <2> QED BY <1>1, <2>1 DEF SyncInv, SyncType
<1>8. SyncType'
  BY <1>1, <1>4, <1>5, <1>7 DEF SyncInv, SyncType
<1>9. InHands'
  <2> SUFFICES ASSUME NEW v \in CalendarWorkers, NEW q \in holder'[v].batch \cup holder'[v].at
               PROVE  op'[q].status # "absent"
    BY DEF InHands
  <2>1. q \in holder[v].batch \cup holder[v].at /\ q \in SyncRequests
    BY <1>3, <1>4 DEF SyncInv, SyncType, HolderStates
  <2>2. op[q].status # "absent"
    BY <2>1 DEF SyncInv, InHands
  <2> QED BY <1>3, <1>5, <2>1, <2>2
<1>10. ASSUME ~crossed' PROVE Straight'
  <2>1. Straight
    BY <1>1, <1>10 DEF SyncInv
  <2>2. op[r].range = sync.range /\ sync.range \in Ranges
    BY <1>1, <2>1 DEF Straight, OneRange
  <2>3. OneRange'
    BY <1>1, <1>3, <1>5, <1>6, <2>1 DEF Straight, OneRange
  <2>4. \A v \in CalendarWorkers : ~Reading(v)'
    BY <1>1, <1>3, <1>4, <2>1 DEF Straight, OneReads, Reading
  <2>5. OneReads' /\ Recent'
    BY <2>4 DEF OneReads, Recent, Reading
  <2>6. holder[w].seen >= sync.asked
    BY <1>1, <2>1 DEF Straight, Recent
  <2>7. Covered'
    BY <1>1, <1>6, <2>2, <2>6 DEF Covered, SyncInv, SyncType
  <2>8. (sync.asked <= version)'
    BY <1>1, <1>6, <2>1 DEF Straight
  <2> QED BY <2>3, <2>5, <2>7, <2>8 DEF Straight
<1> QED BY <1>8, <1>9, <1>10 DEF SyncInv

LEMMA OneRow ==
  ASSUME SyncInv, NEW r \in SyncRequests, NEW row \in OperationRows,
         row.range = op[r].range, op[r].status # "absent", row.status # "absent",
         op' = [op EXCEPT ![r] = row]
  PROVE  /\ op' \in [SyncRequests -> OperationRows]
         /\ \A q \in SyncRequests : /\ op'[q].range = op[q].range
                                    /\ op'[q].status = "absent" <=> op[q].status = "absent"
BY DEF SyncInv, SyncType

LEMMA Waits ==
  ASSUME SyncInv, NEW r \in SyncRequests, CancelSync(r) \/ BackoffEnds(r) \/ LeaseLapses(r)
  PROVE  SyncInv'
<1>1. op[r] \in OperationRows
  BY DEF SyncInv, SyncType
<1>2. PICK row \in OperationRows :
        /\ op' = [op EXCEPT ![r] = row] /\ op[r].status # "absent"
        /\ row.status # "absent" /\ row.range = op[r].range
  <2>1. CASE CancelSync(r)
    <3>1. op' = [op EXCEPT ![r] = [op[r] EXCEPT !.status = "cancelled"]] /\ op[r].status # "absent"
      BY <2>1 DEF CancelSync
    <3>2. /\ [op[r] EXCEPT !.status = "cancelled"] \in OperationRows
          /\ [op[r] EXCEPT !.status = "cancelled"].status = "cancelled"
          /\ [op[r] EXCEPT !.status = "cancelled"].range = op[r].range
      BY <1>1 DEF OperationRows
    <3> QED BY <3>1, <3>2
  <2>2. CASE BackoffEnds(r)
    <3>1. op' = [op EXCEPT ![r] = [op[r] EXCEPT !.due = TRUE]] /\ op[r].status = "failed"
      BY <2>2 DEF BackoffEnds
    <3>2. /\ [op[r] EXCEPT !.due = TRUE] \in OperationRows
          /\ [op[r] EXCEPT !.due = TRUE].status = op[r].status
          /\ [op[r] EXCEPT !.due = TRUE].range = op[r].range
      BY <1>1 DEF OperationRows
    <3> QED BY <3>1, <3>2
  <2>3. CASE LeaseLapses(r)
    <3>1. op' = [op EXCEPT ![r] = [op[r] EXCEPT !.lapsed = TRUE]] /\ op[r].status = "processing"
      BY <2>3 DEF LeaseLapses
    <3>2. /\ [op[r] EXCEPT !.lapsed = TRUE] \in OperationRows
          /\ [op[r] EXCEPT !.lapsed = TRUE].status = op[r].status
          /\ [op[r] EXCEPT !.lapsed = TRUE].range = op[r].range
      BY <1>1 DEF OperationRows
    <3> QED BY <3>1, <3>2
  <2> QED BY <2>1, <2>2, <2>3
<1>3. UNCHANGED <<holder, sync, version, cache, crossed>>
  BY DEF CancelSync, BackoffEnds, LeaseLapses
<1>4. holder' \in [CalendarWorkers -> HolderStates]
  BY <1>3 DEF SyncInv, SyncType
<1> QED BY <1>2, <1>3, <1>4, OneRow, RowAlone

LEMMA Fails ==
  ASSUME SyncInv, NEW w \in CalendarWorkers, NEW r \in SyncRequests, FailSync(w, r) PROVE SyncInv'
<1> DEFINE h == [holder[w] EXCEPT !.pc = "failing", !.at = {r}]
<1>1. /\ holder' = [holder EXCEPT ![w] = h] /\ sync' = [sync EXCEPT !.status = "error"]
      /\ UNCHANGED <<op, version, cache, crossed>> /\ r \in holder[w].batch \cup holder[w].at
  BY DEF FailSync
<1>2. holder[w] \in HolderStates /\ op' \in [SyncRequests -> OperationRows]
  BY <1>1 DEF SyncInv, SyncType
<1>3. h \in HolderStates /\ h.pc = "failing" /\ h.batch = holder[w].batch /\ h.at = {r}
  BY <1>2 DEF HolderStates
<1> HIDE DEF h
<1>4. /\ holder' \in [CalendarWorkers -> HolderStates] /\ holder'[w] = h
      /\ \A v \in CalendarWorkers : v # w => holder'[v] = holder[v]
  BY <1>1, <1>3 DEF SyncInv, SyncType
<1>5. \A v \in CalendarWorkers :
        \/ holder'[v] = holder[v]
        \/ /\ holder'[v].pc \notin {"fetching", "storing"}
           /\ \A q \in holder'[v].batch \cup holder'[v].at : q \in holder[v].batch \cup holder[v].at
  BY <1>1, <1>3, <1>4
<1> QED BY <1>1, <1>2, <1>4, <1>5, RowAlone

LEMMA Reports ==
  ASSUME SyncInv, NEW w \in CalendarWorkers, NEW r \in SyncRequests, ReportFailure(w, r) PROVE SyncInv'
<1>1. UNCHANGED <<sync, version, cache, crossed>>
  BY DEF ReportFailure
<1>2. PICK h \in HolderStates :
        /\ holder' = [holder EXCEPT ![w] = h] /\ h.pc \in {"idle", "next"} /\ h.at = {}
        /\ h.batch \subseteq holder[w].batch
  <2>1. holder[w] \in HolderStates
    BY DEF SyncInv, SyncType
  <2>2. holder' = [holder EXCEPT ![w] = Done(holder[w])] \/ holder' = [holder EXCEPT ![w] = HandsFree]
    BY DEF ReportFailure, SyncInv, SyncType
  <2> QED BY <2>1, <2>2, HandsType
<1>3. /\ op' \in [SyncRequests -> OperationRows]
      /\ \A q \in SyncRequests : /\ op'[q].range = op[q].range
                                 /\ op'[q].status = "absent" <=> op[q].status = "absent"
  <2>1. op[r] \in OperationRows
    BY DEF SyncInv, SyncType
  <2>2. CASE op' = op
    BY <2>2 DEF SyncInv, SyncType
  <2>3. ASSUME NEW b \in BOOLEAN, op' = [op EXCEPT ![r] = FailedRow(op[r], b)], Leased(op[r], w)
        PROVE  /\ op' \in [SyncRequests -> OperationRows]
               /\ \A q \in SyncRequests : /\ op'[q].range = op[q].range
                                          /\ op'[q].status = "absent" <=> op[q].status = "absent"
    BY <2>1, <2>3, Typed, OneRow DEF Leased
  <2>4. \/ op' = op
        \/ Leased(op[r], w) /\ \E b \in BOOLEAN : op' = [op EXCEPT ![r] = FailedRow(op[r], b)]
    BY DEF ReportFailure, SyncInv, SyncType
  <2> QED BY <2>2, <2>3, <2>4
<1>4. /\ holder' \in [CalendarWorkers -> HolderStates] /\ holder'[w] = h
      /\ \A v \in CalendarWorkers : v # w => holder'[v] = holder[v]
  BY <1>2 DEF SyncInv, SyncType
<1>5. \A v \in CalendarWorkers :
        \/ holder'[v] = holder[v]
        \/ /\ holder'[v].pc \notin {"fetching", "storing"}
           /\ \A q \in holder'[v].batch \cup holder'[v].at : q \in holder[v].batch \cup holder[v].at
  BY <1>2, <1>4
<1> QED BY <1>1, <1>3, <1>4, <1>5, RowAlone

LEMMA Dies == ASSUME SyncInv, NEW w \in CalendarWorkers, CalendarWorkerDies(w) PROVE SyncInv'
<1>1. holder' = [holder EXCEPT ![w] = HandsFree] /\ UNCHANGED <<op, sync, version, cache, crossed>>
  BY DEF CalendarWorkerDies
<1>2. /\ holder' \in [CalendarWorkers -> HolderStates] /\ op' \in [SyncRequests -> OperationRows]
      /\ \A v \in CalendarWorkers :
           \/ holder'[v] = holder[v]
           \/ holder'[v].pc = "idle" /\ holder'[v].batch \cup holder'[v].at = {}
  BY <1>1, HandsType DEF SyncInv, SyncType
<1> QED BY <1>1, <1>2, RowAlone

LEMMA Changes == ASSUME SyncInv, GoogleChanges PROVE SyncInv'
<1>1. version' = version + 1 /\ UNCHANGED <<op, sync, cache, holder, crossed>> /\ version \in Nat
  BY DEF GoogleChanges, SyncInv, SyncType
<1>2. SyncType' /\ InHands'
  BY <1>1 DEF SyncInv, SyncType, InHands
<1>3. ASSUME Straight PROVE Straight'
  <2>1. sync.asked \in Nat
    BY DEF SyncInv, SyncType
  <2> QED BY <1>1, <1>3, <2>1 DEF Straight, OneRange, OneReads, Reading, Recent, Covered
<1> QED BY <1>1, <1>2, <1>3 DEF SyncInv

LEMMA SyncStep == SyncInv /\ [SyncNext]_syncVars => SyncInv'
<1> SUFFICES ASSUME SyncInv, [SyncNext]_syncVars PROVE SyncInv'
  OBVIOUS
<1>1. CASE UNCHANGED syncVars
  BY <1>1 DEF syncVars, SyncInv, SyncType, InHands, Straight, OneRange, OneReads, Reading, Recent, Covered
<1>2. ASSUME NEW w \in CalendarWorkers, Works(w) \/ CalendarWorkerDies(w) PROVE SyncInv'
  BY <1>2, Claims, Fetches, Begins, Stores, Fails, Reports, Dies DEF Works
<1>3. ASSUME NEW r \in SyncRequests,
             \/ \E g \in Ranges : RequestSync(r, g)
             \/ CancelSync(r) \/ BackoffEnds(r) \/ LeaseLapses(r)
      PROVE  SyncInv'
  BY <1>3, RequestKept, Waits
<1> QED BY <1>1, <1>2, <1>3, Changes, Disconnects DEF SyncNext

\* While requests are for one range, one worker reads at a time and the account
\* stays connected, a calendar that says fresh shows nothing older than the
\* request, for any requests, ranges, workers and faults.
THEOREM FreshStaysRecent == SyncSpec => []FreshIsRecent
<1>1. SyncInv => FreshIsRecent
  BY DEF SyncInv, Straight, FreshIsRecent
<1> QED BY <1>1, SyncStart, SyncStep, PTL DEF SyncSpec

-----------------------------------------------------------------------------
(* The Calendar queue as a durable queue *)

\* A step moves each operation along one edge and stores with its end.
QueueMoves ==
  /\ \A r \in SyncRequests :
       \/ SyncStage(op'[r]) = SyncStage(op[r])
       \/ <<SyncStage(op[r]), SyncStage(op'[r])>> \in CalendarQueue!Moves
  /\ stored' = stored \cup {r \in SyncRequests :
       SyncStage(op[r]) # "finished" /\ SyncStage(op'[r]) = "finished"}

\* Operations that are not completed by the step.
LEMMA NothingStored ==
  ASSUME stored' = stored,
         \A r \in SyncRequests :
           \/ SyncStage(op'[r]) = SyncStage(op[r])
           \/ /\ SyncStage(op'[r]) # "finished"
              /\ <<SyncStage(op[r]), SyncStage(op'[r])>> \in CalendarQueue!Moves
  PROVE  QueueMoves
BY DEF QueueMoves

\* The one row that a step writes.
LEMMA OneMove ==
  ASSUME SyncType, stored' = stored, NEW r \in SyncRequests, NEW row,
         op' = [op EXCEPT ![r] = row], SyncStage(row) # "finished",
         \/ SyncStage(row) = SyncStage(op[r])
         \/ <<SyncStage(op[r]), SyncStage(row)>> \in CalendarQueue!Moves
  PROVE  QueueMoves
<1>1. \A q \in SyncRequests : op'[q] = IF q = r THEN row ELSE op[q]
  BY DEF SyncType
<1> QED BY <1>1, NothingStored

LEMMA QueueStep == SyncType /\ [SyncNext]_syncVars => QueueMoves
<1> SUFFICES ASSUME SyncType, [SyncNext]_syncVars PROVE QueueMoves
  OBVIOUS
<1>0. \A r \in SyncRequests : op[r] \in OperationRows
  BY DEF SyncType
<1>1. ASSUME UNCHANGED <<op, stored>> PROVE QueueMoves
  BY <1>1 DEF QueueMoves
<1>2. ASSUME NEW r \in SyncRequests, NEW g \in Ranges, RequestSync(r, g) PROVE QueueMoves
  <2> DEFINE row == [Absent EXCEPT !.status = "queued", !.range = g, !.due = TRUE]
  <2>1. op[r].status = "absent" /\ op' = [op EXCEPT ![r] = row] /\ stored' = stored
    BY <1>2 DEF RequestSync
  <2>2. SyncStage(op[r]) = "absent" /\ SyncStage(row) = "waiting"
    BY <2>1 DEF SyncStage, Absent
  <2> HIDE DEF row
  <2> QED BY <2>1, <2>2, OneMove DEF CalendarQueue!Moves
<1>3. ASSUME NEW r \in SyncRequests, CancelSync(r) PROVE QueueMoves
  <2> DEFINE row == [op[r] EXCEPT !.status = "cancelled"]
  <2>1. op[r].status \in {"queued", "failed"} /\ op' = [op EXCEPT ![r] = row] /\ stored' = stored
    BY <1>3 DEF CancelSync
  <2>2. SyncStage(op[r]) = "waiting" /\ SyncStage(row) = "dropped"
    BY <1>0, <2>1 DEF SyncStage, OperationRows
  <2> HIDE DEF row
  <2> QED BY <2>1, <2>2, OneMove DEF CalendarQueue!Moves
<1>4. ASSUME NEW r \in SyncRequests, BackoffEnds(r) \/ LeaseLapses(r) PROVE QueueMoves
  <2>1. PICK row : /\ op' = [op EXCEPT ![r] = row] /\ row.status = op[r].status
                   /\ op[r].status \in {"failed", "processing"}
    <3>1. /\ [op[r] EXCEPT !.due = TRUE].status = op[r].status
          /\ [op[r] EXCEPT !.lapsed = TRUE].status = op[r].status
      BY <1>0 DEF OperationRows
    <3>2. /\ op[r].status \in {"failed", "processing"}
          /\ \/ op' = [op EXCEPT ![r] = [op[r] EXCEPT !.due = TRUE]]
             \/ op' = [op EXCEPT ![r] = [op[r] EXCEPT !.lapsed = TRUE]]
      BY <1>4 DEF BackoffEnds, LeaseLapses
    <3> QED BY <3>1, <3>2
  <2>2. SyncStage(row) = SyncStage(op[r]) /\ SyncStage(row) # "finished"
    BY <2>1 DEF SyncStage
  <2>3. stored' = stored
    BY <1>4 DEF BackoffEnds, LeaseLapses
  <2> QED BY <2>1, <2>2, <2>3, OneMove
<1>5. CASE DisconnectAccount
  <2>1. stored' = stored /\ \A r \in SyncRequests :
          op'[r] = IF op[r].status \in {"queued", "failed"}
                   THEN [op[r] EXCEPT !.status = "cancelled"] ELSE op[r]
    BY <1>5 DEF DisconnectAccount
  <2>2. ASSUME NEW r \in SyncRequests
        PROVE  \/ op'[r] = op[r]
               \/ SyncStage(op[r]) = "waiting" /\ SyncStage(op'[r]) = "dropped"
    BY <1>0, <2>1 DEF SyncStage, OperationRows
  <2> QED BY <2>1, <2>2, NothingStored DEF CalendarQueue!Moves
<1>6. ASSUME NEW w \in CalendarWorkers, ClaimSync(w) PROVE QueueMoves
  <2> DEFINE ready == {r \in SyncRequests : ReadyForClaim(op[r])}
  <2>1. stored' = stored /\ \A r \in SyncRequests :
          op'[r] = IF r \in ready
                   THEN [op[r] EXCEPT !.status = "processing", !.owner = w, !.lapsed = FALSE,
                                      !.attempts = @ + 1]
                   ELSE op[r]
    BY <1>6 DEF ClaimSync
  <2>2. ASSUME NEW r \in SyncRequests
        PROVE  \/ op'[r] = op[r]
               \/ SyncStage(op[r]) \in {"waiting", "leased"} /\ SyncStage(op'[r]) = "leased"
    <3>1. CASE r \notin ready
      BY <2>1, <3>1
    <3>2. CASE r \in ready
      <4>1. op[r].status \in {"queued", "failed", "processing"}
        BY <3>2 DEF ReadyForClaim
      <4>2. op'[r].status = "processing"
        BY <1>0, <2>1, <3>2 DEF OperationRows
      <4> QED BY <4>1, <4>2 DEF SyncStage
    <3> QED BY <3>1, <3>2
  <2> QED BY <2>1, <2>2, NothingStored DEF CalendarQueue!Moves
<1>7. ASSUME NEW w \in CalendarWorkers, NEW r \in SyncRequests, StoreRange(w, r) PROVE QueueMoves
  <2> DEFINE row == Freed(op[r], "completed")
  <2>1. /\ op[r].status = "processing" /\ stored' = stored \cup {r}
        /\ op' = [op EXCEPT ![r] = row]
    BY <1>7 DEF StoreRange, Leased, SyncType
  <2>2. row.status = "completed"
    BY <1>0, Typed
  <2> HIDE DEF row
  <2>3. SyncStage(op[r]) = "leased" /\ SyncStage(row) = "finished"
    BY <2>1, <2>2 DEF SyncStage
  <2>4. \A q \in SyncRequests : op'[q] = IF q = r THEN row ELSE op[q]
    BY <2>1 DEF SyncType
  <2>5. {q \in SyncRequests : SyncStage(op[q]) # "finished" /\ SyncStage(op'[q]) = "finished"} = {r}
    BY <2>3, <2>4
  <2> QED BY <2>1, <2>3, <2>4, <2>5 DEF QueueMoves, CalendarQueue!Moves
<1>8. ASSUME NEW w \in CalendarWorkers, NEW r \in SyncRequests, ReportFailure(w, r) PROVE QueueMoves
  <2>1. CASE Leased(op[r], w)
    <3>1. PICK b \in BOOLEAN : op' = [op EXCEPT ![r] = FailedRow(op[r], b)]
      BY <1>8, <2>1 DEF ReportFailure, SyncType
    <3>2. FailedRow(op[r], b).status = "failed" /\ op[r].status = "processing"
      BY <1>0, <2>1, Typed DEF Leased
    <3>3. SyncStage(FailedRow(op[r], b)) = "waiting" /\ SyncStage(op[r]) = "leased"
      BY <3>2 DEF SyncStage
    <3>4. stored' = stored
      BY <1>8 DEF ReportFailure
    <3> QED BY <3>1, <3>3, <3>4, OneMove DEF CalendarQueue!Moves
  <2>2. CASE ~Leased(op[r], w)
    BY <1>1, <1>8, <2>2 DEF ReportFailure
  <2> QED BY <2>1, <2>2
<1>9. ASSUME NEW w \in CalendarWorkers, NEW r \in SyncRequests,
             BeginSync(w, r) \/ FailSync(w, r)
      PROVE  QueueMoves
  BY <1>1, <1>9 DEF BeginSync, FailSync
<1>10. ASSUME NEW w \in CalendarWorkers, FetchRange(w) \/ CalendarWorkerDies(w) PROVE QueueMoves
  BY <1>1, <1>10 DEF FetchRange, CalendarWorkerDies
<1>11. CASE GoogleChanges \/ UNCHANGED syncVars
  BY <1>1, <1>11 DEF GoogleChanges, syncVars
<1> QED BY <1>2, <1>3, <1>4, <1>5, <1>6, <1>7, <1>8, <1>9, <1>10, <1>11 DEF SyncNext, Works

\* The Calendar queue implements the durable queue, for any operations, workers
\* and faults: what is stored is stored in the step that ends the operation, and
\* what has ended is never taken up again.
THEOREM CalendarQueueIsDurable == SyncSpec => ImplementsCalendarQueue
<1>1. SyncInit => CalendarQueue!Init
  BY DEF SyncInit, CalendarQueue!Init, Absent, SyncStage
<1>2. SyncInv /\ [SyncNext]_syncVars => [CalendarQueue!Next]_CalendarQueue!queueVars
  <2> SUFFICES ASSUME SyncInv, [SyncNext]_syncVars PROVE CalendarQueue!Next
    OBVIOUS
  <2>1. QueueMoves
    BY QueueStep DEF SyncInv
  <2> QED BY <2>1 DEF QueueMoves, CalendarQueue!Next
<1> QED BY <1>1, <1>2, SyncStart, SyncStep, PTL
        DEF SyncSpec, ImplementsCalendarQueue, CalendarQueue!Spec

-----------------------------------------------------------------------------
(* PushDelivery *)

RowSets == UNION {[S -> {0, 1, 2}] : S \in SUBSET Targets}

DeliveryRows ==
  [status : {"none", "queued", "sent", "failed", "cancelled"}, retries : Nat,
   owner : PushWorkers \cup {NoPusher}, due : BOOLEAN, lapsed : BOOLEAN]

PusherStates ==
  [pc : {"idle", "claim", "next", "report"}, rows : RowSets, at : SUBSET Targets,
   answer : {"none", "transient", "permanent", "permanent_token", "accepted", "unknown"}]

PushType ==
  /\ delivery \in [Targets -> DeliveryRows]
  /\ device \in [Devices -> {0, 1, 2}]
  /\ pusher \in [PushWorkers -> PusherStates]
  /\ accepted \in [Targets -> Nat]
  /\ pushFaults \in Nat

\* The worker is between its claim and the report on t; it is the row it sends.
Working(w, t) == pusher[w].pc \in {"next", "report"} /\ t \in DOMAIN pusher[w].rows
Took(w, t) == pusher[w].pc = "report" /\ pusher[w].answer = "accepted" /\ t \in pusher[w].at
AtOne == \A w \in PushWorkers : /\ pusher[w].pc # "report" => pusher[w].at = {}
                                /\ \A t \in pusher[w].at : pusher[w].at = {t} /\ t \in DOMAIN pusher[w].rows

\* Leases: a row is locked only while it waits; a worker that works on a row
\* has its lease or finds it settled; a lease that has lapsed is nobody's.
RowInv ==
  \A t \in Targets :
    /\ delivery[t].owner # NoPusher => delivery[t].status = "queued"
    /\ delivery[t].lapsed => delivery[t].owner # NoPusher
    /\ \A w \in PushWorkers : Working(w, t) =>
         /\ delivery[t].owner = w \/ delivery[t].status \notin {"none", "queued"}
         /\ ~delivery[t].lapsed
    /\ \A v, w \in PushWorkers : Working(v, t) /\ Working(w, t) => v = w

\* A row that may still be sent has been taken no more often than faults excuse.
Sendable(t) ==
  \/ delivery[t].status \in {"none", "queued"} /\ \A w \in PushWorkers : ~Took(w, t)
  \/ \E w \in PushWorkers : Working(w, t) /\ t \notin pusher[w].at
CountInv ==
  \A t \in Targets : accepted[t] <= 1 + pushFaults /\ (Sendable(t) => accepted[t] <= pushFaults)

PushInv == PushType /\ AtOne /\ RowInv /\ CountInv

LEMMA NoRows == FreePusher.rows \in RowSets /\ DOMAIN FreePusher.rows = {}
  /\ FreePusher.pc = "idle" /\ FreePusher.at = {} /\ FreePusher.answer = "none"
  /\ FreePusher \in PusherStates
<1>1. FreePusher.rows = <<>> /\ FreePusher.pc = "idle" /\ FreePusher.at = {} /\ FreePusher.answer = "none"
  BY DEF FreePusher
<1>2. DOMAIN <<>> = {} /\ <<>> \in [{} -> {0,1,2}]
  OBVIOUS
<1>3. <<>> \in RowSets
  BY <1>2 DEF RowSets
<1> QED BY <1>1, <1>2, <1>3 DEF FreePusher, PusherStates

LEMMA RemainingRows ==
  ASSUME NEW h \in PusherStates, NEW t \in DOMAIN h.rows
  PROVE  /\ Remaining(h, t) \in PusherStates /\ Remaining(h, t).at = {}
         /\ Remaining(h, t).pc \in {"idle", "next"}
         /\ DOMAIN Remaining(h, t).rows = DOMAIN h.rows \ {t}
<1>1. CASE DOMAIN h.rows = {t}
  BY <1>1, NoRows DEF Remaining
<1>2. CASE DOMAIN h.rows # {t}
  <2> DEFINE rows == [u \in DOMAIN h.rows \ {t} |-> h.rows[u]]
  <2>1. PICK S \in SUBSET Targets : h.rows \in [S -> {0, 1, 2}]
    BY DEF PusherStates, RowSets
  <2>2. rows \in [S \ {t} -> {0, 1, 2}] /\ DOMAIN rows = DOMAIN h.rows \ {t} /\ S \ {t} \in SUBSET Targets
    BY <2>1
  <2>3. rows \in RowSets
    BY <2>2 DEF RowSets
  <2>4. Remaining(h, t) = [pc |-> "next", rows |-> rows, at |-> {}, answer |-> "none"]
    BY <1>2 DEF Remaining, FreePusher
  <2> HIDE DEF rows
  <2> QED BY <2>2, <2>3, <2>4 DEF PusherStates
<1> QED BY <1>1, <1>2

\* A worker lets go of some of its rows, at least of the one it has sent.
Shrinks(w, h) ==
  /\ h \in PusherStates /\ h.at = {} /\ h.pc \in {"idle", "next"}
  /\ h.pc = "next" => /\ pusher[w].pc \in {"next", "report"}
                      /\ DOMAIN h.rows \subseteq DOMAIN pusher[w].rows \ pusher[w].at

LEMMA ShrinkFacts ==
  ASSUME PushType, AtOne, NEW w \in PushWorkers, NEW h, Shrinks(w, h),
         pusher' = [pusher EXCEPT ![w] = h]
  PROVE  /\ pusher' \in [PushWorkers -> PusherStates] /\ AtOne'
         /\ \A v \in PushWorkers, t \in Targets :
              /\ Working(v, t)' => Working(v, t)
              /\ v # w => (Took(v, t)' <=> Took(v, t))
              /\ Working(v, t)' /\ t \notin pusher'[v].at => t \notin pusher[v].at
              /\ ~Took(w, t)'
<1>1. /\ pusher' \in [PushWorkers -> PusherStates] /\ pusher'[w] = h
      /\ \A v \in PushWorkers : v # w => pusher'[v] = pusher[v]
  BY DEF PushType, Shrinks
<1>2. AtOne'
  BY <1>1 DEF AtOne, Shrinks
<1> QED BY <1>1, <1>2 DEF Working, Took, Shrinks

\* ... without touching the table: crashes and lost leases.
LEMMA LetsGo ==
  ASSUME PushInv, NEW w \in PushWorkers, NEW h, Shrinks(w, h),
         pusher' = [pusher EXCEPT ![w] = h], UNCHANGED <<delivery, accepted>>,
         device' \in [Devices -> {0, 1, 2}],
         pushFaults' \in Nat, pushFaults <= pushFaults',
         \A t \in Targets : Took(w, t) /\ delivery[t].status \in {"none", "queued"} => accepted[t] <= pushFaults'
  PROVE  PushInv'
<1>1. PushType /\ AtOne /\ RowInv /\ CountInv
  BY DEF PushInv
<1>2. /\ pusher' \in [PushWorkers -> PusherStates] /\ AtOne'
      /\ \A v \in PushWorkers, t \in Targets :
           /\ Working(v, t)' => Working(v, t)
           /\ v # w => (Took(v, t)' <=> Took(v, t))
           /\ Working(v, t)' /\ t \notin pusher'[v].at => t \notin pusher[v].at
           /\ ~Took(w, t)'
  BY <1>1, ShrinkFacts
<1>3. PushType'
  BY <1>1, <1>2 DEF PushType
<1>4. RowInv'
  BY <1>1, <1>2 DEF RowInv
<1>5. CountInv'
  <2> SUFFICES ASSUME NEW t \in Targets
               PROVE  accepted'[t] <= 1 + pushFaults' /\ (Sendable(t)' => accepted'[t] <= pushFaults')
    BY DEF CountInv
  <2>1. accepted'[t] = accepted[t] /\ accepted[t] \in Nat /\ pushFaults \in Nat
    BY <1>1 DEF PushType
  <2>2. accepted[t] <= 1 + pushFaults /\ (Sendable(t) => accepted[t] <= pushFaults)
    BY <1>1 DEF CountInv
  <2>3. ASSUME Sendable(t)' PROVE Sendable(t) \/ (Took(w, t) /\ delivery[t].status \in {"none", "queued"})
    BY <1>2, <2>3 DEF Sendable
  <2> QED BY <2>1, <2>2, <2>3
<1> QED BY <1>2, <1>3, <1>4, <1>5 DEF PushInv

\* ... and settles or returns the row in hand.
LEMMA Settles ==
  ASSUME PushInv, NEW w \in PushWorkers, NEW t \in Targets, Working(w, t),
         pusher[w].at \subseteq {t},
         NEW row \in DeliveryRows, row.owner = NoPusher, ~row.lapsed, row.status # "none",
         row.status = "queued" => accepted[t] <= pushFaults,
         pusher' = [pusher EXCEPT ![w] = Remaining(pusher[w], t)],
         delivery' = [delivery EXCEPT ![t] = row],
         UNCHANGED <<accepted, pushFaults>>, device' \in [Devices -> {0, 1, 2}]
  PROVE  PushInv'
<1> DEFINE h == Remaining(pusher[w], t)
<1>1. PushType /\ AtOne /\ RowInv /\ CountInv
  BY DEF PushInv
<1>0. /\ h \in PusherStates /\ h.at = {} /\ h.pc \in {"idle", "next"}
      /\ DOMAIN h.rows = DOMAIN pusher[w].rows \ {t}
  BY <1>1, RemainingRows DEF PushType, Working
<1>2. Shrinks(w, h)
  BY <1>0 DEF Shrinks, Working
<1>3. /\ pusher' \in [PushWorkers -> PusherStates] /\ AtOne'
      /\ \A v \in PushWorkers, u \in Targets :
           /\ Working(v, u)' => Working(v, u)
           /\ v # w => (Took(v, u)' <=> Took(v, u))
           /\ Working(v, u)' /\ u \notin pusher'[v].at => u \notin pusher[v].at
           /\ ~Took(w, u)'
  BY <1>1, <1>2, ShrinkFacts
<1>4. \A v \in PushWorkers : ~Working(v, t)'
  <2>1. pusher'[w] = h
    BY <1>1 DEF PushType
  <2>2. ~Working(w, t)'
    BY <1>0, <2>1 DEF Working
  <2> QED BY <1>1, <1>3, <2>2 DEF RowInv
<1>5. /\ delivery' \in [Targets -> DeliveryRows] /\ delivery'[t] = row
      /\ \A u \in Targets : u # t => delivery'[u] = delivery[u]
  BY <1>1 DEF PushType
<1>6. PushType'
  BY <1>1, <1>3, <1>5 DEF PushType
<1>7. RowInv'
  <2> SUFFICES ASSUME NEW u \in Targets
      PROVE /\ delivery'[u].owner # NoPusher => delivery'[u].status = "queued"
            /\ delivery'[u].lapsed => delivery'[u].owner # NoPusher
            /\ \A v \in PushWorkers : Working(v, u)' =>
                 /\ delivery'[u].owner = v \/ delivery'[u].status \notin {"none", "queued"}
                 /\ ~delivery'[u].lapsed
            /\ \A v, x \in PushWorkers : Working(v, u)' /\ Working(x, u)' => v = x
    BY DEF RowInv
  <2>1. CASE u = t
    BY <1>4, <1>5, <2>1
  <2>2. CASE u # t
    BY <1>1, <1>3, <1>5, <2>2 DEF RowInv
  <2> QED BY <2>1, <2>2
<1>8. CountInv'
  <2> SUFFICES ASSUME NEW u \in Targets
               PROVE  accepted'[u] <= 1 + pushFaults' /\ (Sendable(u)' => accepted'[u] <= pushFaults')
    BY DEF CountInv
  <2>1. accepted[u] <= 1 + pushFaults /\ (Sendable(u) => accepted[u] <= pushFaults)
    BY <1>1 DEF CountInv
  <2>2. CASE u = t
    <3>1. Sendable(t)' => row.status = "queued"
      BY <1>4, <1>5 DEF Sendable, DeliveryRows
    <3> QED BY <2>1, <2>2, <3>1
  <2>3. CASE u # t
    <3>1. ~Took(w, u)
      BY <2>3 DEF Took
    <3>2. Sendable(u)' => Sendable(u)
      BY <1>3, <1>5, <2>3, <3>1 DEF Sendable
    <3> QED BY <2>1, <3>2
  <2> QED BY <2>2, <2>3
<1> QED BY <1>3, <1>6, <1>7, <1>8 DEF PushInv

LEMMA UnlockedRow ==
  ASSUME NEW row \in DeliveryRows, NEW s \in {"queued", "sent", "failed", "cancelled"}
  PROVE  /\ Unlocked(row, s) \in DeliveryRows /\ Unlocked(row, s).owner = NoPusher
         /\ ~Unlocked(row, s).lapsed /\ Unlocked(row, s).status = s
BY DEF Unlocked, DeliveryRows

\* What a claim's first UPDATEs do to a row.
LEMMA SweptRow ==
  ASSUME PushInv, NEW t \in Targets
  PROVE  /\ Swept(t) \in DeliveryRows
         /\ \/ Swept(t) = delivery[t]
            \/ /\ delivery[t].status = "queued" /\ Swept(t).owner = NoPusher /\ ~Swept(t).lapsed
               /\ \/ Swept(t).status = "cancelled"
                  \/ delivery[t].lapsed /\ Swept(t).status = "queued"
<1>1. delivery[t] \in DeliveryRows
  BY DEF PushInv, PushType
<1>2. /\ Unlocked(delivery[t], "cancelled") \in DeliveryRows
      /\ Unlocked(delivery[t], "cancelled").owner = NoPusher
      /\ ~Unlocked(delivery[t], "cancelled").lapsed
      /\ Unlocked(delivery[t], "cancelled").status = "cancelled"
  BY <1>1, UnlockedRow
<1>3. /\ Unlocked(delivery[t], "queued") \in DeliveryRows
      /\ Unlocked(delivery[t], "queued").owner = NoPusher
      /\ ~Unlocked(delivery[t], "queued").lapsed
      /\ Unlocked(delivery[t], "queued").status = "queued"
  BY <1>1, UnlockedRow
<1> QED BY <1>1, <1>2, <1>3 DEF Swept

\* Steps on the table alone: rows appear, wait, are cancelled, or change hands
\* while no worker works on them.
RowMoves(old, new, t) ==
  \/ new = old
  \/ /\ new.owner = NoPusher /\ ~new.lapsed
     /\ <<old.status, new.status>> \in {<<"none", "queued">>, <<"queued", "cancelled">>}
  \/ /\ old.status = "queued" /\ new.status = "queued"
     /\ \/ new.owner = old.owner /\ new.lapsed = old.lapsed
        \/ /\ \A v \in PushWorkers : ~Working(v, t)
           /\ new.lapsed => new.owner # NoPusher

LEMMA QuietRows ==
  ASSUME PushInv, delivery' \in [Targets -> DeliveryRows],
         UNCHANGED <<accepted, pushFaults>>, device' \in [Devices -> {0, 1, 2}],
         pusher' \in [PushWorkers -> PusherStates],
         \A v \in PushWorkers : /\ pusher'[v].at = pusher[v].at
                                /\ \/ pusher'[v] = pusher[v]
                                   \/ pusher[v].pc = "idle" /\ pusher'[v].pc \in {"idle", "claim"},
         \A t \in Targets : RowMoves(delivery[t], delivery'[t], t)
  PROVE  PushInv'
<1>1. PushType /\ AtOne /\ RowInv /\ CountInv
  BY DEF PushInv
<1>2. \A v \in PushWorkers, t \in Targets :
        (Working(v, t)' <=> Working(v, t)) /\ (Took(v, t)' <=> Took(v, t))
  BY DEF Working, Took
<1>3. AtOne'
  BY <1>1 DEF AtOne
<1>4. PushType'
  BY <1>1 DEF PushType
<1>5. ASSUME NEW t \in Targets
      PROVE /\ delivery'[t].owner # NoPusher => delivery'[t].status = "queued"
            /\ delivery'[t].lapsed => delivery'[t].owner # NoPusher
            /\ \A v \in PushWorkers : Working(v, t)' =>
                 /\ delivery'[t].owner = v \/ delivery'[t].status \notin {"none", "queued"}
                 /\ ~delivery'[t].lapsed
            /\ \A v, x \in PushWorkers : Working(v, t)' /\ Working(x, t)' => v = x
  <2>1. /\ delivery[t].owner # NoPusher => delivery[t].status = "queued"
        /\ delivery[t].lapsed => delivery[t].owner # NoPusher
        /\ \A v \in PushWorkers : Working(v, t) =>
             /\ delivery[t].owner = v \/ delivery[t].status \notin {"none", "queued"}
             /\ ~delivery[t].lapsed
        /\ \A v, w \in PushWorkers : Working(v, t) /\ Working(w, t) => v = w
    BY <1>1 DEF RowInv
  <2>2. RowMoves(delivery[t], delivery'[t], t)
    OBVIOUS
  <2> QED BY <1>2, <2>1, <2>2, PushAssumption DEF RowMoves
<1>6. RowInv'
  BY <1>5 DEF RowInv
<1>7. ASSUME NEW t \in Targets PROVE Sendable(t)' => Sendable(t)
  <2>1. delivery'[t].status \in {"none", "queued"} => delivery[t].status \in {"none", "queued"}
    BY DEF RowMoves
  <2> QED BY <1>2, <2>1 DEF Sendable
<1>8. CountInv'
  BY <1>1, <1>7 DEF CountInv
<1> QED BY <1>3, <1>4, <1>6, <1>8 DEF PushInv

LEMMA PushStart == PushInit => PushInv
<1> SUFFICES ASSUME PushInit PROVE PushInv
  OBVIOUS
<1> USE NoRows DEF PushInit
<1>1. NoDelivery \in DeliveryRows
  BY DEF NoDelivery, DeliveryRows
<1>2. PushType
  BY <1>1 DEF PushType
<1>3. AtOne
  BY DEF AtOne
<1>4. RowInv
  BY DEF RowInv, Working, NoDelivery
<1>5. CountInv
  BY DEF CountInv
<1> QED BY <1>2, <1>3, <1>4, <1>5 DEF PushInv

LEMMA PushReads ==
  ASSUME PushInv, NEW w \in PushWorkers, PushRead(w) PROVE PushInv'
<1> DEFINE rows == [t \in Targets |-> Swept(t)]
           candidates == {t \in Targets : Candidate(t, rows[t])}
           h == IF candidates = {} THEN FreePusher
                ELSE [FreePusher EXCEPT !.pc = "claim", !.rows = [t \in candidates |-> device[t[2]]]]
<1>1. /\ pusher[w].pc = "idle" /\ delivery' = rows /\ pusher' = [pusher EXCEPT ![w] = h]
      /\ UNCHANGED <<device, accepted, pushFaults>>
  BY DEF PushRead
<1>2. h \in PusherStates /\ h.pc \in {"idle", "claim"} /\ h.at = {}
  <2>1. [t \in candidates |-> device[t[2]]] \in RowSets
    <3>1. \A t \in candidates : device[t[2]] \in {0, 1, 2}
      BY DEF PushInv, PushType, Targets
    <3>2. [t \in candidates |-> device[t[2]]] \in [candidates -> {0, 1, 2}] /\ candidates \in SUBSET Targets
      BY <3>1
    <3> HIDE DEF candidates
    <3> QED BY <3>2 DEF RowSets
  <2> HIDE DEF candidates
  <2> QED BY <2>1, NoRows DEF FreePusher, PusherStates
<1>3. \A t \in Targets : delivery'[t] = Swept(t)
  BY <1>1
<1>4. delivery' \in [Targets -> DeliveryRows]
  BY <1>1, SweptRow
<1>5. \A t \in Targets : RowMoves(delivery[t], delivery'[t], t)
  <2> SUFFICES ASSUME NEW t \in Targets PROVE RowMoves(delivery[t], Swept(t), t)
    BY <1>3
  <2>1. \/ Swept(t) = delivery[t]
        \/ /\ delivery[t].status = "queued" /\ Swept(t).owner = NoPusher /\ ~Swept(t).lapsed
           /\ \/ Swept(t).status = "cancelled"
              \/ delivery[t].lapsed /\ Swept(t).status = "queued"
    BY SweptRow
  <2>2. delivery[t].lapsed => \A v \in PushWorkers : ~Working(v, t)
    BY DEF PushInv, RowInv
  <2> QED BY <2>1, <2>2 DEF RowMoves
<1>6. pusher' \in [PushWorkers -> PusherStates] /\ pusher'[w] = h
      /\ \A v \in PushWorkers : v # w => pusher'[v] = pusher[v]
  BY <1>1, <1>2 DEF PushInv, PushType
<1>7. pusher[w].at = {}
  BY <1>1 DEF PushInv, AtOne
<1>8. device' \in [Devices -> {0, 1, 2}]
  BY <1>1 DEF PushInv, PushType
<1> HIDE DEF h, rows
<1> QED BY <1>1, <1>2, <1>4, <1>5, <1>6, <1>7, <1>8, QuietRows

LEMMA PushTakes ==
  ASSUME PushInv, NEW w \in PushWorkers, PushTake(w) PROVE PushInv'
<1> DEFINE taken == {t \in DOMAIN pusher[w].rows : Takeable(delivery[t])}
           h == IF taken = {} THEN FreePusher
                ELSE [FreePusher EXCEPT !.pc = "next", !.rows = [t \in taken |-> pusher[w].rows[t]]]
<1>0. PushType /\ AtOne /\ RowInv /\ CountInv
  BY DEF PushInv
<1>1. /\ pusher[w].pc = "claim" /\ pusher' = [pusher EXCEPT ![w] = h]
      /\ delivery' = [t \in Targets |->
           IF t \in taken THEN [delivery[t] EXCEPT !.owner = w, !.retries = @ + 1] ELSE delivery[t]]
      /\ UNCHANGED <<device, accepted, pushFaults>>
  BY DEF PushTake
<1>2. h \in PusherStates /\ h.at = {} /\ DOMAIN h.rows = taken /\ h.pc \in {"idle", "next"}
  <2>1. CASE taken = {}
    BY <2>1, NoRows
  <2>2. CASE taken # {}
    <3> DEFINE rows == [t \in taken |-> pusher[w].rows[t]]
    <3>0. pusher[w] \in PusherStates
      BY <1>0 DEF PushType
    <3>1. PICK S \in SUBSET Targets : pusher[w].rows \in [S -> {0, 1, 2}]
      BY <3>0 DEF PusherStates, RowSets
    <3>2. rows \in [taken -> {0, 1, 2}] /\ taken \in SUBSET Targets /\ DOMAIN rows = taken
      BY <3>1
    <3>3. rows \in RowSets
      <4> HIDE DEF rows, taken
      <4> QED BY <3>2 DEF RowSets
    <3>4. h = [pc |-> "next", rows |-> rows, at |-> {}, answer |-> "none"]
      BY <2>2 DEF FreePusher
    <3> HIDE DEF rows, taken, h
    <3> QED BY <3>2, <3>3, <3>4 DEF PusherStates
  <2> QED BY <2>1, <2>2
<1>3. /\ pusher' \in [PushWorkers -> PusherStates] /\ pusher'[w] = h
      /\ \A v \in PushWorkers : v # w => pusher'[v] = pusher[v]
  BY <1>0, <1>1, <1>2 DEF PushType
<1>4. \A t \in Targets : delivery[t] \in DeliveryRows
  BY <1>0 DEF PushType
<1>5. \A t \in Targets :
        IF t \in taken
        THEN /\ delivery[t].status = "queued" /\ delivery[t].owner = NoPusher
             /\ delivery'[t] \in DeliveryRows
             /\ delivery'[t].status = "queued" /\ delivery'[t].owner = w
             /\ delivery'[t].lapsed = delivery[t].lapsed
        ELSE delivery'[t] = delivery[t]
  <2> SUFFICES ASSUME NEW t \in Targets
      PROVE IF t \in taken
            THEN /\ delivery[t].status = "queued" /\ delivery[t].owner = NoPusher
                 /\ delivery'[t] \in DeliveryRows
                 /\ delivery'[t].status = "queued" /\ delivery'[t].owner = w
                 /\ delivery'[t].lapsed = delivery[t].lapsed
            ELSE delivery'[t] = delivery[t]
    OBVIOUS
  <2>1. t \in taken => delivery[t].status = "queued" /\ delivery[t].owner = NoPusher
    BY DEF Takeable
  <2> HIDE DEF taken
  <2>2. CASE t \in taken
    <3> DEFINE row == [delivery[t] EXCEPT !.owner = w, !.retries = delivery[t].retries + 1]
    <3>1. delivery'[t] = row
      BY <1>1, <2>2
    <3>2. /\ row \in DeliveryRows /\ row.status = delivery[t].status /\ row.owner = w
          /\ row.lapsed = delivery[t].lapsed
      <4>1. delivery[t] \in DeliveryRows
        BY <1>4
      <4>2. delivery[t].retries + 1 \in Nat
        BY <4>1 DEF DeliveryRows
      <4>3. w \in PushWorkers \cup {NoPusher}
        OBVIOUS
      <4>4. row \in DeliveryRows
        BY <4>1, <4>2, <4>3 DEF DeliveryRows
      <4>5. row.status = delivery[t].status /\ row.owner = w /\ row.lapsed = delivery[t].lapsed
        BY <4>1 DEF DeliveryRows
      <4> QED BY <4>4, <4>5
    <3> HIDE DEF row
    <3> QED BY <2>1, <2>2, <3>1, <3>2
  <2>3. CASE t \notin taken
    BY <1>1, <2>3
  <2> QED BY <2>2, <2>3
<1>6. \A v \in PushWorkers, t \in Targets :
        /\ v # w => (Working(v, t)' <=> Working(v, t)) /\ (Took(v, t)' <=> Took(v, t))
        /\ Working(w, t)' => t \in taken
        /\ ~Took(w, t)' /\ ~Took(w, t)
  BY <1>1, <1>2, <1>3 DEF Working, Took
<1>7. \A t \in taken, v \in PushWorkers : t \in Targets => ~Working(v, t) /\ ~delivery[t].lapsed
  BY <1>0, <1>5, PushAssumption DEF RowInv
<1>8. PushType'
  BY <1>0, <1>1, <1>3, <1>4, <1>5 DEF PushType
<1>9. AtOne'
  BY <1>0, <1>2, <1>3 DEF AtOne
<1> HIDE DEF taken, h
<1>10. RowInv'
  <2> SUFFICES ASSUME NEW t \in Targets
      PROVE /\ delivery'[t].owner # NoPusher => delivery'[t].status = "queued"
            /\ delivery'[t].lapsed => delivery'[t].owner # NoPusher
            /\ \A v \in PushWorkers : Working(v, t)' =>
                 /\ delivery'[t].owner = v \/ delivery'[t].status \notin {"none", "queued"}
                 /\ ~delivery'[t].lapsed
            /\ \A v, x \in PushWorkers : Working(v, t)' /\ Working(x, t)' => v = x
    BY DEF RowInv
  <2>1. CASE t \in taken
    BY <1>0, <1>5, <1>6, <1>7, <2>1 DEF RowInv
  <2>2. CASE t \notin taken
    BY <1>0, <1>5, <1>6, <2>2 DEF RowInv
  <2> QED BY <2>1, <2>2
<1>11. ASSUME NEW t \in Targets PROVE Sendable(t)' => Sendable(t)
  <2>1. CASE t \in taken
    <3>1. \A v \in PushWorkers : Took(v, t) => Working(v, t)
      BY <1>0 DEF Took, Working, AtOne
    <3> QED BY <1>5, <1>7, <2>1, <3>1 DEF Sendable
  <2>2. CASE t \notin taken
    <3>1. \A v \in PushWorkers : v # w => pusher'[v].at = pusher[v].at
      BY <1>3
    <3> QED BY <1>5, <1>6, <2>2, <3>1 DEF Sendable
  <2> QED BY <2>1, <2>2
<1>12. CountInv'
  BY <1>0, <1>1, <1>11 DEF CountInv
<1> QED BY <1>8, <1>9, <1>10, <1>12 DEF PushInv

LEMMA PushSends ==
  ASSUME PushInv, NEW w \in PushWorkers, NEW t \in Targets, SendPush(w, t) PROVE PushInv'
<1>0. PushType /\ AtOne /\ RowInv /\ CountInv
  BY DEF PushInv
<1>1. PICK a \in Answers(pusher[w].rows[t] = Token(t[2])) :
        /\ pushFaults' = IF a.says = "unknown" THEN pushFaults + 1 ELSE pushFaults
        /\ accepted' = IF a.took THEN [accepted EXCEPT ![t] = @ + 1] ELSE accepted
        /\ pusher' = [pusher EXCEPT ![w].pc = "report", ![w].at = {t}, ![w].answer = a.says]
  BY DEF SendPush
<1>2. /\ pusher[w].pc = "next" /\ t \in DOMAIN pusher[w].rows /\ UNCHANGED <<delivery, device>>
  BY DEF SendPush
<1> DEFINE h == [pusher[w] EXCEPT !.pc = "report", !.at = {t}, !.answer = a.says]
<1>3. /\ a.says \in {"transient", "permanent", "permanent_token", "accepted", "unknown"}
      /\ a.took \in BOOLEAN
      /\ a.took <=> a.says \in {"accepted", "unknown"}
  <2>1. \/ a = [says |-> "transient", took |-> FALSE]
        \/ a = [says |-> "permanent", took |-> FALSE]
        \/ a = [says |-> "permanent_token", took |-> FALSE]
        \/ a = [says |-> "accepted", took |-> TRUE]
        \/ a = [says |-> "unknown", took |-> TRUE]
    BY DEF Answers
  <2>2. CASE a = [says |-> "transient", took |-> FALSE]
    BY <2>2
  <2>3. CASE a = [says |-> "permanent", took |-> FALSE]
    BY <2>3
  <2>4. CASE a = [says |-> "permanent_token", took |-> FALSE]
    BY <2>4
  <2>5. CASE a = [says |-> "accepted", took |-> TRUE]
    BY <2>5
  <2>6. CASE a = [says |-> "unknown", took |-> TRUE]
    BY <2>6
  <2> QED BY <2>1, <2>2, <2>3, <2>4, <2>5, <2>6
<1>4. pusher[w] \in PusherStates
  BY <1>0 DEF PushType
<1>5. /\ h \in PusherStates /\ h.pc = "report" /\ h.at = {t} /\ h.answer = a.says
      /\ h.rows = pusher[w].rows
  BY <1>3, <1>4 DEF PusherStates
<1>6. pusher' = [pusher EXCEPT ![w] = h]
  BY <1>1
<1> HIDE DEF h
<1>7. /\ pusher' \in [PushWorkers -> PusherStates] /\ pusher'[w] = h
      /\ \A v \in PushWorkers : v # w => pusher'[v] = pusher[v]
  BY <1>0, <1>5, <1>6 DEF PushType
<1>8. pushFaults' \in Nat /\ pushFaults <= pushFaults' /\ pushFaults \in Nat
  BY <1>0, <1>1 DEF PushType
<1>9. accepted' \in [Targets -> Nat] /\ \A u \in Targets : u # t => accepted'[u] = accepted[u]
  BY <1>0, <1>1, <1>3 DEF PushType
<1>10. PushType'
  BY <1>0, <1>2, <1>7, <1>8, <1>9 DEF PushType
<1>11. AtOne'
  BY <1>0, <1>2, <1>5, <1>7 DEF AtOne
<1>12. \A v \in PushWorkers, u \in Targets :
         /\ Working(v, u)' <=> Working(v, u)
         /\ v # w => pusher'[v] = pusher[v]
         /\ ~Took(w, u)
         /\ Took(w, u)' <=> u = t /\ a.says = "accepted"
  BY <1>2, <1>5, <1>7 DEF Working, Took
<1>13. RowInv'
  BY <1>0, <1>2, <1>12 DEF RowInv
<1>14. Working(w, t) /\ Sendable(t)
  BY <1>0, <1>2 DEF Working, Sendable, AtOne
<1>15. \A u \in Targets : accepted[u] \in Nat /\ accepted[u] <= 1 + pushFaults
                           /\ (Sendable(u) => accepted[u] <= pushFaults)
  BY <1>0 DEF CountInv, PushType
<1>16. ASSUME NEW u \in Targets, u # t
       PROVE  accepted'[u] <= 1 + pushFaults' /\ (Sendable(u)' => accepted'[u] <= pushFaults')
  <2>1. Sendable(u)' => Sendable(u)
    BY <1>2, <1>7, <1>12, <1>16, <1>0 DEF Sendable, Took, AtOne
  <2> QED BY <1>8, <1>9, <1>15, <1>16, <2>1
<1>17. accepted'[t] <= 1 + pushFaults' /\ (Sendable(t)' => accepted'[t] <= pushFaults')
  <2>1. CASE a.says = "accepted"
    <3>1. accepted'[t] = accepted[t] + 1 /\ pushFaults' = pushFaults
      BY <1>0, <1>1, <1>3, <2>1 DEF PushType
    <3>2. ~Sendable(t)'
      <4>1. Took(w, t)'
        BY <1>12, <2>1
      <4>2. \A v \in PushWorkers : Working(v, t)' => v = w
        BY <1>12, <1>14, <1>0 DEF RowInv
      <4>3. t \in pusher'[w].at
        BY <1>5, <1>7
      <4> QED BY <4>1, <4>2, <4>3 DEF Sendable
    <3> QED BY <1>8, <1>14, <1>15, <3>1, <3>2
  <2>2. CASE a.says = "unknown"
    <3>1. accepted'[t] = accepted[t] + 1 /\ pushFaults' = pushFaults + 1
      BY <1>0, <1>1, <1>3, <2>2 DEF PushType
    <3> QED BY <1>8, <1>14, <1>15, <3>1
  <2>3. CASE a.says \notin {"accepted", "unknown"}
    <3>1. accepted'[t] = accepted[t] /\ pushFaults' = pushFaults
      BY <1>1, <1>3, <2>3
    <3> QED BY <1>8, <1>14, <1>15, <3>1
  <2> QED BY <2>1, <2>2, <2>3
<1>18. CountInv'
  BY <1>16, <1>17 DEF CountInv
<1> QED BY <1>10, <1>11, <1>13, <1>18 DEF PushInv

\* The row a worker reports on is the one it works on.
LEMMA InHand ==
  ASSUME PushInv, NEW w \in PushWorkers, NEW t \in Targets, pusher[w].pc = "report", t \in pusher[w].at
  PROVE  Working(w, t) /\ pusher[w].at \subseteq {t}
BY DEF PushInv, AtOne, Working

LEMMA IdleShrinks == \A w \in PushWorkers : Shrinks(w, FreePusher)
BY NoRows DEF Shrinks

LEMMA RemainingShrinks ==
  ASSUME PushInv, NEW w \in PushWorkers, NEW t \in Targets, Working(w, t), pusher[w].at \subseteq {t}
  PROVE  Shrinks(w, Remaining(pusher[w], t))
<1>1. pusher[w] \in PusherStates /\ t \in DOMAIN pusher[w].rows
  BY DEF PushInv, PushType, Working
<1> QED BY <1>1, RemainingRows DEF Shrinks, Working

LEMMA PushCancels ==
  ASSUME PushInv, NEW w \in PushWorkers, NEW t \in Targets, CancelPush(w, t) PROVE PushInv'
<1>1. /\ pusher[w].pc = "next" /\ t \in DOMAIN pusher[w].rows
      /\ UNCHANGED <<device, accepted, pushFaults>>
  BY DEF CancelPush
<1>2. Working(w, t) /\ pusher[w].at = {} /\ \A u \in Targets : ~Took(w, u)
  BY <1>1 DEF Working, Took, PushInv, AtOne
<1>3. delivery[t] \in DeliveryRows /\ device' \in [Devices -> {0, 1, 2}] /\ pushFaults \in Nat
  BY <1>1 DEF PushInv, PushType
<1>4. CASE Held(delivery[t], w)
  <2>1. /\ delivery' = [delivery EXCEPT ![t] = Unlocked(delivery[t], "cancelled")]
        /\ pusher' = [pusher EXCEPT ![w] = Remaining(pusher[w], t)]
    BY <1>4, <1>3 DEF CancelPush, PushInv, PushType
  <2> QED BY <1>1, <1>2, <1>3, <2>1, UnlockedRow, Settles
<1>5. CASE ~Held(delivery[t], w)
  <2>1. delivery' = delivery /\ pusher' = [pusher EXCEPT ![w] = FreePusher]
    BY <1>5 DEF CancelPush, Interrupted
  <2>2. Shrinks(w, FreePusher)
    BY IdleShrinks
  <2>3. pushFaults' \in Nat /\ pushFaults <= pushFaults' /\ accepted' = accepted
    BY <1>1, <1>3
  <2> QED BY <1>2, <1>3, <2>1, <2>2, <2>3, LetsGo
<1> QED BY <1>4, <1>5

LEMMA PushAccepts ==
  ASSUME PushInv, NEW w \in PushWorkers, NEW t \in Targets, ReportAccepted(w, t) PROVE PushInv'
<1>1. /\ pusher[w].pc = "report" /\ t \in pusher[w].at /\ UNCHANGED <<device, accepted, pushFaults>>
  BY DEF ReportAccepted
<1>2. Working(w, t) /\ pusher[w].at \subseteq {t}
  BY <1>1, InHand
<1>3. delivery[t] \in DeliveryRows /\ device' \in [Devices -> {0, 1, 2}] /\ pushFaults \in Nat
  BY <1>1 DEF PushInv, PushType
<1>4. CASE Held(delivery[t], w)
  <2>1. /\ delivery' = [delivery EXCEPT ![t] = Unlocked(delivery[t], "sent")]
        /\ pusher' = [pusher EXCEPT ![w] = Remaining(pusher[w], t)]
    BY <1>4, <1>3 DEF ReportAccepted, PushInv, PushType
  <2> QED BY <1>1, <1>2, <1>3, <2>1, UnlockedRow, Settles
<1>5. CASE ~Held(delivery[t], w)
  <2>1. delivery' = delivery /\ pusher' = [pusher EXCEPT ![w] = FreePusher]
    BY <1>5 DEF ReportAccepted, Interrupted
  <2>2. delivery[t].status \notin {"none", "queued"}
    BY <1>2, <1>5, PushAssumption DEF Held, PushInv, RowInv
  <2>3. \A u \in Targets : Took(w, u) => u = t
    BY <1>2 DEF Took
  <2>4. \A u \in Targets : ~(Took(w, u) /\ delivery[u].status \in {"none", "queued"})
    BY <2>2, <2>3
  <2>5. Shrinks(w, FreePusher)
    BY IdleShrinks
  <2>6. pushFaults' \in Nat /\ pushFaults <= pushFaults' /\ accepted' = accepted
    BY <1>1, <1>3
  <2> QED BY <1>3, <2>1, <2>4, <2>5, <2>6, LetsGo
<1> QED BY <1>4, <1>5

LEMMA PushFails ==
  ASSUME PushInv, NEW w \in PushWorkers, NEW t \in Targets, ReportFailed(w, t) PROVE PushInv'
<1> DEFINE says == pusher[w].answer
           row == AfterFailure(delivery[t], says)
<1>1. /\ pusher[w].pc = "report" /\ t \in pusher[w].at /\ says # "accepted"
      /\ UNCHANGED <<accepted, pushFaults>>
  BY DEF ReportFailed
<1>2. Working(w, t) /\ pusher[w].at \subseteq {t} /\ \A u \in Targets : ~Took(w, u)
  BY <1>1, InHand DEF Took
<1>3. delivery[t] \in DeliveryRows /\ pushFaults \in Nat
  BY DEF PushInv, PushType
<1>4. device' \in [Devices -> {0, 1, 2}]
  <2>1. device' = device \/ device' = [device EXCEPT ![t[2]] = 0]
    BY DEF ReportFailed
  <2> QED BY <2>1 DEF PushInv, PushType
<1>5. CASE delivery[t].owner = w
  <2>1. /\ delivery' = [delivery EXCEPT ![t] = row]
        /\ pusher' = [pusher EXCEPT ![w] = Remaining(pusher[w], t)]
    BY <1>5, <1>3 DEF ReportFailed, PushInv, PushType
  <2>2. /\ row \in DeliveryRows /\ row.owner = NoPusher /\ ~row.lapsed
        /\ row.status \in {"queued", "failed"}
    <3> DEFINE q == Unlocked(delivery[t], "queued")
               f == Unlocked(delivery[t], "failed")
    <3>1. q \in DeliveryRows /\ q.owner = NoPusher /\ ~q.lapsed /\ q.status = "queued"
      BY <1>3, UnlockedRow
    <3>2. f \in DeliveryRows /\ f.owner = NoPusher /\ ~f.lapsed /\ f.status = "failed"
      BY <1>3, UnlockedRow
    <3>3. row = f \/ row = [q EXCEPT !.due = FALSE]
      BY DEF AfterFailure
    <3> HIDE DEF q, f, row
    <3> QED BY <3>1, <3>2, <3>3 DEF DeliveryRows
  <2>3. accepted[t] <= pushFaults
    <3>1. delivery[t].status = "queued"
      BY <1>5, PushAssumption DEF PushInv, RowInv
    <3>2. \A v \in PushWorkers : Took(v, t) => Working(v, t)
      BY DEF Took, Working, PushInv, AtOne
    <3>3. \A v \in PushWorkers : ~Took(v, t)
      BY <1>2, <3>2 DEF PushInv, RowInv
    <3> QED BY <3>1, <3>3 DEF Sendable, PushInv, CountInv
  <2> HIDE DEF row
  <2> QED BY <1>1, <1>2, <1>4, <2>1, <2>2, <2>3, Settles
<1>6. CASE delivery[t].owner # w
  <2>1. /\ delivery' = delivery
        /\ \/ pusher' = [pusher EXCEPT ![w] = FreePusher]
           \/ pusher' = [pusher EXCEPT ![w] = Remaining(pusher[w], t)]
    BY <1>6 DEF ReportFailed, Interrupted, PushInv, PushType
  <2>2. Shrinks(w, FreePusher) /\ Shrinks(w, Remaining(pusher[w], t))
    BY <1>2, IdleShrinks, RemainingShrinks
  <2> QED BY <1>1, <1>2, <1>3, <1>4, <2>1, <2>2, LetsGo
<1> QED BY <1>5, <1>6

\* Deliveries come into being with their notification.
NoticeInv ==
  /\ notice \in [Notices -> {"none", "active", "obsolete", "ended"}]
  /\ \A t \in Targets : notice[t[1]] = "none" => delivery[t].status = "none"

LEMMA NoticeStep ==
  ASSUME PushInv, NoticeInv, [PushNext]_pushVars PROVE NoticeInv'
<1>0. /\ delivery \in [Targets -> DeliveryRows]
      /\ \A t \in Targets : t[1] \in Notices
  BY DEF PushInv, PushType, Targets
<1>1. ASSUME notice' = notice,
             \A t \in Targets : delivery[t].status = "none" => delivery'[t].status = "none"
      PROVE  NoticeInv'
  BY <1>1 DEF NoticeInv
<1>2. ASSUME NEW n \in Notices, NEW targets \in SUBSET Devices, Notify(n, targets) PROVE NoticeInv'
  <2>1. \A t \in Targets : t[1] # n => delivery'[t] = delivery[t]
    BY <1>2 DEF Notify
  <2>2. notice' = [notice EXCEPT ![n] = "active"]
    BY <1>2 DEF Notify
  <2> QED BY <1>0, <2>1, <2>2 DEF NoticeInv
<1>3. ASSUME NEW n \in Notices, BecomesObsolete(n) \/ NoticeEnds(n) PROVE NoticeInv'
  <2>1. /\ notice[n] # "none" /\ delivery' = delivery
        /\ \E s \in {"obsolete", "ended"} : notice' = [notice EXCEPT ![n] = s]
    BY <1>3 DEF BecomesObsolete, NoticeEnds
  <2> QED BY <1>0, <2>1 DEF NoticeInv
<1>4. ASSUME NEW d \in Devices, TokenDies(d) \/ Register(d) PROVE NoticeInv'
  BY <1>1, <1>4 DEF TokenDies, Register
<1>5. ASSUME NEW t \in Targets, PushBackoffEnds(t) \/ PushLapses(t) PROVE NoticeInv'
  <2>1. /\ notice' = notice /\ delivery[t].status # "none"
        /\ \A u \in Targets : u # t => delivery'[u] = delivery[u]
    BY <1>0, <1>5, PushAssumption DEF PushBackoffEnds, PushLapses, PushInv, RowInv
  <2> QED BY <1>1, <2>1
<1>6. ASSUME NEW w \in PushWorkers, PushRead(w) PROVE NoticeInv'
  <2>1. notice' = notice /\ \A t \in Targets : delivery'[t] = Swept(t)
    BY <1>6 DEF PushRead
  <2>2. \A t \in Targets : delivery[t].status = "none" => Swept(t) = delivery[t]
    BY SweptRow
  <2> QED BY <1>1, <2>1, <2>2
<1>7. ASSUME NEW w \in PushWorkers, PushTake(w) PROVE NoticeInv'
  <2>1. notice' = notice /\ \A t \in Targets : delivery[t].status = "none" => delivery'[t] = delivery[t]
    BY <1>7 DEF PushTake, Takeable
  <2> QED BY <1>1, <2>1
<1>8. ASSUME NEW w \in PushWorkers, NEW t \in Targets,
             CancelPush(w, t) \/ SendPush(w, t) \/ ReportAccepted(w, t) \/ ReportFailed(w, t)
      PROVE  NoticeInv'
  <2>1. notice' = notice /\ \A u \in Targets : u # t => delivery'[u] = delivery[u]
    BY <1>0, <1>8 DEF CancelPush, SendPush, ReportAccepted, ReportFailed
  <2>2. delivery'[t] = delivery[t] \/ delivery[t].status # "none"
    BY <1>0, <1>8, PushAssumption
       DEF CancelPush, SendPush, ReportAccepted, ReportFailed, Held, PushInv, RowInv
  <2> QED BY <1>1, <2>1, <2>2
<1>9. ASSUME NEW w \in PushWorkers, PusherDies(w) PROVE NoticeInv'
  BY <1>1, <1>9 DEF PusherDies
<1>10. CASE UNCHANGED pushVars
  BY <1>1, <1>10 DEF pushVars
<1> QED BY <1>2, <1>3, <1>4, <1>5, <1>6, <1>7, <1>8, <1>9, <1>10 DEF PushNext, Pushes

LEMMA PushStep ==
  ASSUME PushInv, NoticeInv, [PushNext]_pushVars PROVE PushInv'
<1> USE PushAssumption
<1>0. /\ delivery \in [Targets -> DeliveryRows] /\ device \in [Devices -> {0, 1, 2}]
      /\ pusher \in [PushWorkers -> PusherStates]
  BY DEF PushInv, PushType
<1>1. ASSUME UNCHANGED <<delivery, pusher, accepted, pushFaults>>, device' \in [Devices -> {0, 1, 2}]
      PROVE PushInv'
  BY <1>0, <1>1, QuietRows DEF RowMoves
<1>2. ASSUME NEW n \in Notices, NEW targets \in SUBSET Devices, Notify(n, targets) PROVE PushInv'
  <2> DEFINE fresh == [NoDelivery EXCEPT !.status = "queued", !.due = TRUE]
  <2>1. fresh \in DeliveryRows /\ fresh.status = "queued" /\ fresh.owner = NoPusher /\ ~fresh.lapsed
    BY DEF NoDelivery, DeliveryRows
  <2>2. /\ delivery' = [t \in Targets |-> IF t[1] = n /\ t[2] \in targets THEN fresh ELSE delivery[t]]
        /\ notice[n] = "none" /\ UNCHANGED <<device, pusher, accepted, pushFaults>>
    BY <1>2 DEF Notify
  <2> HIDE DEF fresh
  <2>3. \A t \in Targets : RowMoves(delivery[t], delivery'[t], t)
    BY <2>1, <2>2 DEF RowMoves, NoticeInv
  <2>4. delivery' \in [Targets -> DeliveryRows]
    BY <1>0, <2>1, <2>2
  <2> QED BY <1>0, <2>2, <2>3, <2>4, QuietRows
<1>3. ASSUME NEW n \in Notices, BecomesObsolete(n) \/ NoticeEnds(n) PROVE PushInv'
  BY <1>0, <1>1, <1>3 DEF BecomesObsolete, NoticeEnds
<1>4. ASSUME NEW d \in Devices, TokenDies(d) \/ Register(d) PROVE PushInv'
  BY <1>0, <1>1, <1>4 DEF TokenDies, Register, Token
<1>5. ASSUME NEW t \in Targets, PushBackoffEnds(t) \/ PushLapses(t) PROVE PushInv'
  <2> DEFINE due == [delivery[t] EXCEPT !.due = TRUE]
             late == [delivery[t] EXCEPT !.lapsed = TRUE]
  <2>1. /\ due \in DeliveryRows /\ due.status = delivery[t].status /\ due.owner = delivery[t].owner
        /\ due.lapsed = delivery[t].lapsed
        /\ late \in DeliveryRows /\ late.status = delivery[t].status /\ late.owner = delivery[t].owner
    <3>1. delivery[t] \in DeliveryRows
      BY <1>0
    <3> QED BY <3>1 DEF DeliveryRows
  <2>2. UNCHANGED <<device, pusher, accepted, pushFaults>>
    BY <1>5 DEF PushBackoffEnds, PushLapses
  <2>3. CASE PushBackoffEnds(t)
    <3>1. delivery' = [delivery EXCEPT ![t] = due] /\ delivery[t].status = "queued"
      BY <2>3 DEF PushBackoffEnds
    <3> HIDE DEF due, late
    <3>2. \A u \in Targets : RowMoves(delivery[u], delivery'[u], u)
      BY <1>0, <2>1, <3>1 DEF RowMoves
    <3> QED BY <1>0, <2>1, <2>2, <3>1, <3>2, QuietRows
  <2>4. CASE PushLapses(t)
    <3>1. delivery' = [delivery EXCEPT ![t] = late] /\ delivery[t].owner # NoPusher
      BY <2>4 DEF PushLapses
    <3>2. delivery[t].status = "queued" /\ \A v \in PushWorkers : ~Working(v, t)
      BY <2>4, <3>1 DEF PushLapses, AbandonedRow, PushInv, RowInv, Working
    <3> HIDE DEF due, late
    <3>3. \A u \in Targets : RowMoves(delivery[u], delivery'[u], u)
      BY <1>0, <2>1, <3>1, <3>2 DEF RowMoves
    <3> QED BY <1>0, <2>1, <2>2, <3>1, <3>3, QuietRows
  <2> QED BY <1>5, <2>3, <2>4
<1>6. ASSUME NEW w \in PushWorkers, Pushes(w) PROVE PushInv'
  BY <1>6, PushReads, PushTakes, PushCancels, PushSends, PushAccepts, PushFails DEF Pushes
<1>7. ASSUME NEW w \in PushWorkers, PusherDies(w) PROVE PushInv'
  <2>1. /\ pusher' = [pusher EXCEPT ![w] = FreePusher] /\ pushFaults' = pushFaults + 1
        /\ UNCHANGED <<delivery, device, accepted>>
    BY <1>7 DEF PusherDies, Interrupted
  <2>2. pushFaults' \in Nat /\ pushFaults <= pushFaults'
        /\ \A t \in Targets : accepted[t] <= pushFaults'
    BY <2>1 DEF PushInv, PushType, CountInv
  <2> QED BY <1>0, <2>1, <2>2, IdleShrinks, LetsGo
<1>8. CASE UNCHANGED pushVars
  BY <1>0, <1>1, <1>8 DEF pushVars
<1> QED BY <1>2, <1>3, <1>4, <1>5, <1>6, <1>7, <1>8 DEF PushNext

\* The provider takes a message again only after a worker died or an answer was
\* lost, for any notifications, devices, workers and bounds.
THEOREM RepeatsAreExcused == PushSpec => []RepeatsNeedFaults
<1>1. PushInit => NoticeInv
  BY DEF PushInit, NoticeInv, NoDelivery, Targets
<1>2. PushInv /\ NoticeInv /\ [PushNext]_pushVars => (PushInv /\ NoticeInv)'
  BY PushStep, NoticeStep
<1>3. PushInv => RepeatsNeedFaults
  BY DEF PushInv, CountInv, RepeatsNeedFaults
<1> QED BY <1>1, <1>2, <1>3, PushStart, PTL DEF PushSpec
=============================================================================
