------------------------------ MODULE Accounts ------------------------------
(***************************************************************************)
(* How people get an account: requests of the API, whose verified identity *)
(* is provisioned when it is first seen (identity.py, get_or_create_user), *)
(* and the entry screen of the web application (layout.py): guests,        *)
(* sign-up, and log-in, which renews the verifier of older accounts.       *)
(*                                                                         *)
(* A request or a form reads the accounts first and inserts later, in a    *)
(* transaction of its own: from INSERT to COMMIT its id and its email are  *)
(* held, and another INSERT of one of them waits (UNIQUE indexes).         *)
(***************************************************************************)
EXTENDS Naturals, FiniteSets

CONSTANTS
  Subjects,      \* identities that Firebase verifies
  LocalIds,      \* identities drawn at random for guests and sign-ups
  Emails,        \* addresses of people; a guest's is its own id
  EmailOf,       \* the address in the token of a subject
  Callers,       \* requests and browser sessions
  Somebody,      \* no caller, no account
  MaxCrashes     \* bound: processes or connections that die

ASSUME AccountsAssumption ==
  /\ EmailOf \in [Subjects -> Emails] /\ MaxCrashes \in Nat
  /\ Subjects \cap LocalIds = {} /\ Emails \cap LocalIds = {}

VARIABLES
  user,      \* users, each with its row in user_profiles
  entry,     \* what each caller has under way
  web,       \* the account each browser session is signed in to
  held,      \* ids and addresses inserted and not committed
  served,    \* subjects whose request has been let in
  crashes    \* deaths so far

entryVars == <<user, entry, web, held, served, crashes>>

Ids == Subjects \cup LocalIds

\* The verifier of a password: none, of the older format, of the present one.
NoUser == [email |-> Somebody, verifier |-> "none", disabled |-> FALSE]

AtDoor == [pc |-> "idle", id |-> Somebody, email |-> Somebody, verifier |-> "none"]

Known(i) == user[i] # NoUser

Older(e) == [email |-> e, verifier |-> "old", disabled |-> FALSE]

\* Nobody, or somebody who signed up long ago.
EntryInit ==
  /\ \/ user = [i \in Ids |-> NoUser]
     \/ \E i \in LocalIds, e \in Emails : user = [j \in Ids |-> IF j = i THEN Older(e) ELSE NoUser]
  /\ entry = [c \in Callers |-> AtDoor]
  /\ web = [c \in Callers |-> Somebody]
  /\ held = {} /\ served = {} /\ crashes = 0

Registered(e) == \E i \in Ids : Known(i) /\ user[i].email = e

To(c, pc, i, e, v) == entry' = [entry EXCEPT ![c] = [pc |-> pc, id |-> i, email |-> e, verifier |-> v]]

-----------------------------------------------------------------------------
\* get_or_create_user_from_principal: an account that is not there is created,
\* one that is disabled is refused.
Ask(c, p) ==
  /\ entry[c] = AtDoor
  /\ IF ~Known(p)
     THEN To(c, "new", p, EmailOf[p], "none") /\ UNCHANGED served
     ELSE /\ served' = IF user[p].disabled THEN served ELSE served \cup {p}
          /\ UNCHANGED entry
  /\ UNCHANGED <<user, web, held, crashes>>

\* An identity drawn at random is nobody's.
Drawn(i) == ~Known(i) /\ \A c \in Callers : entry[c].id # i

\* sign_up: an address that is registered is told so.
SignUp(c, i, e) ==
  /\ entry[c] = AtDoor /\ web[c] = Somebody
  /\ Drawn(i) /\ ~Registered(e)
  /\ To(c, "new", i, e, "new")
  /\ UNCHANGED <<user, web, held, served, crashes>>

\* create_guest_user
Guest(c, i) ==
  /\ entry[c] = AtDoor /\ web[c] = Somebody
  /\ Drawn(i)
  /\ To(c, "new", i, i, "none")
  /\ UNCHANGED <<user, web, held, served, crashes>>

\* create_user: INSERT of the user and of its profile; a duplicate fails.
Insert(c) ==
  LET q == entry[c] IN
  /\ q.pc = "new" /\ {q.id, q.email} \cap held = {}
  /\ IF Known(q.id) \/ Registered(q.email)
     THEN entry' = [entry EXCEPT ![c] = AtDoor] /\ UNCHANGED held
     ELSE /\ entry' = [entry EXCEPT ![c].pc = "inserted"]
          /\ held' = held \cup {q.id, q.email}
  /\ UNCHANGED <<user, web, served, crashes>>

LetIn(c, i) ==
  IF i \in Subjects THEN served' = served \cup {i} /\ UNCHANGED web
  ELSE web' = [web EXCEPT ![c] = i] /\ UNCHANGED served

CommitInsert(c) ==
  /\ entry[c].pc = "inserted"
  /\ user' = [user EXCEPT ![entry[c].id] = [email |-> entry[c].email, disabled |-> FALSE,
                                            verifier |-> entry[c].verifier]]
  /\ entry' = [entry EXCEPT ![c] = AtDoor]
  /\ held' = held \ {entry[c].id, entry[c].email}
  /\ LetIn(c, entry[c].id)
  /\ UNCHANGED crashes

\* log_in with the password of the account: a verifier of the older format is
\* replaced first.
LogIn(c, i) ==
  /\ entry[c] = AtDoor /\ web[c] = Somebody
  /\ Known(i) /\ user[i].verifier # "none" /\ ~user[i].disabled
  /\ IF user[i].verifier = "old"
     THEN To(c, "rehash", i, user[i].email, "new") /\ UNCHANGED web
     ELSE web' = [web EXCEPT ![c] = i] /\ UNCHANGED entry
  /\ UNCHANGED <<user, held, served, crashes>>

Rehash(c) ==
  /\ entry[c].pc = "rehash"
  /\ user' = [user EXCEPT ![entry[c].id].verifier = "new"]
  /\ web' = [web EXCEPT ![c] = entry[c].id]
  /\ entry' = [entry EXCEPT ![c] = AtDoor]
  /\ UNCHANGED <<held, served, crashes>>

\* Mutant of Released: a connection keeps its rows when its user has died.
ReleasedLater(c) == held

\* transaction() and UnitOfWork.__exit__ roll back.
Released(c) ==
  IF entry[c].pc = "inserted" THEN held \ {entry[c].id, entry[c].email} ELSE held

\* The request fails or its process dies, before it has committed.
Die(c) ==
  /\ crashes < MaxCrashes /\ entry[c] # AtDoor
  /\ crashes' = crashes + 1
  /\ entry' = [entry EXCEPT ![c] = AtDoor]
  /\ held' = Released(c)
  /\ UNCHANGED <<user, web, served>>

\* Operators set is_disabled, outside of this code.
Disable(i) ==
  /\ Known(i) /\ ~user[i].disabled
  /\ user' = [user EXCEPT ![i].disabled = TRUE]
  /\ UNCHANGED <<entry, web, held, served, crashes>>

Ends(c) == Insert(c) \/ CommitInsert(c) \/ Rehash(c)

EntryNext ==
  \/ \E c \in Callers :
       \/ \E p \in Subjects : Ask(c, p)
       \/ \E i \in LocalIds : Guest(c, i) \/ \E e \in Emails : SignUp(c, i, e)
       \/ \E i \in Ids : LogIn(c, i)
       \/ Ends(c) \/ Die(c)
  \/ \E i \in Ids : Disable(i)

\* Clients repeat a request that failed; what has begun ends or fails.
EntryFairness ==
  /\ \A p \in Subjects : WF_entryVars(\E c \in Callers : Ask(c, p))
  /\ \A c \in Callers : WF_entryVars(Ends(c))

-----------------------------------------------------------------------------
\* "Safe to call repeatedly": a verified identity is let in in the end, however
\* its first requests race or die, unless it is disabled or its address belongs
\* to another account.
EveryPrincipalGetsIn ==
  \A p \in Subjects :
    <>(\/ p \in served \/ user[p].disabled
       \/ \E i \in Ids \ {p} : user[i].email = EmailOf[p])
=============================================================================
