------------------------------- MODULE SignIn -------------------------------
(***************************************************************************)
(* One person signing in (routers/auth): login codes (auth_email), the     *)
(* account a proven address stands for (accounts.ensure_account), the      *)
(* sessions opened for it (sessions) and the requests that use them        *)
(* (main.authenticate_request).                                            *)
(*                                                                         *)
(* A door is one sign-in request in progress; every step of one ends with  *)
(* a read or a commit.  What a database session holds is not refreshed by  *)
(* its own commits (expire_on_commit=False).  The signature of a token and *)
(* the claims in it (security.authenticate_bearer) say which session it    *)
(* names, which is all that is kept of it.                                 *)
(***************************************************************************)
EXTENDS Integers, FiniteSets, Sequences

CONSTANTS
    Doors,              \* sign-in requests
    Requests,           \* requests with a token
    Ttl,                \* CODE_TTL_MINUTES, in ticks
    Hour,               \* the hour of MAX_CODES_PER_HOUR, in ticks
    MaxCodesPerHour,    \* MAX_CODES_PER_HOUR
    MaxAttempts,        \* MAX_ATTEMPTS
    SessionLife,        \* session_days, in ticks
    TouchAfter,         \* TOUCH_AFTER_SECONDS, in ticks
    LastTick, MaxCodes, MaxSessions     \* bounds

ASSUME SignInAssumption ==
    /\ IsFiniteSet(Doors)
    /\ Ttl \in Nat /\ Hour \in Nat /\ MaxCodesPerHour \in Nat \ {0} /\ MaxAttempts \in Nat \ {0}
    /\ SessionLife \in Nat /\ TouchAfter \in Nat
    /\ LastTick \in Nat /\ MaxCodes \in Nat /\ MaxSessions \in Nat

VARIABLES
    now,
    codes,      \* login_codes of the address, oldest first
    user,       \* whether users holds the address
    stores,     \* how many stores the user has
    sessions,   \* token_sessions of the user, oldest first
    door,       \* what each sign-in holds
    request,    \* what each request with a token holds
    raced,      \* history: two sign-ins looked for the store and found none
    crowded     \* history: two requests for a code overlapped

vars == <<now, codes, user, stores, sessions, door, request, raced, crowded>>

Ticks == 0..LastTick
CodeIds == 1..MaxCodes
StoreIds == 1..Cardinality(Doors)

\* uses and shared are histories: sign-ins the code proved, and whether two
\* of them ever held it at once.
Codes == [attempts : 0..MaxAttempts, created : Ticks, consumed : BOOLEAN,
          uses : Nat, shared : BOOLEAN]
Sessions == [store : StoreIds, opened : Ticks, seen : Ticks, revoked : BOOLEAN]

Idle == [phase |-> "idle"]
Asking == [phase : {"asking"}, pending : SUBSET CodeIds]
Verifying == [phase : {"found", "counted"}, code : CodeIds, attempts : 0..MaxAttempts,
              newest : BOOLEAN]
Proven == [phase : {"proven", "no_user", "user", "no_store"}]
AtHome == [phase : {"store"}, store : StoreIds]
Using == [phase : {"checked", "admitted"}, session : 1..MaxSessions]
Ending == [phase : {"ending"}, others : SUBSET (1..MaxSessions)]

TypeOK ==
    /\ now \in Ticks
    /\ codes \in Seq(Codes) /\ Len(codes) <= MaxCodes
    /\ user \in BOOLEAN
    /\ stores \in {0} \cup StoreIds
    /\ sessions \in Seq(Sessions) /\ Len(sessions) <= MaxSessions
    /\ door \in [Doors -> {Idle} \cup Asking \cup Verifying \cup Proven \cup AtHome]
    /\ request \in [Requests -> {Idle} \cup Using \cup Ending]
    /\ raced \in BOOLEAN /\ crowded \in BOOLEAN

Init ==
    /\ now = 0
    /\ codes = <<>>
    /\ user = FALSE
    /\ stores = 0
    /\ sessions = <<>>
    /\ door = [d \in Doors |-> Idle]
    /\ request = [r \in Requests |-> Idle]
    /\ raced = FALSE
    /\ crowded = FALSE

Account == <<user, stores, raced>>
SignedIn == <<sessions, request>>

Tick ==
    /\ now < LastTick
    /\ now' = now + 1
    /\ UNCHANGED <<codes, door, crowded, Account, SignedIn>>

Move(d, to) == door' = [door EXCEPT ![d] = to]

---------------------------------------------------------------------------
(* Asking for a code.                                                      *)

Pending == {i \in DOMAIN codes : ~codes[i].consumed}

\* The newest codes are all of the last hour, and as many as it allows.
TooMany ==
    Cardinality({i \in DOMAIN codes : codes[i].created > now - Hour}) >= MaxCodesPerHour

AskForCode(d) ==
    /\ door[d] = Idle
    /\ ~TooMany
    /\ Move(d, [phase |-> "asking", pending |-> Pending])
    /\ crowded' = (crowded \/ \E e \in Doors : door[e].phase = "asking")
    /\ UNCHANGED <<now, codes, Account, SignedIn>>

NewCode == [attempts |-> 0, created |-> now, consumed |-> FALSE, uses |-> 0, shared |-> FALSE]

\* Mutant: the codes sent before stay good.
IssueAnother(d) ==
    /\ door[d].phase = "asking"
    /\ Len(codes) < MaxCodes
    /\ codes' = Append(codes, NewCode)
    /\ Move(d, Idle)
    /\ UNCHANGED <<now, crowded, Account, SignedIn>>

\* Only the newest works: the ones that were pending are consumed with it.
Issue(d) ==
    /\ door[d].phase = "asking"
    /\ Len(codes) < MaxCodes
    /\ codes' = Append([i \in DOMAIN codes |->
                          IF i \in door[d].pending THEN [codes[i] EXCEPT !.consumed = TRUE]
                          ELSE codes[i]], NewCode)
    /\ Move(d, Idle)
    /\ UNCHANGED <<now, crowded, Account, SignedIn>>

---------------------------------------------------------------------------
(* Verifying one.                                                          *)

Holders(i) == {d \in Doors : door[d].phase \in {"found", "counted"} /\ door[d].code = i}

Spent(c) == c.created + Ttl <= now \/ c.attempts >= MaxAttempts

\* The newest code not consumed is looked up; one past its time is consumed.
LookUp(d) ==
    /\ door[d] = Idle
    /\ \E i \in Pending :
         /\ \A j \in Pending : j <= i
         /\ IF Spent(codes[i])
            THEN codes' = [codes EXCEPT ![i].consumed = TRUE] /\ UNCHANGED door
            ELSE /\ codes' = [codes EXCEPT ![i].shared = @ \/ Holders(i) # {}]
                 /\ Move(d, [phase |-> "found", code |-> i, attempts |-> codes[i].attempts,
                             newest |-> i = Len(codes)])
    /\ UNCHANGED <<now, crowded, Account, SignedIn>>

\* The attempt is counted before it is judged, from the row as it was read.
CountAttempt(d) ==
    /\ door[d].phase = "found"
    /\ LET i == door[d].code
           attempts == door[d].attempts + 1
       IN /\ codes' = [codes EXCEPT ![i].attempts = attempts]
          /\ Move(d, [door[d] EXCEPT !.phase = "counted", !.attempts = attempts])
    /\ UNCHANGED <<now, crowded, Account, SignedIn>>

\* Mutant: a code that was right stays good.
AcceptAndKeep(d) ==
    /\ door[d].phase = "counted"
    /\ codes' = [codes EXCEPT ![door[d].code].uses = @ + 1]
    /\ Move(d, [phase |-> "proven"])
    /\ UNCHANGED <<now, crowded, Account, SignedIn>>

\* The right code is consumed and proves the address ...
Accept(d) ==
    /\ door[d].phase = "counted"
    /\ codes' = [codes EXCEPT ![door[d].code].consumed = TRUE, ![door[d].code].uses = @ + 1]
    /\ Move(d, [phase |-> "proven"])
    /\ UNCHANGED <<now, crowded, Account, SignedIn>>

\* ... a wrong one proves nothing, and the last attempt consumes it.
Reject(d) ==
    /\ door[d].phase = "counted"
    /\ codes' = [codes EXCEPT ![door[d].code].consumed = @ \/ door[d].attempts >= MaxAttempts]
    /\ Move(d, Idle)
    /\ UNCHANGED <<now, crowded, Account, SignedIn>>

\* The other door: Google vouches for the address.
VerifyGoogle(d) ==
    /\ door[d] = Idle
    /\ Move(d, [phase |-> "proven"])
    /\ UNCHANGED <<now, codes, crowded, Account, SignedIn>>

---------------------------------------------------------------------------
(* The account of a proven address.                                        *)

FindUser(d) ==
    /\ door[d].phase = "proven"
    /\ Move(d, [phase |-> IF user THEN "user" ELSE "no_user"])
    /\ UNCHANGED <<now, codes, crowded, Account, SignedIn>>

\* users.email is unique: the second to add it gets an error for an answer.
AddUser(d) ==
    /\ door[d].phase = "no_user"
    /\ user' = TRUE
    /\ Move(d, IF user THEN Idle ELSE [phase |-> "user"])
    /\ UNCHANGED <<now, codes, stores, raced, crowded, SignedIn>>

\* Mutant: a store is made for every sign-in.
FindStoreAnew(d) ==
    /\ door[d].phase = "user"
    /\ Move(d, [phase |-> "no_store"])
    /\ raced' = (raced \/ \E e \in Doors : door[e].phase = "no_store")
    /\ UNCHANGED <<now, codes, user, stores, crowded, SignedIn>>

\* One of the user's stores, in no order, if there is one.
FindStore(d) ==
    /\ door[d].phase = "user"
    /\ IF stores = 0 THEN Move(d, [phase |-> "no_store"])
       ELSE \E s \in 1..stores : Move(d, [phase |-> "store", store |-> s])
    /\ raced' = (raced \/ (stores = 0 /\ \E e \in Doors : door[e].phase = "no_store"))
    /\ UNCHANGED <<now, codes, user, stores, crowded, SignedIn>>

\* Nothing holds a user to one.
AddStore(d) ==
    /\ door[d].phase = "no_store"
    /\ stores < Cardinality(Doors)
    /\ stores' = stores + 1
    /\ Move(d, [phase |-> "store", store |-> stores + 1])
    /\ UNCHANGED <<now, codes, user, raced, crowded, SignedIn>>

\* The row is committed, then the token signed that names it.
OpenSession(d) ==
    /\ door[d].phase = "store"
    /\ Len(sessions) < MaxSessions
    /\ sessions' = Append(sessions, [store |-> door[d].store, opened |-> now, seen |-> now,
                                     revoked |-> FALSE])
    /\ Move(d, Idle)
    /\ UNCHANGED <<now, codes, request, crowded, Account>>

\* The process stops or the database refuses; what was committed stays.
FailSignIn(d) ==
    /\ door[d] # Idle
    /\ Move(d, Idle)
    /\ UNCHANGED <<now, codes, crowded, Account, SignedIn>>

---------------------------------------------------------------------------
(* Using a session.                                                        *)

Live(s) == ~sessions[s].revoked /\ now < sessions[s].opened + SessionLife

Ask(r, to) == request' = [request EXCEPT ![r] = to]

\* A row last seen a while ago is stamped; the request holds the row it read.
live_session(r, s) ==
    /\ request[r] = Idle
    /\ Live(s)
    /\ Ask(r, [phase |-> IF now - sessions[s].seen >= TouchAfter THEN "checked" ELSE "admitted",
               session |-> s])
    /\ UNCHANGED <<now, codes, sessions, door, crowded, Account>>

\* Mutant: the stamp writes the row as it was read.
TouchAll(r) ==
    /\ request[r].phase = "checked"
    /\ sessions' = [sessions EXCEPT ![request[r].session].seen = now,
                                    ![request[r].session].revoked = FALSE]
    /\ Ask(r, [request[r] EXCEPT !.phase = "admitted"])
    /\ UNCHANGED <<now, codes, door, crowded, Account>>

\* Only the stamp is written.
Touch(r) ==
    /\ request[r].phase = "checked"
    /\ sessions' = [sessions EXCEPT ![request[r].session].seen = now]
    /\ Ask(r, [request[r] EXCEPT !.phase = "admitted"])
    /\ UNCHANGED <<now, codes, door, crowded, Account>>

Finish(r) ==
    /\ request[r] # Idle
    /\ Ask(r, Idle)
    /\ UNCHANGED <<now, codes, sessions, door, crowded, Account>>

sign_out(r) ==
    /\ request[r].phase = "admitted"
    /\ sessions' = [sessions EXCEPT ![request[r].session].revoked = TRUE]
    /\ Ask(r, Idle)
    /\ UNCHANGED <<now, codes, door, crowded, Account>>

\* The others are listed, then ended.
ListOthers(r) ==
    /\ request[r].phase = "admitted"
    /\ Ask(r, [phase |-> "ending",
               others |-> {s \in DOMAIN sessions : ~sessions[s].revoked} \ {request[r].session}])
    /\ UNCHANGED <<now, codes, sessions, door, crowded, Account>>

revoke_other_sessions(r) ==
    /\ request[r].phase = "ending"
    /\ sessions' = [s \in DOMAIN sessions |->
                      IF s \in request[r].others THEN [sessions[s] EXCEPT !.revoked = TRUE]
                      ELSE sessions[s]]
    /\ Ask(r, Idle)
    /\ UNCHANGED <<now, codes, door, crowded, Account>>

Next ==
    \/ Tick
    \/ \E d \in Doors :
         \/ AskForCode(d) \/ Issue(d)
         \/ LookUp(d) \/ CountAttempt(d) \/ Accept(d) \/ Reject(d)
         \/ VerifyGoogle(d)
         \/ FindUser(d) \/ AddUser(d) \/ FindStore(d) \/ AddStore(d) \/ OpenSession(d)
         \/ FailSignIn(d)
    \/ \E r \in Requests :
         \/ \E s \in DOMAIN sessions : live_session(r, s)
         \/ Touch(r) \/ Finish(r) \/ sign_out(r) \/ ListOthers(r) \/ revoke_other_sessions(r)

Spec == Init /\ [][Next]_vars

---------------------------------------------------------------------------
(* Properties.                                                             *)

\* accounts: both doors "have to arrive at the *same* user and the same tenant
\* for one person".  Every session of the person is scoped to one store, unless
\* two first sign-ins looked for it before either had made it.
OneStoreEach ==
    ~raced => \A s, t \in DOMAIN sessions : sessions[s].store = sessions[t].store

\* auth_email: "Only the newest code works".  A sign-in never holds a code that
\* was not the newest when it was looked up, unless two were asked for at once.
NewestCodeOnly ==
    ~crowded => \A d \in Doors : door[d].phase \in {"found", "counted"} => door[d].newest

\* A code proves one sign-in, unless two held it at the same time.
CodeProvesOnce == \A i \in DOMAIN codes : ~codes[i].shared => codes[i].uses <= 1

\* sessions: "revoking is a single UPDATE and takes effect on the next request."
\* A session that has ended stays so under every request still using it.
SignedOutStays ==
    [][\A s \in DOMAIN sessions : sessions[s].revoked => sessions'[s].revoked]_vars
=============================================================================
