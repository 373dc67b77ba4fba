---------------------------- MODULE SignInProofs ----------------------------
(***************************************************************************)
(* What SignIn promises, for any number of sign-ins, requests, codes,      *)
(* sessions and ticks.                                                     *)
(***************************************************************************)
EXTENDS SignIn, FiniteSetTheorems, SequenceTheorems, TLAPS

Verifies(d) == door[d].phase \in {"found", "counted"}

\* What a sign-in or a request holds is there, and a code just found can still
\* be tried.
Holds ==
    /\ \A d \in Doors : Verifies(d) => door[d].code \in DOMAIN codes
    /\ \A d \in Doors : door[d].phase = "found" => door[d].attempts < MaxAttempts
    /\ \A r \in Requests :
          request[r].phase \in {"checked", "admitted"} => request[r].session \in DOMAIN sessions

Typed == TypeOK /\ Holds

---------------------------------------------------------------------------
(* Types.                                                                  *)

LEMMA AtDoor ==
    ASSUME TypeOK, NEW d \in Doors
    PROVE  /\ door[d].phase = "asking" => door[d] \in Asking
           /\ Verifies(d) => door[d] \in Verifying
           /\ door[d].phase = "store" => door[d] \in AtHome
  BY DEF TypeOK, Verifies, Idle, Asking, Verifying, Proven, AtHome

LEMMA InRequest ==
    ASSUME TypeOK, NEW r \in Requests
    PROVE  /\ request[r].phase \in {"checked", "admitted"} => request[r] \in Using
           /\ request[r].phase = "ending" => request[r] \in Ending
  BY DEF TypeOK, Idle, Using, Ending

LEMMA Numbers == Cardinality(Doors) \in Nat
  BY SignInAssumption, FS_CardinalityType

LEMMA InitTyped == Init => Typed
<1> SUFFICES ASSUME Init
             PROVE  Typed
  OBVIOUS
<1>1. /\ now \in Ticks
      /\ codes \in Seq(Codes) /\ Len(codes) <= MaxCodes
      /\ sessions \in Seq(Sessions) /\ Len(sessions) <= MaxSessions
  BY SignInAssumption DEF Init, Ticks
<1>2. /\ door \in [Doors -> {Idle} \cup Asking \cup Verifying \cup Proven \cup AtHome]
      /\ request \in [Requests -> {Idle} \cup Using \cup Ending]
  BY DEF Init
<1>3. user \in BOOLEAN /\ stores \in {0} \cup StoreIds /\ raced \in BOOLEAN /\ crowded \in BOOLEAN
  BY DEF Init
<1>4. TypeOK
  BY <1>1, <1>2, <1>3 DEF TypeOK
<1>5. Holds
  BY DEF Init, Holds, Verifies, Idle
<1>6. QED
  BY <1>4, <1>5 DEF Typed

LEMMA TickTyped == Typed /\ Tick => Typed'
  BY SignInAssumption
     DEF Typed, TypeOK, Holds, Verifies, Tick, Ticks, Account, SignedIn

\* A sign-in that moves while the codes keep their number.
LEMMA DoorTyped ==
    ASSUME Typed, NEW d \in Doors,
           NEW to \in {Idle} \cup Asking \cup Verifying \cup Proven \cup AtHome,
           Move(d, to), UNCHANGED <<now, request, sessions>>,
           codes' \in Seq(Codes), Len(codes') <= MaxCodes, DOMAIN codes \subseteq DOMAIN codes',
           to.phase \in {"found", "counted"} => to.code \in DOMAIN codes',
           to.phase = "found" => to.attempts < MaxAttempts,
           user' \in BOOLEAN, stores' \in {0} \cup StoreIds, raced' \in BOOLEAN,
           crowded' \in BOOLEAN
    PROVE  Typed'
<1>1. /\ \A e \in Doors : door'[e] = IF e = d THEN to ELSE door[e]
      /\ door' \in [Doors -> {Idle} \cup Asking \cup Verifying \cup Proven \cup AtHome]
  BY DEF Move, Typed, TypeOK
<1>2. TypeOK'
  BY <1>1 DEF Typed, TypeOK, Ticks, StoreIds, Sessions, Codes, CodeIds
<1>3. Holds'
  BY <1>1 DEF Typed, Holds, Verifies
<1>4. QED
  BY <1>2, <1>3 DEF Typed

\* The fields of a code that are written.
LEMMA CodeEdits ==
    ASSUME NEW c \in Codes
    PROVE  /\ c.consumed \in BOOLEAN /\ c.shared \in BOOLEAN
           /\ [c EXCEPT !.consumed = TRUE] \in Codes
           /\ \A b \in BOOLEAN : [c EXCEPT !.consumed = b] \in Codes
           /\ \A b \in BOOLEAN : [c EXCEPT !.shared = b] \in Codes
           /\ \A n \in 0..MaxAttempts : [c EXCEPT !.attempts = n] \in Codes
           /\ [c EXCEPT !.consumed = TRUE, !.uses = @ + 1] \in Codes
<1>1. c.consumed \in BOOLEAN /\ c.shared \in BOOLEAN /\ c.uses + 1 \in Nat
  BY DEF Codes
<1>2. \A b \in BOOLEAN : [c EXCEPT !.consumed = b] \in Codes
  BY DEF Codes
<1>3. \A b \in BOOLEAN : [c EXCEPT !.shared = b] \in Codes
  BY DEF Codes
<1>4. \A n \in 0..MaxAttempts : [c EXCEPT !.attempts = n] \in Codes
  BY DEF Codes
<1>5. [c EXCEPT !.consumed = TRUE, !.uses = @ + 1] \in Codes
  <2>1. \A e \in Codes, n \in Nat : [e EXCEPT !.uses = n] \in Codes
    BY DEF Codes
  <2>2. [c EXCEPT !.consumed = TRUE, !.uses = @ + 1]
          = [[c EXCEPT !.consumed = TRUE] EXCEPT !.uses = c.uses + 1]
    OBVIOUS
  <2>3. QED
    BY <1>1, <1>2, <2>1, <2>2
<1>6. QED
  BY <1>1, <1>2, <1>3, <1>4, <1>5

\* A code rewritten in place.
LEMMA Rewritten ==
    ASSUME TypeOK, NEW i \in DOMAIN codes, NEW c \in Codes
    PROVE  LET rewritten == [codes EXCEPT ![i] = c] IN
           /\ rewritten \in Seq(Codes) /\ Len(rewritten) = Len(codes)
           /\ DOMAIN rewritten = DOMAIN codes
  BY DEF TypeOK

LEMMA CodeTyped ==
    ASSUME Typed, NEW d \in Doors, AskForCode(d) \/ Issue(d) \/ LookUp(d)
    PROVE  Typed'
<1> USE DEF Account, SignedIn
<1>0. /\ codes \in Seq(Codes) /\ DOMAIN codes = 1..Len(codes) /\ DOMAIN codes \subseteq CodeIds
      /\ crowded \in BOOLEAN /\ user \in BOOLEAN /\ raced \in BOOLEAN
      /\ stores \in {0} \cup StoreIds /\ now \in Ticks /\ Len(codes) <= MaxCodes
      /\ Pending \subseteq DOMAIN codes
  BY SignInAssumption DEF Typed, TypeOK, CodeIds, Pending
<1>1. CASE AskForCode(d)
  <2>1. [phase |-> "asking", pending |-> Pending] \in Asking
    BY <1>0 DEF Asking
  <2>2. crowded' \in BOOLEAN
    BY <1>1 DEF AskForCode
  <2>3. QED
    BY <1>0, <1>1, <2>1, <2>2, DoorTyped DEF AskForCode
<1>2. CASE Issue(d)
  <2> DEFINE kept == [i \in DOMAIN codes |->
                        IF i \in door[d].pending THEN [codes[i] EXCEPT !.consumed = TRUE]
                        ELSE codes[i]]
  <2>1. ASSUME NEW i \in 1..Len(codes)
        PROVE  kept[i] \in Codes
    <3>1. codes[i] \in Codes
      BY <1>0
    <3>2. [codes[i] EXCEPT !.consumed = TRUE] \in Codes
      BY <3>1, CodeEdits
    <3>3. QED
      BY <1>0, <3>1, <3>2
  <2>2. kept \in Seq(Codes) /\ Len(kept) = Len(codes)
    BY <1>0, <2>1
  <2>3. NewCode \in Codes
    BY SignInAssumption, <1>0 DEF NewCode, Codes
  <2>4. codes' = Append(kept, NewCode) /\ Len(codes) < MaxCodes
    BY <1>2 DEF Issue
  <2> HIDE DEF kept
  <2>5. codes' \in Seq(Codes) /\ Len(codes') <= MaxCodes /\ DOMAIN codes \subseteq DOMAIN codes'
    BY <1>0, <2>2, <2>3, <2>4, SignInAssumption
  <2>6. QED
    BY <1>0, <1>2, <2>5, DoorTyped DEF Issue, Idle
<1>3. CASE LookUp(d)
  <2>1. PICK i \in Pending :
          IF Spent(codes[i])
          THEN codes' = [codes EXCEPT ![i].consumed = TRUE] /\ UNCHANGED door
          ELSE /\ codes' = [codes EXCEPT ![i].shared = @ \/ Holders(i) # {}]
               /\ Move(d, [phase |-> "found", code |-> i, attempts |-> codes[i].attempts,
                           newest |-> i = Len(codes)])
    BY <1>3 DEF LookUp
  <2>2. i \in DOMAIN codes /\ i \in CodeIds /\ codes[i] \in Codes
    BY <1>0
  <2>3. CASE Spent(codes[i])
    <3>1. /\ codes' \in Seq(Codes) /\ Len(codes') = Len(codes)
          /\ DOMAIN codes' = DOMAIN codes
      <4>1. [codes[i] EXCEPT !.consumed = TRUE] \in Codes
        BY <2>2, CodeEdits
      <4>2. codes' = [codes EXCEPT ![i] = [codes[i] EXCEPT !.consumed = TRUE]]
        BY <2>1, <2>3
      <4>3. QED
        BY <2>2, <4>1, <4>2, <1>0, Rewritten DEF Typed
    <3>2. UNCHANGED door
      BY <2>1, <2>3
    <3>3. QED
      BY <1>0, <1>3, <3>1, <3>2
         DEF LookUp, Typed, TypeOK, Holds, Verifies, Ticks, StoreIds, Sessions
  <2>4. CASE ~Spent(codes[i])
    <3>1. /\ codes' \in Seq(Codes) /\ Len(codes') = Len(codes)
          /\ DOMAIN codes' = DOMAIN codes
      <4>1. PICK b \in BOOLEAN : b = (codes[i].shared \/ Holders(i) # {})
        BY <2>2, CodeEdits
      <4>2. codes' = [codes EXCEPT ![i] = [codes[i] EXCEPT !.shared = b]]
        BY <2>1, <2>4, <4>1
      <4>3. [codes[i] EXCEPT !.shared = b] \in Codes
        BY <2>2, CodeEdits
      <4>4. QED
        BY <2>2, <4>2, <4>3, <1>0, Rewritten DEF Typed
    <3> DEFINE found == [phase |-> "found", code |-> i, attempts |-> codes[i].attempts,
                         newest |-> i = Len(codes)]
    <3>2. found \in Verifying /\ found.attempts < MaxAttempts /\ found.code \in DOMAIN codes
      BY SignInAssumption, <2>2, <2>4 DEF Verifying, Codes, Spent
    <3>3. Move(d, found)
      BY <2>1, <2>4
    <3> HIDE DEF found
    <3>4. QED
      BY <1>0, <1>3, <3>1, <3>2, <3>3, DoorTyped DEF LookUp
  <2>5. QED
    BY <2>3, <2>4
<1>4. QED
  BY <1>1, <1>2, <1>3

LEMMA TryTyped ==
    ASSUME Typed, NEW d \in Doors, CountAttempt(d) \/ Accept(d) \/ Reject(d)
    PROVE  Typed'
<1> USE DEF Account, SignedIn
<1>0. /\ codes \in Seq(Codes) /\ DOMAIN codes = 1..Len(codes)
      /\ crowded \in BOOLEAN /\ user \in BOOLEAN /\ raced \in BOOLEAN
      /\ stores \in {0} \cup StoreIds /\ Len(codes) <= MaxCodes
  BY DEF Typed, TypeOK
<1>1. /\ door[d] \in Verifying /\ door[d].code \in DOMAIN codes /\ codes[door[d].code] \in Codes
      /\ door[d].phase = "found" => door[d].attempts < MaxAttempts
  BY <1>0, AtDoor DEF CountAttempt, Accept, Reject, Verifies, Typed, Holds
<1>2. CASE CountAttempt(d)
  <2> DEFINE to == [door[d] EXCEPT !.phase = "counted", !.attempts = door[d].attempts + 1]
  <2>1. door[d].attempts + 1 \in 0..MaxAttempts
    BY SignInAssumption, <1>1, <1>2 DEF Verifying, CountAttempt
  <2>2. to \in Verifying /\ to.phase = "counted" /\ to.code = door[d].code
    <3>1. \A v \in Verifying, n \in 0..MaxAttempts : [v EXCEPT !.attempts = n] \in Verifying
      BY DEF Verifying
    <3>2. /\ [door[d] EXCEPT !.phase = "counted"] \in Verifying
          /\ [door[d] EXCEPT !.phase = "counted"].code = door[d].code
      BY <1>1 DEF Verifying
    <3>3. to = [[door[d] EXCEPT !.phase = "counted"] EXCEPT !.attempts = door[d].attempts + 1]
      OBVIOUS
    <3>4. to.phase = "counted" /\ to.code = door[d].code
      BY <1>1 DEF Verifying
    <3>5. QED
      BY <2>1, <3>1, <3>2, <3>3, <3>4
  <2>3. codes' \in Seq(Codes) /\ Len(codes') = Len(codes) /\ DOMAIN codes' = DOMAIN codes
    <3>1. [codes[door[d].code] EXCEPT !.attempts = door[d].attempts + 1] \in Codes
      BY <1>1, <2>1, CodeEdits
    <3>2. codes' = [codes EXCEPT ![door[d].code] =
                      [codes[door[d].code] EXCEPT !.attempts = door[d].attempts + 1]]
      BY <1>2 DEF CountAttempt
    <3>3. QED
      BY <1>0, <1>1, <3>1, <3>2, Rewritten DEF Typed
  <2>4. Move(d, to) /\ UNCHANGED <<now, crowded, Account, SignedIn>>
    BY <1>2 DEF CountAttempt
  <2> HIDE DEF to
  <2>5. QED
    BY <1>0, <1>1, <2>2, <2>3, <2>4, DoorTyped
<1>3. CASE Accept(d)
  <2>1. codes' \in Seq(Codes) /\ Len(codes') = Len(codes) /\ DOMAIN codes' = DOMAIN codes
    <3>1. [codes[door[d].code] EXCEPT !.consumed = TRUE, !.uses = @ + 1] \in Codes
      BY <1>1, CodeEdits
    <3>2. codes' = [codes EXCEPT ![door[d].code] =
                      [codes[door[d].code] EXCEPT !.consumed = TRUE, !.uses = @ + 1]]
      BY <1>1, <1>3 DEF Accept
    <3>3. QED
      BY <1>0, <1>1, <3>1, <3>2, Rewritten DEF Typed
  <2>2. QED
    BY <1>0, <1>3, <2>1, DoorTyped DEF Accept, Proven
<1>4. CASE Reject(d)
  <2>1. codes' \in Seq(Codes) /\ Len(codes') = Len(codes) /\ DOMAIN codes' = DOMAIN codes
    <3>1. PICK b \in BOOLEAN :
            b = (codes[door[d].code].consumed \/ door[d].attempts >= MaxAttempts)
      BY <1>1, CodeEdits
    <3>2. codes' = [codes EXCEPT ![door[d].code] = [codes[door[d].code] EXCEPT !.consumed = b]]
      BY <1>4, <3>1 DEF Reject
    <3>3. [codes[door[d].code] EXCEPT !.consumed = b] \in Codes
      BY <1>1, <3>1, CodeEdits
    <3>4. QED
      BY <1>0, <1>1, <3>2, <3>3, Rewritten DEF Typed
  <2>2. QED
    BY <1>0, <1>4, <2>1, DoorTyped DEF Reject, Idle
<1>5. QED
  BY <1>2, <1>3, <1>4

LEMMA AccountTyped ==
    ASSUME Typed, NEW d \in Doors,
           \/ VerifyGoogle(d) \/ FindUser(d) \/ AddUser(d) \/ FindStore(d) \/ AddStore(d)
           \/ FailSignIn(d)
    PROVE  Typed'
<1> USE DEF Account, SignedIn
<1>0. /\ codes \in Seq(Codes) /\ Len(codes) <= MaxCodes
      /\ crowded \in BOOLEAN /\ user \in BOOLEAN /\ raced \in BOOLEAN
      /\ stores \in {0} \cup StoreIds
  BY DEF Typed, TypeOK
<1>1. CASE VerifyGoogle(d)
  BY <1>0, <1>1, DoorTyped DEF VerifyGoogle, Proven
<1>2. CASE FindUser(d)
  <2>1. \A p \in {"user", "no_user"} : [phase |-> p] \in Proven
    BY DEF Proven
  <2>2. PICK p \in {"user", "no_user"} : Move(d, [phase |-> p])
    BY <1>2 DEF FindUser
  <2>3. QED
    BY <1>0, <1>2, <2>1, <2>2, DoorTyped DEF FindUser
<1>3. CASE AddUser(d)
  <2>1. PICK to \in {Idle, [phase |-> "user"]} : Move(d, to)
    BY <1>3 DEF AddUser
  <2>2. to \in {Idle} \cup Proven /\ to.phase \in {"idle", "user"}
    BY DEF Idle, Proven
  <2>3. QED
    BY <1>0, <1>3, <2>1, <2>2, DoorTyped DEF AddUser
<1>4. CASE FindStore(d)
  <2>0. raced' \in BOOLEAN
    BY <1>4 DEF FindStore
  <2>1. CASE stores = 0
    BY <1>0, <1>4, <2>0, <2>1, DoorTyped DEF FindStore, Proven
  <2>2. CASE stores # 0
    <3>1. PICK s \in 1..stores : Move(d, [phase |-> "store", store |-> s])
      BY <1>4, <2>2 DEF FindStore
    <3>2. s \in StoreIds
      BY <1>0, <3>1, Numbers DEF StoreIds
    <3>3. [phase |-> "store", store |-> s] \in AtHome
      BY <3>2 DEF AtHome
    <3>4. QED
      BY <1>0, <1>4, <2>0, <3>1, <3>3, DoorTyped DEF FindStore
  <2>3. QED
    BY <2>1, <2>2
<1>5. CASE AddStore(d)
  <2>1. stores + 1 \in StoreIds
    BY <1>0, <1>5, Numbers DEF AddStore, StoreIds
  <2>2. [phase |-> "store", store |-> stores + 1] \in AtHome
    BY <2>1 DEF AtHome
  <2>3. QED
    BY <1>0, <1>5, <2>1, <2>2, DoorTyped DEF AddStore
<1>6. CASE FailSignIn(d)
  BY <1>0, <1>6, DoorTyped DEF FailSignIn, Idle
<1>7. QED
  BY <1>1, <1>2, <1>3, <1>4, <1>5, <1>6

\* A session opened, or written in place.
LEMMA OpenTyped ==
    ASSUME Typed, NEW d \in Doors, OpenSession(d)
    PROVE  Typed'
<1> USE DEF Account
<1>0. /\ codes \in Seq(Codes) /\ sessions \in Seq(Sessions) /\ Len(sessions) < MaxSessions
      /\ door[d] \in AtHome /\ now \in Ticks
  BY AtDoor DEF Typed, TypeOK, OpenSession
<1> DEFINE opened == [store |-> door[d].store, opened |-> now, seen |-> now, revoked |-> FALSE]
<1>1. opened \in Sessions
  BY <1>0 DEF Sessions, AtHome
<1>2. sessions' = Append(sessions, opened)
  BY DEF OpenSession
<1> HIDE DEF opened
<1>3. sessions' \in Seq(Sessions) /\ Len(sessions') <= MaxSessions
  BY <1>0, <1>1, <1>2, SignInAssumption
<1>4. DOMAIN sessions \subseteq DOMAIN sessions'
  BY <1>0, <1>1, <1>2
<1>5. /\ \A e \in Doors : door'[e] = IF e = d THEN Idle ELSE door[e]
      /\ door' \in [Doors -> {Idle} \cup Asking \cup Verifying \cup Proven \cup AtHome]
  BY DEF OpenSession, Move, Typed, TypeOK
<1>6. /\ now' \in Ticks /\ codes' \in Seq(Codes) /\ Len(codes') <= MaxCodes /\ user' \in BOOLEAN
      /\ stores' \in {0} \cup StoreIds /\ raced' \in BOOLEAN /\ crowded' \in BOOLEAN
      /\ request' \in [Requests -> {Idle} \cup Using \cup Ending]
  BY DEF OpenSession, Typed, TypeOK
<1>7. TypeOK'
  BY <1>3, <1>5, <1>6 DEF TypeOK, Ticks, StoreIds, Sessions, Codes, CodeIds
<1>8. Holds'
  BY <1>4, <1>5 DEF OpenSession, Typed, Holds, Verifies, Idle
<1>9. QED
  BY <1>7, <1>8 DEF Typed

LEMMA SessionEdits ==
    ASSUME NEW s \in Sessions
    PROVE  /\ [s EXCEPT !.revoked = TRUE] \in Sessions
           /\ \A t \in Ticks : [s EXCEPT !.seen = t] \in Sessions
<1>1. [s EXCEPT !.revoked = TRUE] \in Sessions
  BY DEF Sessions
<1>2. \A t \in Ticks : [s EXCEPT !.seen = t] \in Sessions
  BY DEF Sessions
<1>3. QED
  BY <1>1, <1>2

\* A request that moves while the sessions keep their number.
LEMMA AskTyped ==
    ASSUME Typed, NEW r \in Requests, NEW to \in {Idle} \cup Using \cup Ending, Ask(r, to),
           UNCHANGED <<now, codes, door, crowded, Account>>,
           sessions' \in Seq(Sessions), Len(sessions') = Len(sessions),
           to.phase \in {"checked", "admitted"} => to.session \in DOMAIN sessions
    PROVE  Typed'
<1>1. /\ \A q \in Requests : request'[q] = IF q = r THEN to ELSE request[q]
      /\ request' \in [Requests -> {Idle} \cup Using \cup Ending]
  BY DEF Ask, Typed, TypeOK
<1>2. DOMAIN sessions' = DOMAIN sessions
  BY DEF Typed, TypeOK
<1>3. TypeOK'
  BY <1>1 DEF Typed, TypeOK, Account
<1>4. Holds'
  BY <1>1, <1>2 DEF Typed, Holds, Verifies
<1>5. QED
  BY <1>3, <1>4 DEF Typed

LEMMA UseTyped ==
    ASSUME Typed, NEW r \in Requests,
           \/ \E s \in DOMAIN sessions : live_session(r, s)
           \/ Touch(r) \/ Finish(r)
    PROVE  Typed'
<1>0. /\ sessions \in Seq(Sessions) /\ DOMAIN sessions = 1..Len(sessions)
      /\ DOMAIN sessions \subseteq 1..MaxSessions /\ now \in Ticks
  BY SignInAssumption DEF Typed, TypeOK
<1>1. ASSUME NEW s \in DOMAIN sessions, live_session(r, s)
      PROVE  Typed'
  <2>1. PICK p \in {"checked", "admitted"} : Ask(r, [phase |-> p, session |-> s])
    BY <1>1 DEF live_session
  <2>2. [phase |-> p, session |-> s] \in Using
    BY <1>0 DEF Using
  <2>3. QED
    BY <1>0, <1>1, <2>1, <2>2, AskTyped DEF live_session
<1>2. CASE Touch(r)
  <2>1. request[r] \in Using /\ request[r].session \in DOMAIN sessions
    BY <1>2, InRequest DEF Touch, Typed, Holds
  <2> DEFINE to == [request[r] EXCEPT !.phase = "admitted"]
  <2>2. to \in Using /\ to.session \in DOMAIN sessions
    BY <2>1 DEF Using
  <2>3. [sessions[request[r].session] EXCEPT !.seen = now] \in Sessions
    <3>1. sessions[request[r].session] \in Sessions
      BY <1>0, <2>1
    <3>2. QED
      BY <1>0, <3>1, SessionEdits
  <2>4. sessions' = [sessions EXCEPT ![request[r].session] =
                        [sessions[request[r].session] EXCEPT !.seen = now]]
    BY <1>2 DEF Touch
  <2>5. sessions' \in Seq(Sessions) /\ Len(sessions') = Len(sessions)
    BY <1>0, <2>1, <2>3, <2>4
  <2>6. Ask(r, to)
    BY <1>2 DEF Touch
  <2> HIDE DEF to
  <2>7. QED
    BY <1>2, <2>2, <2>5, <2>6, AskTyped DEF Touch
<1>3. CASE Finish(r)
  BY <1>0, <1>3, AskTyped DEF Finish, Idle
<1>4. QED
  BY <1>1, <1>2, <1>3

LEMMA EndTyped ==
    ASSUME Typed, NEW r \in Requests, sign_out(r) \/ ListOthers(r) \/ revoke_other_sessions(r)
    PROVE  Typed'
<1>0. /\ sessions \in Seq(Sessions) /\ DOMAIN sessions = 1..Len(sessions)
      /\ DOMAIN sessions \subseteq 1..MaxSessions
  BY SignInAssumption DEF Typed, TypeOK
<1>1. CASE sign_out(r)
  <2>1. request[r] \in Using /\ request[r].session \in DOMAIN sessions
    BY <1>1, InRequest DEF sign_out, Typed, Holds
  <2>2. [sessions[request[r].session] EXCEPT !.revoked = TRUE] \in Sessions
    BY <1>0, <2>1, SessionEdits
  <2>3. sessions' = [sessions EXCEPT ![request[r].session] =
                        [sessions[request[r].session] EXCEPT !.revoked = TRUE]]
    BY <1>1 DEF sign_out
  <2>4. sessions' \in Seq(Sessions) /\ Len(sessions') = Len(sessions)
    BY <1>0, <2>1, <2>2, <2>3
  <2>5. QED
    BY <1>1, <2>4, AskTyped DEF sign_out, Idle
<1>2. CASE ListOthers(r)
  <2> DEFINE others == {s \in DOMAIN sessions : ~sessions[s].revoked} \ {request[r].session}
  <2>1. [phase |-> "ending", others |-> others] \in Ending
    BY <1>0 DEF Ending
  <2>2. QED
    BY <1>0, <1>2, <2>1, AskTyped DEF ListOthers
<1>3. CASE revoke_other_sessions(r)
  <2> DEFINE ended == [s \in DOMAIN sessions |->
                         IF s \in request[r].others THEN [sessions[s] EXCEPT !.revoked = TRUE]
                         ELSE sessions[s]]
  <2>1. ASSUME NEW s \in 1..Len(sessions)
        PROVE  ended[s] \in Sessions
    <3>1. sessions[s] \in Sessions
      BY <1>0
    <3>2. [sessions[s] EXCEPT !.revoked = TRUE] \in Sessions
      BY <3>1, SessionEdits
    <3>3. QED
      BY <1>0, <3>1, <3>2
  <2>2. ended \in Seq(Sessions) /\ Len(ended) = Len(sessions)
    BY <1>0, <2>1
  <2>3. sessions' = ended
    BY <1>3 DEF revoke_other_sessions
  <2> HIDE DEF ended
  <2>4. QED
    BY <1>3, <2>2, <2>3, AskTyped DEF revoke_other_sessions, Idle
<1>4. QED
  BY <1>1, <1>2, <1>3

LEMMA StepTyped == Typed /\ [Next]_vars => Typed'
<1> SUFFICES ASSUME Typed, [Next]_vars
             PROVE  Typed'
  OBVIOUS
<1>1. CASE UNCHANGED vars
  BY <1>1 DEF vars, Typed, TypeOK, Holds, Verifies
<1>2. CASE Next
  BY <1>2, TickTyped, CodeTyped, TryTyped, AccountTyped, OpenTyped, UseTyped, EndTyped DEF Next
<1>3. QED
  BY <1>1, <1>2

\* Whatever the sign-ins and requests do, every variable keeps its type.
THEOREM TypeCorrect == Spec => []TypeOK
<1>1. Typed => TypeOK
  BY DEF Typed
<1>2. QED
  BY <1>1, InitTyped, StepTyped, PTL DEF Spec

\* "Revoking is a single UPDATE": no stamp, no other sign-out and no new session
\* brings one back.
THEOREM SignedOutForGood == Spec => SignedOutStays
<1>1. ASSUME Typed, [Next]_vars
      PROVE  [\A s \in DOMAIN sessions : sessions[s].revoked => sessions'[s].revoked]_vars
  <2>0. /\ sessions \in Seq(Sessions) /\ DOMAIN sessions = 1..Len(sessions)
        /\ \A s \in DOMAIN sessions : sessions[s] \in Sessions
    BY <1>1 DEF Typed, TypeOK
  <2> SUFFICES ASSUME Next, NEW s \in DOMAIN sessions, sessions[s].revoked
               PROVE  sessions'[s].revoked
    BY <1>1
  <2>1. CASE UNCHANGED sessions
    BY <2>1
  <2>2. ASSUME NEW d \in Doors, OpenSession(d)
        PROVE  sessions'[s].revoked
    <3>1. \A e : Append(sessions, e)[s] = sessions[s]
      BY <2>0
    <3>2. QED
      BY <2>2, <3>1 DEF OpenSession
  <2>3. ASSUME NEW r \in Requests, Touch(r)
        PROVE  sessions'[s].revoked
    <3>1. request[r].session \in DOMAIN sessions
      BY <1>1, <2>3 DEF Touch, Typed, Holds
    <3>2. [sessions[s] EXCEPT !.seen = now].revoked = sessions[s].revoked
      BY <2>0 DEF Sessions
    <3>3. QED
      BY <2>0, <2>3, <3>1, <3>2 DEF Touch
  <2>4. ASSUME NEW r \in Requests, sign_out(r)
        PROVE  sessions'[s].revoked
    <3>1. [sessions[s] EXCEPT !.revoked = TRUE].revoked
      BY <2>0 DEF Sessions
    <3>2. QED
      BY <2>0, <2>4, <3>1 DEF sign_out
  <2>5. ASSUME NEW r \in Requests, revoke_other_sessions(r)
        PROVE  sessions'[s].revoked
    <3>1. [sessions[s] EXCEPT !.revoked = TRUE].revoked
      BY <2>0 DEF Sessions
    <3>2. QED
      BY <2>0, <2>5, <3>1 DEF revoke_other_sessions
  <2>6. QED
    BY <2>1, <2>2, <2>3, <2>4, <2>5
       DEF Next, Tick, SignedIn, AskForCode, Issue, LookUp, CountAttempt, Accept, Reject,
           VerifyGoogle, FindUser, AddUser, FindStore, AddStore, FailSignIn, live_session,
           Finish, ListOthers
<1>2. QED
  BY <1>1, InitTyped, StepTyped, PTL DEF Spec, SignedOutStays

---------------------------------------------------------------------------
(* Only the newest code is pending, and a request for a code knows all     *)
(* that are.                                                               *)

NewestPending ==
    ~crowded =>
       /\ \A i \in Pending : i = Len(codes)
       /\ \A d, e \in Doors : door[d].phase = "asking" /\ door[e].phase = "asking" => d = e
       /\ \A d \in Doors : door[d].phase = "asking" => Pending \subseteq door[d].pending
       /\ \A d \in Doors : Verifies(d) => door[d].newest

\* Codes only ever go: fewer are pending and nobody begins to ask or to verify.
LEMMA NewestShrinks ==
    ASSUME Typed, NewestPending, NEW d \in Doors,
           \A e \in Doors \ {d} : door'[e] = door[e],
           door'[d].phase # "asking",
           ~crowded => (door'[d].phase \in {"found", "counted"} => door'[d].newest),
           Len(codes') = Len(codes), Pending' \subseteq Pending, crowded' = crowded
    PROVE  NewestPending'
  BY DEF NewestPending, Verifies

\* Every step but a new code leaves the codes that are there, and unconsumes none.
LEMMA PendingShrinks ==
    ASSUME Typed, NEW d \in Doors,
           LookUp(d) \/ CountAttempt(d) \/ Accept(d) \/ Reject(d)
    PROVE  Len(codes') = Len(codes) /\ Pending' \subseteq Pending
<1>0. codes \in Seq(Codes) /\ \A i \in DOMAIN codes : codes[i] \in Codes
  BY DEF Typed, TypeOK
<1>1. ASSUME NEW i \in DOMAIN codes, NEW c, c.consumed = codes[i].consumed \/ c.consumed = TRUE,
             codes' = [codes EXCEPT ![i] = c]
      PROVE  Len(codes') = Len(codes) /\ Pending' \subseteq Pending
  BY <1>0, <1>1 DEF Pending
<1>2. CASE LookUp(d)
  <2>1. PICK i \in Pending :
          \/ codes' = [codes EXCEPT ![i] = [codes[i] EXCEPT !.consumed = TRUE]]
          \/ codes' = [codes EXCEPT ![i] = [codes[i] EXCEPT !.shared = @ \/ Holders(i) # {}]]
    BY <1>2 DEF LookUp
  <2>2. i \in DOMAIN codes
    BY DEF Pending
  <2>3. /\ [codes[i] EXCEPT !.consumed = TRUE].consumed = TRUE
        /\ [codes[i] EXCEPT !.shared = @ \/ Holders(i) # {}].consumed = codes[i].consumed
    BY <1>0, <2>2 DEF Codes
  <2>4. QED
    BY <1>1, <2>1, <2>2, <2>3
<1>3. ASSUME CountAttempt(d) \/ Accept(d) \/ Reject(d)
      PROVE  Len(codes') = Len(codes) /\ Pending' \subseteq Pending
  <2> DEFINE i == door[d].code
  <2>1. i \in DOMAIN codes
    BY <1>3 DEF Typed, Holds, Verifies, CountAttempt, Accept, Reject
  <2>2. CASE CountAttempt(d)
    <3>1. [codes[i] EXCEPT !.attempts = door[d].attempts + 1].consumed = codes[i].consumed
      BY <1>0, <2>1 DEF Codes
    <3>2. QED
      BY <1>1, <2>1, <2>2, <3>1 DEF CountAttempt
  <2>3. CASE Accept(d)
    <3>1. [codes[i] EXCEPT !.consumed = TRUE, !.uses = @ + 1].consumed = TRUE
      BY <1>0, <2>1 DEF Codes
    <3>2. codes' = [codes EXCEPT ![i] = [codes[i] EXCEPT !.consumed = TRUE, !.uses = @ + 1]]
      BY <2>1, <2>3 DEF Accept
    <3>3. QED
      BY <1>1, <2>1, <3>1, <3>2
  <2>4. CASE Reject(d)
    <3>1. PICK b \in BOOLEAN : b = (codes[i].consumed \/ door[d].attempts >= MaxAttempts)
      BY <1>0, <2>1 DEF Codes
    <3>2. codes' = [codes EXCEPT ![i] = [codes[i] EXCEPT !.consumed = b]]
      BY <2>4, <3>1 DEF Reject
    <3>3. [codes[i] EXCEPT !.consumed = b].consumed = b
      BY <1>0, <2>1 DEF Codes
    <3>4. b = codes[i].consumed \/ b = TRUE
      BY <1>0, <2>1, <3>1 DEF Codes
    <3>5. QED
      BY <1>1, <2>1, <3>2, <3>3, <3>4
  <2>5. QED
    BY <1>3, <2>2, <2>3, <2>4
<1>4. QED
  BY <1>2, <1>3

LEMMA NewestAsked ==
    ASSUME Typed, NewestPending, NEW d \in Doors, AskForCode(d) \/ Issue(d)
    PROVE  NewestPending'
<1>0. /\ codes \in Seq(Codes) /\ DOMAIN codes = 1..Len(codes)
      /\ \A e \in Doors : door'[e] = IF e = d THEN door'[d] ELSE door[e]
  BY DEF AskForCode, Issue, Move, Typed, TypeOK
<1>1. CASE AskForCode(d)
  <2>1. door'[d] = [phase |-> "asking", pending |-> Pending]
    BY <1>1 DEF AskForCode, Move, Typed, TypeOK
  <2>2. UNCHANGED codes /\ Pending' = Pending
    BY <1>1 DEF AskForCode, Pending
  <2>3. ~crowded' => ~crowded /\ \A e \in Doors : door[e].phase # "asking"
    BY <1>1 DEF AskForCode
  <2>4. QED
    BY <1>0, <2>1, <2>2, <2>3 DEF NewestPending, Verifies
<1>2. CASE Issue(d)
  <2> SUFFICES ASSUME ~crowded
               PROVE  NewestPending'
    BY <1>2 DEF Issue, NewestPending
  <2> DEFINE kept == [i \in DOMAIN codes |->
                        IF i \in door[d].pending THEN [codes[i] EXCEPT !.consumed = TRUE]
                        ELSE codes[i]]
  <2>1. codes' = Append(kept, NewCode) /\ door'[d] = Idle /\ crowded' = crowded
    BY <1>2 DEF Issue, Move, Typed, TypeOK
  <2>2. /\ Pending \subseteq door[d].pending
        /\ \A e \in Doors : e # d => door[e].phase # "asking"
    BY <1>2 DEF Issue, NewestPending
  <2>3. ASSUME NEW i \in 1..Len(codes)
        PROVE  kept[i] \in Codes /\ kept[i].consumed
    <3>1. codes[i] \in Codes /\ (~codes[i].consumed => i \in door[d].pending)
      BY <1>0, <2>2 DEF Pending
    <3>2. [codes[i] EXCEPT !.consumed = TRUE] \in Codes
      BY <3>1, CodeEdits
    <3>3. [codes[i] EXCEPT !.consumed = TRUE].consumed
      BY <3>1 DEF Codes
    <3>4. kept[i] = IF i \in door[d].pending THEN [codes[i] EXCEPT !.consumed = TRUE]
                    ELSE codes[i]
      BY <1>0
    <3>5. QED
      BY <3>1, <3>2, <3>3, <3>4
  <2>4. kept \in Seq(Codes) /\ Len(kept) = Len(codes)
    <3>1. \A i \in 1..Len(codes) : kept[i] \in Codes
      BY <2>3
    <3>2. QED
      BY <1>0, <3>1
  <2> HIDE DEF kept
  <2>5. /\ Len(codes') = Len(codes) + 1 /\ DOMAIN codes' = 1..(Len(codes) + 1)
        /\ \A i \in 1..Len(codes) : codes'[i].consumed
    BY <1>0, <2>1, <2>3, <2>4
  <2>6. \A i \in Pending' : i = Len(codes')
    BY <1>0, <2>5 DEF Pending
  <2>7. \A e \in Doors : door'[e].phase # "asking"
    BY <1>0, <2>1, <2>2 DEF Idle
  <2>8. \A e \in Doors : Verifies(e)' => door'[e].newest
    BY <1>0, <2>1 DEF NewestPending, Verifies, Idle
  <2>9. QED
    BY <2>6, <2>7, <2>8 DEF NewestPending
<1>3. QED
  BY <1>1, <1>2

LEMMA NewestTried ==
    ASSUME Typed, NewestPending, NEW d \in Doors,
           LookUp(d) \/ CountAttempt(d) \/ Accept(d) \/ Reject(d)
    PROVE  NewestPending'
<1>0. Len(codes') = Len(codes) /\ Pending' \subseteq Pending /\ crowded' = crowded
  BY PendingShrinks DEF LookUp, CountAttempt, Accept, Reject
<1>1. \A e \in Doors \ {d} : door'[e] = door[e]
  BY DEF LookUp, CountAttempt, Accept, Reject, Move, Typed, TypeOK
<1>2. CASE LookUp(d)
  <2>1. PICK i \in Pending :
          \/ UNCHANGED door
          \/ Move(d, [phase |-> "found", code |-> i, attempts |-> codes[i].attempts,
                      newest |-> i = Len(codes)])
    BY <1>2 DEF LookUp
  <2>2. CASE UNCHANGED door
    BY <1>0, <1>1, <1>2, <2>2, NewestShrinks DEF LookUp, Idle
  <2>3. CASE door' # door
    <3>1. door'[d] = [phase |-> "found", code |-> i, attempts |-> codes[i].attempts,
                      newest |-> i = Len(codes)]
      BY <2>1, <2>3 DEF Move, Typed, TypeOK
    <3>2. ~crowded => i = Len(codes)
      BY DEF NewestPending
    <3>3. door'[d].phase = "found" /\ door'[d].newest = (i = Len(codes))
      BY <3>1
    <3>4. ~crowded => door'[d].newest
      BY <3>2, <3>3
    <3>5. QED
      BY <1>0, <1>1, <3>3, <3>4, NewestShrinks
  <2>4. QED
    BY <2>2, <2>3
<1>3. CASE CountAttempt(d)
  <2>1. door[d] \in Verifying /\ (~crowded => door[d].newest)
    BY <1>3, AtDoor DEF CountAttempt, Verifies, NewestPending, Typed
  <2>2. door'[d] = [door[d] EXCEPT !.phase = "counted", !.attempts = door[d].attempts + 1]
    BY <1>3 DEF CountAttempt, Move, Typed, TypeOK
  <2>3. door'[d].phase = "counted" /\ door'[d].newest = door[d].newest
    BY <2>1, <2>2 DEF Verifying
  <2>4. QED
    BY <1>0, <1>1, <2>1, <2>3, NewestShrinks
<1>4. CASE Accept(d) \/ Reject(d)
  <2>1. door'[d] \in {Idle, [phase |-> "proven"]}
    BY <1>4 DEF Accept, Reject, Move, Typed, TypeOK
  <2>2. QED
    BY <1>0, <1>1, <2>1, NewestShrinks DEF Idle
<1>5. QED
  BY <1>2, <1>3, <1>4

\* A sign-in past its code.
LEMMA PastTheCode ==
    ASSUME Typed, NEW d \in Doors,
           \/ VerifyGoogle(d) \/ FindUser(d) \/ AddUser(d) \/ FindStore(d) \/ AddStore(d)
           \/ OpenSession(d) \/ FailSignIn(d)
    PROVE  /\ \A e \in Doors \ {d} : door'[e] = door[e]
           /\ door'[d].phase \in {"idle", "proven", "no_user", "user", "no_store", "store"}
           /\ UNCHANGED <<codes, crowded, now>>
<1>1. /\ \A e \in Doors \ {d} : door'[e] = door[e]
      /\ UNCHANGED <<codes, crowded, now>>
  BY DEF VerifyGoogle, FindUser, AddUser, FindStore, AddStore, OpenSession, FailSignIn,
         Move, Typed, TypeOK
<1>2. \A to : Move(d, to) => door'[d] = to
  BY DEF Move, Typed, TypeOK
<1>3. door'[d].phase \in {"idle", "proven", "no_user", "user", "no_store", "store"}
  <2>1. CASE VerifyGoogle(d)
    BY <1>2, <2>1 DEF VerifyGoogle
  <2>2. CASE FindUser(d)
    BY <1>2, <2>2 DEF FindUser
  <2>3. CASE AddUser(d)
    BY <1>2, <2>3 DEF AddUser, Idle
  <2>4. CASE FindStore(d)
    <3>1. CASE stores = 0
      BY <1>2, <2>4, <3>1 DEF FindStore
    <3>2. CASE stores # 0
      <4>1. PICK s \in 1..stores : Move(d, [phase |-> "store", store |-> s])
        BY <2>4, <3>2 DEF FindStore
      <4>2. QED
        BY <1>2, <4>1
    <3>3. QED
      BY <3>1, <3>2
  <2>5. CASE AddStore(d)
    BY <1>2, <2>5 DEF AddStore
  <2>6. CASE OpenSession(d) \/ FailSignIn(d)
    BY <1>2, <2>6 DEF OpenSession, FailSignIn, Idle
  <2>7. QED
    BY <2>1, <2>2, <2>3, <2>4, <2>5, <2>6
<1>4. QED
  BY <1>1, <1>3

LEMMA StepNewest == Typed /\ NewestPending /\ [Next]_vars => NewestPending'
<1> SUFFICES ASSUME Typed, NewestPending, [Next]_vars
             PROVE  NewestPending'
  OBVIOUS
<1>1. CASE UNCHANGED <<codes, door, crowded>>
  BY <1>1 DEF NewestPending, Verifies, Pending
<1>2. ASSUME NEW d \in Doors,
             \/ VerifyGoogle(d) \/ FindUser(d) \/ AddUser(d) \/ FindStore(d) \/ AddStore(d)
             \/ OpenSession(d) \/ FailSignIn(d)
      PROVE  NewestPending'
  <2>1. Pending' = Pending
    BY <1>2, PastTheCode DEF Pending
  <2>2. QED
    BY <1>2, <2>1, PastTheCode, NewestShrinks
<1>3. QED
  BY <1>1, <1>2, NewestAsked, NewestTried
     DEF Next, vars, Tick, live_session, Touch, Finish, sign_out, ListOthers,
         revoke_other_sessions

\* "Only the newest code works": until two requests for one overlap, the code a
\* sign-in holds was the newest when it was looked up.
THEOREM OnlyTheNewestWorks == Spec => []NewestCodeOnly
<1>1. Init => NewestPending
  BY DEF Init, NewestPending, Pending, Verifies, Idle
<1>2. NewestPending => NewestCodeOnly
  BY DEF NewestPending, NewestCodeOnly, Verifies
<1>3. QED
  BY <1>1, <1>2, InitTyped, StepTyped, StepNewest, PTL DEF Spec

---------------------------------------------------------------------------
(* A code that proved a sign-in is consumed; while nobody shared it, it has *)
(* one holder, who is the first.                                            *)

HeldOnce ==
    \A i \in DOMAIN codes :
       /\ codes[i].uses > 0 => codes[i].consumed
       /\ ~codes[i].shared =>
            /\ codes[i].uses <= 1
            /\ Holders(i) # {} => codes[i].uses = 0
            /\ \A d, e \in Holders(i) : d = e

\* Nobody takes a code up.
LEMMA HeldShrinks ==
    ASSUME HeldOnce, DOMAIN codes' = DOMAIN codes,
           \A i \in DOMAIN codes :
              /\ codes'[i].uses = codes[i].uses /\ codes'[i].shared = codes[i].shared
              /\ codes[i].consumed => codes'[i].consumed
              /\ Holders(i)' \subseteq Holders(i)
    PROVE  HeldOnce'
  BY DEF HeldOnce

LEMMA HeldAsked ==
    ASSUME Typed, HeldOnce, NEW d \in Doors, Issue(d)
    PROVE  HeldOnce'
<1> DEFINE kept == [i \in DOMAIN codes |->
                      IF i \in door[d].pending THEN [codes[i] EXCEPT !.consumed = TRUE]
                      ELSE codes[i]]
<1>0. /\ codes \in Seq(Codes) /\ DOMAIN codes = 1..Len(codes)
      /\ \A e \in Doors : door'[e] = IF e = d THEN Idle ELSE door[e]
  BY DEF Issue, Move, Typed, TypeOK
<1>1. codes' = Append(kept, NewCode)
  BY DEF Issue
<1>2. ASSUME NEW i \in 1..Len(codes)
      PROVE  /\ kept[i] \in Codes
             /\ kept[i].uses = codes[i].uses /\ kept[i].shared = codes[i].shared
             /\ codes[i].consumed => kept[i].consumed
  <2>1. codes[i] \in Codes
    BY <1>0
  <2>2. [codes[i] EXCEPT !.consumed = TRUE] \in Codes
    BY <2>1, CodeEdits
  <2>3. /\ [codes[i] EXCEPT !.consumed = TRUE].consumed
        /\ [codes[i] EXCEPT !.consumed = TRUE].uses = codes[i].uses
        /\ [codes[i] EXCEPT !.consumed = TRUE].shared = codes[i].shared
    BY <2>1 DEF Codes
  <2>4. kept[i] = IF i \in door[d].pending THEN [codes[i] EXCEPT !.consumed = TRUE]
                  ELSE codes[i]
    BY <1>0
  <2> HIDE DEF kept
  <2>5. CASE i \in door[d].pending
    BY <2>2, <2>3, <2>4, <2>5
  <2>6. CASE i \notin door[d].pending
    BY <2>1, <2>4, <2>6
  <2>7. QED
    BY <2>5, <2>6
<1>3. kept \in Seq(Codes) /\ Len(kept) = Len(codes)
  <2>1. \A i \in 1..Len(codes) : kept[i] \in Codes
    BY <1>2
  <2>2. QED
    BY <1>0, <2>1
<1> HIDE DEF kept
<1>4. /\ Len(codes') = Len(codes) + 1 /\ DOMAIN codes' = 1..(Len(codes) + 1)
      /\ codes'[Len(codes) + 1] = NewCode
      /\ \A i \in 1..Len(codes) : codes'[i] = kept[i]
  BY <1>0, <1>1, <1>3
<1>5. \A i : Holders(i)' \subseteq Holders(i)
  BY <1>0 DEF Holders, Idle
<1>6. ASSUME NEW i, i = Len(codes) + 1
      PROVE  Holders(i)' = {}
  <2>1. i \notin DOMAIN codes
    BY <1>0, <1>6
  <2>2. Holders(i) = {}
    BY <2>1 DEF Holders, Typed, Holds, Verifies
  <2>3. QED
    BY <1>5, <2>2
<1> SUFFICES ASSUME NEW i \in 1..(Len(codes) + 1)
             PROVE  /\ codes'[i].uses > 0 => codes'[i].consumed
                    /\ ~codes'[i].shared =>
                          /\ codes'[i].uses <= 1
                          /\ Holders(i)' # {} => codes'[i].uses = 0
                          /\ \A a, b \in Holders(i)' : a = b
  BY <1>4 DEF HeldOnce
<1>7. CASE i = Len(codes) + 1
  <2>1. codes'[i].uses = 0 /\ ~codes'[i].shared
    BY <1>4, <1>7 DEF NewCode
  <2>2. Holders(i)' = {}
    BY <1>6, <1>7
  <2>3. QED
    BY <2>1, <2>2
<1>8. CASE i \in 1..Len(codes)
  BY <1>0, <1>2, <1>4, <1>5, <1>8 DEF HeldOnce
<1>9. QED
  BY <1>0, <1>7, <1>8

LEMMA HeldLooked ==
    ASSUME Typed, HeldOnce, NEW d \in Doors, LookUp(d)
    PROVE  HeldOnce'
<1>0. codes \in Seq(Codes) /\ \A i \in DOMAIN codes : codes[i] \in Codes
  BY DEF Typed, TypeOK
<1>1. PICK i \in Pending :
        IF Spent(codes[i])
        THEN codes' = [codes EXCEPT ![i].consumed = TRUE] /\ UNCHANGED door
        ELSE /\ codes' = [codes EXCEPT ![i].shared = @ \/ Holders(i) # {}]
             /\ Move(d, [phase |-> "found", code |-> i, attempts |-> codes[i].attempts,
                         newest |-> i = Len(codes)])
  BY DEF LookUp
<1>2. i \in DOMAIN codes /\ ~codes[i].consumed
  BY DEF Pending
<1>3. CASE Spent(codes[i])
  <2>1. \A j : Holders(j)' = Holders(j)
    BY <1>1, <1>3 DEF Holders
  <2>2. /\ [codes[i] EXCEPT !.consumed = TRUE].uses = codes[i].uses
        /\ [codes[i] EXCEPT !.consumed = TRUE].shared = codes[i].shared
        /\ [codes[i] EXCEPT !.consumed = TRUE].consumed
    BY <1>0, <1>2 DEF Codes
  <2>3. codes' = [codes EXCEPT ![i] = [codes[i] EXCEPT !.consumed = TRUE]]
    BY <1>1, <1>3
  <2>4. DOMAIN codes' = DOMAIN codes /\ \A j \in DOMAIN codes :
           codes'[j] = IF j = i THEN [codes[i] EXCEPT !.consumed = TRUE] ELSE codes[j]
    BY <1>0, <1>2, <2>3
  <2>5. QED
    BY <2>1, <2>2, <2>4, HeldShrinks
<1>4. CASE ~Spent(codes[i])
  <2>1. \A e \in Doors : door'[e] =
          IF e = d THEN [phase |-> "found", code |-> i, attempts |-> codes[i].attempts,
                         newest |-> i = Len(codes)]
          ELSE door[e]
    BY <1>1, <1>4 DEF Move, Typed, TypeOK
  <2>2. door[d].phase = "idle"
    BY DEF LookUp, Idle
  <2>3. /\ Holders(i)' = Holders(i) \cup {d}
        /\ \A j : j # i => Holders(j)' = Holders(j)
    BY <2>1, <2>2 DEF Holders
  <2>4. PICK b \in BOOLEAN : b = (codes[i].shared \/ Holders(i) # {})
    BY <1>0, <1>2 DEF Codes
  <2> DEFINE c == [codes[i] EXCEPT !.shared = b]
  <2>5. c.uses = codes[i].uses /\ c.consumed = codes[i].consumed /\ c.shared = b
    BY <1>0, <1>2 DEF Codes
  <2>6. DOMAIN codes' = DOMAIN codes
        /\ \A j \in DOMAIN codes : codes'[j] = IF j = i THEN c ELSE codes[j]
    BY <1>0, <1>1, <1>2, <1>4, <2>4
  <2>7. codes[i].uses = 0
    BY <1>0, <1>2 DEF HeldOnce, Codes
  <2> HIDE DEF c
  <2> SUFFICES ASSUME NEW j \in DOMAIN codes
               PROVE  /\ codes'[j].uses > 0 => codes'[j].consumed
                      /\ ~codes'[j].shared =>
                            /\ codes'[j].uses <= 1
                            /\ Holders(j)' # {} => codes'[j].uses = 0
                            /\ \A x, y \in Holders(j)' : x = y
    BY <2>6 DEF HeldOnce
  <2>8. CASE j = i
    <3>1. codes'[j].uses = 0 /\ codes'[j].shared = b
      BY <2>5, <2>6, <2>7, <2>8
    <3>2. ~b => Holders(j)' = {d}
      BY <2>3, <2>4, <2>8
    <3>3. QED
      BY <3>1, <3>2
  <2>9. CASE j # i
    BY <2>3, <2>6, <2>9 DEF HeldOnce
  <2>10. QED
    BY <2>8, <2>9
<1>5. QED
  BY <1>3, <1>4

LEMMA HeldTried ==
    ASSUME Typed, HeldOnce, NEW d \in Doors, CountAttempt(d) \/ Accept(d) \/ Reject(d)
    PROVE  HeldOnce'
<1> PICK i \in DOMAIN codes : i = door[d].code
  BY DEF CountAttempt, Accept, Reject, Typed, Holds, Verifies
<1>0. /\ codes \in Seq(Codes) /\ \A j \in DOMAIN codes : codes[j] \in Codes
      /\ i = door[d].code /\ d \in Holders(i)
      /\ \A e \in Doors : e # d => door'[e] = door[e]
  BY DEF CountAttempt, Accept, Reject, Move, Holders, Typed, TypeOK, Holds, Verifies
<1>1. ASSUME NEW c, codes' = [codes EXCEPT ![i] = c]
      PROVE  DOMAIN codes' = DOMAIN codes
             /\ \A j \in DOMAIN codes : codes'[j] = IF j = i THEN c ELSE codes[j]
  BY <1>0, <1>1
<1>2. CASE CountAttempt(d)
  <2>1. door'[d] = [door[d] EXCEPT !.phase = "counted", !.attempts = door[d].attempts + 1]
    BY <1>2 DEF CountAttempt, Move, Typed, TypeOK
  <2>2. door[d] \in Verifying
    BY <1>2, AtDoor DEF CountAttempt, Verifies, Typed
  <2>3. door'[d].code = door[d].code
    BY <2>1, <2>2 DEF Verifying
  <2>4. \A j : Holders(j)' \subseteq Holders(j)
    BY <1>0, <2>3, <1>2 DEF Holders, CountAttempt
  <2> DEFINE c == [codes[i] EXCEPT !.attempts = door[d].attempts + 1]
  <2>5. c.uses = codes[i].uses /\ c.shared = codes[i].shared /\ c.consumed = codes[i].consumed
    BY <1>0 DEF Codes
  <2>6. codes' = [codes EXCEPT ![i] = c]
    BY <1>0, <1>2 DEF CountAttempt
  <2> HIDE DEF c
  <2>7. QED
    BY <1>1, <2>4, <2>5, <2>6, HeldShrinks
<1>3. CASE Reject(d)
  <2>1. door'[d] = Idle
    BY <1>3 DEF Reject, Move, Typed, TypeOK
  <2>2. \A j : Holders(j)' \subseteq Holders(j)
    BY <1>0, <2>1 DEF Holders, Idle
  <2>3. PICK b \in BOOLEAN : b = (codes[i].consumed \/ door[d].attempts >= MaxAttempts)
    BY <1>0 DEF Codes
  <2> DEFINE c == [codes[i] EXCEPT !.consumed = b]
  <2>4. c.uses = codes[i].uses /\ c.shared = codes[i].shared /\ c.consumed = b
    BY <1>0 DEF Codes
  <2>5. codes' = [codes EXCEPT ![i] = c]
    BY <1>0, <1>3, <2>3 DEF Reject
  <2> HIDE DEF c
  <2>6. QED
    BY <1>1, <2>2, <2>3, <2>4, <2>5, HeldShrinks
<1>4. CASE Accept(d)
  <2>1. door'[d].phase = "proven"
    BY <1>4 DEF Accept, Move, Typed, TypeOK
  <2>2. \A j : Holders(j)' = Holders(j) \ {d}
    BY <1>0, <2>1 DEF Holders
  <2> DEFINE c == [codes[i] EXCEPT !.consumed = TRUE, !.uses = @ + 1]
  <2>3. c.uses = codes[i].uses + 1 /\ c.shared = codes[i].shared /\ c.consumed
    BY <1>0 DEF Codes
  <2>4. codes' = [codes EXCEPT ![i] = c]
    BY <1>0, <1>4 DEF Accept
  <2> HIDE DEF c
  <2>5. DOMAIN codes' = DOMAIN codes
        /\ \A j \in DOMAIN codes : codes'[j] = IF j = i THEN c ELSE codes[j]
    BY <1>1, <2>4
  <2> SUFFICES ASSUME NEW j \in DOMAIN codes
               PROVE  /\ codes'[j].uses > 0 => codes'[j].consumed
                      /\ ~codes'[j].shared =>
                            /\ codes'[j].uses <= 1
                            /\ Holders(j)' # {} => codes'[j].uses = 0
                            /\ \A x, y \in Holders(j)' : x = y
    BY <2>5 DEF HeldOnce
  <2>6. CASE j = i
    <3>1. ~codes[i].shared => codes[i].uses = 0
      BY <1>0 DEF HeldOnce
    <3>2. ~codes[i].shared => \A x, y \in Holders(i) : x = y
      BY <1>0 DEF HeldOnce
    <3>3. ~codes[i].shared => Holders(i)' = {}
      <4>1. Holders(i)' = Holders(i) \ {d}
        BY <2>2
      <4>2. QED
        BY <1>0, <3>2, <4>1
    <3>4. codes'[j] = c
      BY <2>5, <2>6
    <3>5. codes'[j].consumed
      BY <2>3, <3>4
    <3>6. ~codes'[j].shared => codes'[j].uses = 1 /\ Holders(j)' = {}
      BY <2>3, <2>6, <3>1, <3>3, <3>4
    <3>7. QED
      BY <3>5, <3>6
  <2>7. CASE j # i
    BY <2>2, <2>5, <2>7 DEF HeldOnce
  <2>8. QED
    BY <2>6, <2>7
<1>5. QED
  BY <1>2, <1>3, <1>4

LEMMA StepHeld == Typed /\ HeldOnce /\ [Next]_vars => HeldOnce'
<1> SUFFICES ASSUME Typed, HeldOnce, [Next]_vars
             PROVE  HeldOnce'
  OBVIOUS
<1>1. CASE UNCHANGED <<codes, door>>
  <2>1. \A i : Holders(i)' = Holders(i)
    BY <1>1 DEF Holders
  <2>2. QED
    BY <1>1, <2>1, HeldShrinks
<1>2. ASSUME NEW d \in Doors,
             \/ VerifyGoogle(d) \/ FindUser(d) \/ AddUser(d) \/ FindStore(d) \/ AddStore(d)
             \/ OpenSession(d) \/ FailSignIn(d) \/ AskForCode(d)
      PROVE  HeldOnce'
  <2>1. UNCHANGED codes /\ \A e \in Doors \ {d} : door'[e] = door[e]
    BY <1>2, PastTheCode DEF AskForCode, Move, Typed, TypeOK
  <2>2. door'[d].phase \notin {"found", "counted"}
    BY <1>2, PastTheCode DEF AskForCode, Move, Typed, TypeOK
  <2>3. \A i : Holders(i)' \subseteq Holders(i)
    BY <2>1, <2>2 DEF Holders
  <2>4. QED
    BY <2>1, <2>3, HeldShrinks
<1>3. QED
  BY <1>1, <1>2, HeldAsked, HeldLooked, HeldTried
     DEF Next, vars, Tick, live_session, Touch, Finish, sign_out, ListOthers,
         revoke_other_sessions

\* A code proves one sign-in, whatever is tried, retried, failed or asked for
\* again in between, unless two sign-ins held it at the same time.
THEOREM CodesAreSpent == Spec => []CodeProvesOnce
<1>1. Init => HeldOnce
  BY DEF Init, HeldOnce
<1>2. HeldOnce => CodeProvesOnce
  BY DEF HeldOnce, CodeProvesOnce
<1>3. QED
  BY <1>1, <1>2, InitTyped, StepTyped, StepHeld, PTL DEF Spec

---------------------------------------------------------------------------
(* One store, found by all or made by the one who found none.              *)

OneStore ==
    ~raced =>
       /\ stores <= 1
       /\ \A d \in Doors : door[d].phase = "no_store" => stores = 0
       /\ \A d, e \in Doors : door[d].phase = "no_store" /\ door[e].phase = "no_store" => d = e
       /\ \A d \in Doors : door[d].phase = "store" => door[d].store = stores
       /\ \A s \in DOMAIN sessions : sessions[s].store = stores

\* The steps of a sign-in that concern no store.
LEMMA OtherDoors ==
    ASSUME Typed, OneStore, NEW d \in Doors,
           \A e \in Doors \ {d} : door'[e] = door[e],
           door'[d].phase \notin {"no_store", "store"},
           UNCHANGED <<stores, sessions, raced>>
    PROVE  OneStore'
  BY DEF OneStore

LEMMA StoreFound ==
    ASSUME Typed, OneStore, NEW d \in Doors, FindStore(d)
    PROVE  OneStore'
<1>0. /\ \A to : Move(d, to) => door'[d] = to
      /\ \A e \in Doors \ {d} : door'[e] = door[e]
      /\ UNCHANGED <<stores, sessions>>
      /\ stores \in Nat
  BY Numbers DEF FindStore, Move, Typed, TypeOK, SignedIn, StoreIds
<1>1. CASE stores = 0
  <2>1. door'[d].phase = "no_store"
    BY <1>0, <1>1 DEF FindStore
  <2>2. ~raced' => ~raced /\ \A e \in Doors : door[e].phase # "no_store"
    BY <1>1 DEF FindStore
  <2>3. QED
    BY <1>0, <1>1, <2>1, <2>2 DEF OneStore
<1>2. CASE stores # 0
  <2>1. PICK s \in 1..stores : Move(d, [phase |-> "store", store |-> s])
    BY <1>2 DEF FindStore
  <2>2. door'[d].phase = "store" /\ door'[d].store = s
    BY <1>0, <2>1
  <2>3. ~raced' => ~raced
    BY DEF FindStore
  <2>4. ~raced => s = stores
    BY <1>0, <2>1 DEF OneStore
  <2>5. QED
    BY <1>0, <2>2, <2>3, <2>4 DEF OneStore
<1>3. QED
  BY <1>1, <1>2

LEMMA StoreAdded ==
    ASSUME Typed, OneStore, NEW d \in Doors, AddStore(d)
    PROVE  OneStore'
<1> SUFFICES ASSUME ~raced
             PROVE  OneStore'
  BY DEF AddStore, OneStore
<1>1. stores = 0 /\ \A e \in Doors \ {d} : door[e].phase # "no_store"
  BY DEF OneStore, AddStore
<1>2. \A e \in Doors : door[e].phase # "store"
  BY <1>1, AtDoor DEF OneStore, AtHome, StoreIds, Typed
<1>3. DOMAIN sessions = {}
  <2>1. ASSUME NEW s \in DOMAIN sessions
        PROVE  FALSE
    <3>1. sessions[s].store \in StoreIds
      <4>1. sessions[s] \in Sessions
        BY DEF Typed, TypeOK
      <4>2. QED
        BY <4>1 DEF Sessions
    <3>2. sessions[s].store = 0
      BY <1>1 DEF OneStore
    <3>3. QED
      BY <3>1, <3>2 DEF StoreIds
  <2>2. QED
    BY <2>1
<1>4. /\ stores' = 1 /\ UNCHANGED <<sessions, raced>>
      /\ door'[d] = [phase |-> "store", store |-> 1]
      /\ \A e \in Doors \ {d} : door'[e] = door[e]
  BY <1>1 DEF AddStore, Move, Typed, TypeOK, SignedIn
<1>5. QED
  BY <1>1, <1>2, <1>3, <1>4 DEF OneStore

LEMMA StoreOpened ==
    ASSUME Typed, OneStore, NEW d \in Doors, OpenSession(d)
    PROVE  OneStore'
<1> DEFINE opened == [store |-> door[d].store, opened |-> now, seen |-> now, revoked |-> FALSE]
<1>1. sessions \in Seq(Sessions) /\ sessions' = Append(sessions, opened)
  BY DEF OpenSession, Typed, TypeOK
<1>2. opened.store = door[d].store
  OBVIOUS
<1> HIDE DEF opened
<1>3. \A s \in DOMAIN sessions' : \/ s \in DOMAIN sessions /\ sessions'[s] = sessions[s]
                                  \/ sessions'[s] = opened
  BY <1>1
<1>4. /\ UNCHANGED <<stores, raced>> /\ door'[d].phase = "idle"
      /\ \A e \in Doors \ {d} : door'[e] = door[e]
  BY DEF OpenSession, Move, Typed, TypeOK, Account, Idle
<1>5. ~raced => door[d].store = stores
  BY DEF OpenSession, OneStore
<1>6. QED
  BY <1>2, <1>3, <1>4, <1>5 DEF OneStore

\* A request writes when a session was seen and that it ended, not its store.
LEMMA StoresKept ==
    ASSUME Typed, NEW r \in Requests, Touch(r) \/ sign_out(r) \/ revoke_other_sessions(r)
    PROVE  /\ DOMAIN sessions' = DOMAIN sessions
           /\ \A s \in DOMAIN sessions : sessions'[s].store = sessions[s].store
<1>0. /\ sessions \in Seq(Sessions)
      /\ \A s \in DOMAIN sessions : sessions[s] \in Sessions
  BY DEF Typed, TypeOK
<1>1. \A s \in DOMAIN sessions :
         /\ [sessions[s] EXCEPT !.seen = now].store = sessions[s].store
         /\ [sessions[s] EXCEPT !.revoked = TRUE].store = sessions[s].store
  BY <1>0 DEF Sessions
<1>2. CASE Touch(r)
  BY <1>0, <1>1, <1>2 DEF Touch
<1>3. CASE sign_out(r)
  BY <1>0, <1>1, <1>3 DEF sign_out
<1>4. CASE revoke_other_sessions(r)
  BY <1>0, <1>1, <1>4 DEF revoke_other_sessions
<1>5. QED
  BY <1>2, <1>3, <1>4

LEMMA StepStore == Typed /\ OneStore /\ [Next]_vars => OneStore'
<1> SUFFICES ASSUME Typed, OneStore, [Next]_vars
             PROVE  OneStore'
  OBVIOUS
<1>1. CASE UNCHANGED <<stores, sessions, door, raced>>
  BY <1>1 DEF OneStore
<1>2. ASSUME NEW d \in Doors,
             \/ AskForCode(d) \/ Issue(d) \/ CountAttempt(d) \/ Accept(d) \/ Reject(d)
             \/ VerifyGoogle(d) \/ FindUser(d) \/ AddUser(d) \/ FailSignIn(d)
      PROVE  OneStore'
  <2>1. /\ \A e \in Doors \ {d} : door'[e] = door[e]
        /\ \A to : Move(d, to) => door'[d] = to
        /\ UNCHANGED <<stores, sessions, raced>>
    BY <1>2 DEF AskForCode, Issue, CountAttempt, Accept, Reject, VerifyGoogle, FindUser, AddUser,
                FailSignIn, Move, Typed, TypeOK, Account, SignedIn
  <2>2. CASE CountAttempt(d)
    <3>1. door[d] \in Verifying
      BY <2>2, AtDoor DEF CountAttempt, Verifies, Typed
    <3>2. door'[d].phase = "counted"
      BY <2>1, <2>2, <3>1 DEF CountAttempt, Verifying
    <3>3. QED
      BY <2>1, <3>2, OtherDoors
  <2>3. CASE AskForCode(d) \/ Issue(d) \/ Accept(d) \/ Reject(d)
    BY <2>1, <2>3, OtherDoors DEF AskForCode, Issue, Accept, Reject, Idle
  <2>4. CASE VerifyGoogle(d) \/ FailSignIn(d)
    BY <2>1, <2>4, OtherDoors DEF VerifyGoogle, FailSignIn, Idle
  <2>5. CASE FindUser(d)
    BY <2>1, <2>5, OtherDoors DEF FindUser
  <2>6. CASE AddUser(d)
    BY <2>1, <2>6, OtherDoors DEF AddUser, Idle
  <2>7. QED
    BY <1>2, <2>2, <2>3, <2>4, <2>5, <2>6
<1>3. ASSUME NEW d \in Doors, LookUp(d)
      PROVE  OneStore'
  <2>1. PICK i \in Pending :
          \/ UNCHANGED door
          \/ Move(d, [phase |-> "found", code |-> i, attempts |-> codes[i].attempts,
                      newest |-> i = Len(codes)])
    BY <1>3 DEF LookUp
  <2>2. UNCHANGED <<stores, sessions, raced>>
    BY <1>3 DEF LookUp, Account, SignedIn
  <2>3. CASE UNCHANGED door
    BY <1>1, <2>2, <2>3
  <2>4. CASE door' # door
    <3>1. door'[d].phase = "found" /\ \A e \in Doors \ {d} : door'[e] = door[e]
      BY <2>1, <2>4 DEF Move, Typed, TypeOK
    <3>2. QED
      BY <2>2, <3>1, OtherDoors
  <2>5. QED
    BY <2>3, <2>4
<1>4. ASSUME NEW r \in Requests, Touch(r) \/ sign_out(r) \/ revoke_other_sessions(r)
      PROVE  OneStore'
  <2>1. UNCHANGED <<stores, door, raced>>
    BY <1>4 DEF Touch, sign_out, revoke_other_sessions, Account
  <2>2. QED
    BY <1>4, <2>1, StoresKept DEF OneStore
<1>5. QED
  BY <1>1, <1>2, <1>3, <1>4, StoreFound, StoreAdded, StoreOpened
     DEF Next, vars, Tick, live_session, Finish, ListOthers, Account, SignedIn

\* "Both doors have to arrive at the same user and the same tenant": unless two
\* first sign-ins raced for the store, all the sessions of one person share it.
THEOREM OneHome == Spec => []OneStoreEach
<1>1. Init => OneStore
  BY DEF Init, OneStore, Idle
<1>2. OneStore => OneStoreEach
  BY DEF OneStore, OneStoreEach
<1>3. QED
  BY <1>1, <1>2, InitTyped, StepTyped, StepStore, PTL DEF Spec
=============================================================================
