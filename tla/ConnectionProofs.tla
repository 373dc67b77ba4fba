-------------------------- MODULE ConnectionProofs --------------------------
(***************************************************************************)
(* What Connection promises, for any tenants, shops, places in the pilot,  *)
(* authorizations and failures, and what ShopifyHooks promises of the      *)
(* notifications that come over a connection, for any number of them and   *)
(* of processes that handle them.                                          *)
(*                                                                         *)
(* What a request knows was read before it acts: the invariants say of     *)
(* every callback, disconnect, delivery and sync under way what still      *)
(* holds of what it read, and until when.                                  *)
(***************************************************************************)
EXTENDS Connection, ShopifyHooks, FiniteSetTheorems, TLAPS

---------------------------------------------------------------------------
(* Types.                                                                  *)

LEMMA PairParts ==
    ASSUME NEW p \in Pairs
    PROVE  Tenant(p) \in Tenants /\ Shop(p) \in Shops
  BY ConnectionAssumption DEF Tenant, Shop

LEMMA InitType == Init => TypeOK
<1> SUFFICES ASSUME Init
             PROVE  TypeOK
  OBVIOUS
<1>1. 0 \in Tokens /\ NoChannel \in Channels
  BY ConnectionAssumption DEF Tokens, NoChannel, Channels, Statuses
<1>2. NoSync \in Syncs /\ [live |-> FALSE, token |-> 0] \in Installs
  BY <1>1 DEF NoSync, Syncs, Installs
<1>3. approvals \in 0..MaxApprovals /\ faults \in 0..MaxFaults
  BY ConnectionAssumption DEF Init
<1>4. QED
  BY <1>1, <1>2, <1>3 DEF Init, TypeOK

\* A code is exchanged only while the shop has the app, for the token it has.
LEMMA Exchanged ==
    ASSUME NEW s, NEW token \in exchange_code(s)
    PROVE  install[s].live /\ token = install[s].token
  BY DEF exchange_code

LEMMA CallbackType ==
    ASSUME TypeOK, NEW c \in callbacks,
           Look(c) \/ Admit(c) \/ Connect(c) \/ FailCallback(c)
    PROVE  TypeOK'
<1>1. c \in Requests /\ c.pair \in Pairs /\ Shop(c.pair) \in Shops /\ channel[c.pair] \in Channels
  BY PairParts DEF TypeOK, Requests
<1>2. ASSUME NEW at \in {"checked", "admitted"}, NEW seen \in Channels, Move(c, at, seen)
      PROVE  callbacks' \subseteq Requests
  BY <1>1, <1>2 DEF Move, TypeOK, Requests
<1>3. ASSUME Refuse(c)
      PROVE  callbacks' \subseteq Requests
  BY <1>3 DEF Refuse, TypeOK
<1>4. CASE Look(c)
  BY <1>1, <1>2, <1>3, <1>4 DEF Look, Shopify, TypeOK
<1>5. CASE Admit(c)
  BY <1>1, <1>2, <1>3, <1>5 DEF Admit, Shopify, TypeOK, Requests
<1>6. CASE Connect(c)
  <2>1. CASE UNCHANGED <<channel, credential, renewed>>
    BY <1>1, <1>3, <1>6, <2>1 DEF Connect, Register, TypeOK
  <2>2. CASE ~UNCHANGED <<channel, credential, renewed>>
    <3>1. PICK token \in exchange_code(Shop(c.pair)) :
             /\ subscribed' \in {subscribed, subscribed \cup {Shop(c.pair)}}
             /\ channel' = [channel EXCEPT
                      ![c.pair].status = IF c.seen.status = "connected" THEN @ ELSE "connected",
                      ![c.pair].revoked = c.seen.revoked]
             /\ credential' = [credential EXCEPT ![c.pair] = token]
             /\ renewed' = [renewed EXCEPT ![c.pair] = c.no]
      BY <1>6, <2>2 DEF Connect, Register
    <3>2. token \in Tokens
      BY <1>1, Exchanged DEF TypeOK, Installs
    <3>3. channel' \in [Pairs -> Channels]
      BY <1>1, <3>1 DEF TypeOK, Channels, Statuses, Requests
    <3>4. renewed' \in [Pairs -> Tokens] /\ credential' \in [Pairs -> Tokens]
      BY <1>1, <3>1, <3>2, ConnectionAssumption DEF TypeOK, Tokens, Requests
    <3>5. QED
      BY <1>1, <1>3, <1>6, <3>1, <3>3, <3>4 DEF Connect, TypeOK
  <2>3. QED
    BY <2>1, <2>2
<1>7. CASE FailCallback(c)
  BY <1>3, <1>7, ConnectionAssumption DEF FailCallback, Fault, Shopify, TypeOK
<1>8. QED
  BY <1>4, <1>5, <1>6, <1>7

LEMMA LeavingType ==
    ASSUME TypeOK, NEW l \in leaving, Leave(l) \/ FailToLeave(l)
    PROVE  TypeOK'
<1>1. CASE Leave(l)
  BY <1>1, ConnectionAssumption
     DEF Leave, Ended, Shopify, TypeOK, Leavings, Channels, Statuses, Tokens
<1>2. CASE FailToLeave(l)
  BY <1>2, ConnectionAssumption DEF FailToLeave, Fault, Shopify, TypeOK
<1>3. QED
  BY <1>1, <1>2

LEMMA NoticeType ==
    ASSUME TypeOK, NEW n \in notices, DeliverUninstalled(n) \/ DeliverRedact(n)
    PROVE  TypeOK'
<1>1. CASE DeliverUninstalled(n)
  BY <1>1 DEF DeliverUninstalled, Addressed, Ended, TypeOK, Channels, Statuses
<1>2. CASE DeliverRedact(n)
  BY <1>2, ConnectionAssumption
     DEF DeliverRedact, Addressed, Ended, TypeOK, Channels, Statuses, Tokens
<1>3. QED
  BY <1>1, <1>2

LEMMA UninstallType ==
    ASSUME TypeOK, NEW s \in Shops, Uninstall(s)
    PROVE  TypeOK'
<1>1. install' \in [Shops -> Installs]
  BY DEF Uninstall, TypeOK, Installs
<1>2. notices' \subseteq Notices
  BY DEF Uninstall, TypeOK, Notices, Installs
<1>3. QED
  BY <1>1, <1>2 DEF Uninstall, TypeOK

LEMMA SyncType ==
    ASSUME TypeOK, NEW p \in Pairs,
           Queued(p) \/ Load(p) \/ Deny(p) \/ CommitSync(p) \/ MarkRevoked(p) \/ FailSync(p)
    PROVE  TypeOK'
<1>0. NoSync \in Syncs /\ sync[p] \in Syncs /\ channel[p] \in Channels
  BY ConnectionAssumption
     DEF TypeOK, Syncs, NoSync, Channels, NoChannel, Statuses, Tokens
<1>1. CASE Queued(p)
  BY <1>1 DEF Queued, Shopify, TypeOK, Syncs
<1>2. CASE Load(p)
  BY <1>2 DEF Load, Shopify, TypeOK, Syncs
<1>3. CASE Deny(p)
  BY <1>3 DEF Deny, Shopify, TypeOK, Syncs
<1>4. CASE CommitSync(p)
  BY <1>0, <1>4 DEF CommitSync, Shopify, TypeOK, Syncs, Channels
<1>5. CASE MarkRevoked(p)
  BY <1>0, <1>5, ConnectionAssumption
     DEF MarkRevoked, Marked, Ended, Shopify, TypeOK, Channels, Statuses, Tokens
<1>6. CASE FailSync(p)
  BY <1>0, <1>6, ConnectionAssumption DEF FailSync, Fault, Shopify, TypeOK
<1>7. QED
  BY <1>1, <1>2, <1>3, <1>4, <1>5, <1>6

LEMMA MerchantType ==
    ASSUME TypeOK, NEW p \in Pairs, Approve(p) \/ StartToLeave(p) \/ RetryNotifications(p)
    PROVE  TypeOK'
<1>0. Shop(p) \in Shops
  BY PairParts
<1>1. CASE Approve(p)
  <2>1. approvals + 1 \in 1..MaxApprovals
    BY <1>1, ConnectionAssumption DEF Approve, TypeOK
  <2>2. install' \in [Shops -> Installs]
    <3>1. [live |-> TRUE, token |-> approvals + 1] \in Installs
      BY <2>1, ConnectionAssumption DEF Installs, Tokens
    <3>2. \/ install' = install
          \/ install' = [install EXCEPT ![Shop(p)] = [live |-> TRUE, token |-> approvals + 1]]
      BY <1>1 DEF Approve
    <3>3. QED
      BY <1>0, <3>1, <3>2 DEF TypeOK
  <2>3. callbacks' \subseteq Requests
    <3>1. [no |-> approvals + 1, at |-> "approved", pair |-> p, seen |-> NoChannel] \in Requests
      BY <2>1 DEF Requests, NoChannel, Channels, Statuses
    <3>2. QED
      BY <1>1, <3>1 DEF Approve, TypeOK
  <2>4. crossed' \in BOOLEAN
    BY <1>1 DEF Approve
  <2>5. QED
    BY <1>1, <2>1, <2>2, <2>3, <2>4 DEF Approve, TypeOK
<1>2. CASE StartToLeave(p)
  BY <1>0, <1>2 DEF StartToLeave, Unsubscribe, TypeOK, Leavings
<1>3. CASE RetryNotifications(p)
  BY <1>0, <1>3 DEF RetryNotifications, Register, TypeOK
<1>4. QED
  BY <1>1, <1>2, <1>3

LEMMA TypeStep == TypeOK /\ [Next]_vars => TypeOK'
<1> SUFFICES ASSUME TypeOK, [Next]_vars
             PROVE  TypeOK'
  OBVIOUS
<1>1. CASE UNCHANGED vars
  BY <1>1 DEF vars, TypeOK
<1>2. CASE Next
  BY <1>2, CallbackType, LeavingType, NoticeType, UninstallType, SyncType, MerchantType
     DEF Next, DailySync, AskForSync
<1>3. QED
  BY <1>1, <1>2

\* The type invariant holds for any tenants, shops, bounds and failures
\* (db/models.py: channel_connections, integration_credentials).
THEOREM TypeCorrect == Spec => []TypeOK
  BY InitType, TypeStep, PTL DEF Spec

---------------------------------------------------------------------------
(* The inductive invariant.                                                *)

\* Tokens and authorizations are numbered as they are given out.
Numbered ==
    /\ \A s \in Shops : install[s].token <= approvals /\ (install[s].live => install[s].token # 0)
    /\ \A p \in Pairs : /\ credential[p] <= approvals /\ renewed[p] <= approvals
                        /\ sync[p].token <= approvals /\ sync[p].renewed <= approvals
    /\ \A c \in callbacks : c.no <= approvals

\* An authorization is used once: none under way made a connection already.
UsedOnce ==
    \A c \in callbacks :
        /\ \A d \in callbacks : c.no = d.no => c = d
        /\ \A p \in Pairs : renewed[p] # c.no /\ sync[p].renewed # c.no

\* Who ends, syncs or renews a connection works on a row that is there.
RowExists ==
    /\ \A p \in Pairs \ Enrolled : channel[p] = NoChannel /\ sync[p].at = "idle"
    /\ \A l \in leaving : l.pair \in Enrolled
    /\ \A c \in callbacks : c.seen # NoChannel => c.pair \in Enrolled

\* Whoever holds the lock of the pilot holds it alone, and its place is there.
PlaceIsKept ==
    \A c \in callbacks : c.at = "admitted" =>
        /\ HasSpace(Shop(c.pair))
        /\ \A d \in callbacks : d.at = "admitted" => c = d

\* As long as no two tenants' callbacks for one shop overlapped, whoever has
\* looked is still the only one to hold it.
StillAlone ==
    ~crossed => \A c \in callbacks :
        /\ \A d \in callbacks : Shop(c.pair) = Shop(d.pair) => Tenant(c.pair) = Tenant(d.pair)
        /\ c.at # "approved" => HeldByOthers(c.pair) = {}

\* What a sync found out stays true until the merchant connects again.
DeniedForGood ==
    \A p \in Pairs : sync[p].at \in {"loaded", "denied"} =>
        /\ sync[p].renewed = renewed[p] => credential[p] \in {0, sync[p].token}
        /\ sync[p].at = "denied" => sync[p].token = 0 \/ Refused(p)

KeyBeside == \A p \in Pairs : Connected(p) => credential[p] # 0

LEMMA NoSyncParts == NoSync.at = "idle" /\ NoSync.token = 0 /\ NoSync.renewed = 0
  BY DEF NoSync

\* A callback that moves on stays the same authorization.
LEMMA Moved ==
    ASSUME TypeOK, NEW c \in callbacks, NEW at, NEW seen, Move(c, at, seen)
    PROVE  \E d : /\ callbacks' = (callbacks \ {c}) \cup {d}
                  /\ d.no = c.no /\ d.pair = c.pair /\ d.at = at /\ d.seen = seen
<1>1. c \in Requests
  BY DEF TypeOK
<1>2. DEFINE d == [c EXCEPT !.at = at, !.seen = seen]
<1>3. d.no = c.no /\ d.pair = c.pair /\ d.at = at /\ d.seen = seen
  BY <1>1 DEF Requests
<1>4. callbacks' = (callbacks \ {c}) \cup {d}
  BY DEF Move
<1>5. QED
  BY <1>3, <1>4

\* A request to the callback either ends or goes on as the same authorization.
LEMMA CallbackMoves ==
    ASSUME TypeOK, NEW c \in callbacks, Look(c) \/ Admit(c) \/ Connect(c) \/ FailCallback(c)
    PROVE  \/ callbacks' = callbacks \ {c}
           \/ \E d : /\ callbacks' = (callbacks \ {c}) \cup {d}
                     /\ d.no = c.no /\ d.pair = c.pair
<1>1. CASE Refuse(c)
  BY <1>1 DEF Refuse
<1>2. CASE \E at, seen : Move(c, at, seen)
  BY <1>2, Moved
<1>3. QED
  BY <1>1, <1>2 DEF Look, Admit, Connect, FailCallback

\* Only Shopify gives out a token, and it numbers the authorizations.
LEMMA NumberedStep ==
    ASSUME TypeOK, Numbered, Next
    PROVE  Numbered'
<1> USE ConnectionAssumption, NoSyncParts DEF Numbered, TypeOK, Tokens
<1>1. ASSUME NEW c \in callbacks, Look(c) \/ Admit(c) \/ FailCallback(c)
      PROVE  Numbered'
  <2>1. /\ \A d \in callbacks' : d \in callbacks \/ d.no = c.no
        /\ UNCHANGED <<install, credential, renewed, sync, approvals>>
    BY <1>1, CallbackMoves DEF Look, Admit, FailCallback, Shopify
  <2>2. QED
    BY <1>1, <2>1 DEF Requests
<1>2. ASSUME NEW c \in callbacks, Connect(c)
      PROVE  Numbered'
  <2>1. callbacks' \subseteq callbacks /\ UNCHANGED <<install, sync, approvals>>
    BY <1>2 DEF Connect, Refuse
  <2>2. c.pair \in Pairs /\ Shop(c.pair) \in Shops /\ c.no \in 1..MaxApprovals
    BY <1>2, PairParts DEF Requests
  <2>3. \A p \in Pairs : credential'[p] <= approvals /\ renewed'[p] <= approvals
    <3>1. CASE UNCHANGED <<credential, renewed>>
      BY <3>1
    <3>2. CASE ~UNCHANGED <<credential, renewed>>
      <4>1. PICK token \in exchange_code(Shop(c.pair)) :
               /\ credential' = [credential EXCEPT ![c.pair] = token]
               /\ renewed' = [renewed EXCEPT ![c.pair] = c.no]
        BY <1>2, <3>2 DEF Connect
      <4>2. QED
        BY <2>2, <4>1, Exchanged DEF Requests
    <3>3. QED
      BY <3>1, <3>2
  <2>4. QED
    BY <2>1, <2>3
<1>3. ASSUME NEW l \in leaving, Leave(l) \/ FailToLeave(l)
      PROVE  Numbered'
  BY <1>3 DEF Leave, FailToLeave, Shopify, Leavings
<1>4. ASSUME NEW n \in notices, DeliverUninstalled(n) \/ DeliverRedact(n)
      PROVE  Numbered'
  BY <1>4 DEF DeliverUninstalled, DeliverRedact
<1>5. ASSUME NEW s \in Shops, Uninstall(s)
      PROVE  Numbered'
  BY <1>5 DEF Uninstall, Installs
<1>6. ASSUME NEW p \in Pairs, Approve(p)
      PROVE  Numbered'
  <2>1. /\ approvals' = approvals + 1 /\ UNCHANGED <<credential, renewed, sync>>
        /\ callbacks' = callbacks \cup {[no |-> approvals + 1, at |-> "approved",
                                         pair |-> p, seen |-> NoChannel]}
        /\ install' \in {install, [install EXCEPT ![Shop(p)] =
                                      [live |-> TRUE, token |-> approvals + 1]]}
    BY <1>6 DEF Approve
  <2>2. \A c \in callbacks' : c.no <= approvals'
    BY <2>1 DEF Requests
  <2>3. \A s \in Shops : install'[s].token <= approvals'
                          /\ (install'[s].live => install'[s].token # 0)
    BY SMTT(30), <2>1, PairParts DEF Installs
  <2>4. QED
    BY <2>1, <2>2, <2>3 DEF Syncs
<1>7. ASSUME NEW p \in Pairs, StartToLeave(p) \/ RetryNotifications(p)
      PROVE  Numbered'
  BY <1>7 DEF StartToLeave, RetryNotifications
<1>8. ASSUME NEW p \in Pairs, Queued(p) \/ Deny(p)
      PROVE  Numbered'
  <2>1. /\ \A q \in Pairs : sync'[q].token = sync[q].token /\ sync'[q].renewed = sync[q].renewed
        /\ UNCHANGED <<install, credential, renewed, callbacks, approvals>>
    BY <1>8 DEF Queued, Deny, Shopify, Syncs
  <2>2. QED
    BY <2>1
<1>9. ASSUME NEW p \in Pairs, Load(p) \/ CommitSync(p) \/ MarkRevoked(p) \/ FailSync(p)
      PROVE  Numbered'
  BY <1>9 DEF Load, CommitSync, MarkRevoked, FailSync, Shopify, Syncs
<1>10. QED
  BY <1>1, <1>2, <1>3, <1>4, <1>5, <1>6, <1>7, <1>8, <1>9 DEF Next, DailySync, AskForSync

LEMMA UsedOnceStep ==
    ASSUME TypeOK, Numbered, UsedOnce, Next
    PROVE  UsedOnce'
<1> USE ConnectionAssumption, NoSyncParts DEF UsedOnce
<1>0. \A c \in callbacks : c.no \in 1..MaxApprovals /\ c.pair \in Pairs
  BY DEF TypeOK, Requests
<1>1. ASSUME NEW c \in callbacks, Look(c) \/ Admit(c) \/ FailCallback(c)
      PROVE  UsedOnce'
  <2>1. UNCHANGED <<renewed, sync>>
    BY <1>1 DEF Look, Admit, FailCallback
  <2>2. QED
    BY <1>1, <2>1, CallbackMoves
<1>2. ASSUME NEW c \in callbacks, Connect(c)
      PROVE  UsedOnce'
  <2>1. callbacks' = callbacks \ {c} /\ UNCHANGED sync
    BY <1>2 DEF Connect, Refuse
  <2>2. \A p \in Pairs : renewed'[p] \in {renewed[p], c.no}
    <3>1. CASE UNCHANGED renewed
      BY <3>1
    <3>2. CASE renewed' = [renewed EXCEPT ![c.pair] = c.no]
      BY <1>0, <3>2 DEF TypeOK
    <3>3. QED
      BY <1>2, <3>1, <3>2 DEF Connect
  <2>3. QED
    BY <2>1, <2>2
<1>3. ASSUME NEW p \in Pairs, Approve(p)
      PROVE  UsedOnce'
  <2>1. /\ UNCHANGED <<renewed, sync>>
        /\ callbacks' = callbacks \cup {[no |-> approvals + 1, at |-> "approved",
                                         pair |-> p, seen |-> NoChannel]}
    BY <1>3 DEF Approve
  <2>2. \A c \in callbacks : c.no # approvals + 1
    BY <1>0 DEF Numbered, TypeOK
  <2>3. \A q \in Pairs : renewed[q] # approvals + 1 /\ sync[q].renewed # approvals + 1
    BY DEF Numbered, TypeOK, Syncs, Tokens
  <2>4. QED
    BY <2>1, <2>2, <2>3
<1>4. ASSUME NEW p \in Pairs,
             Queued(p) \/ Load(p) \/ Deny(p) \/ CommitSync(p) \/ MarkRevoked(p) \/ FailSync(p)
      PROVE  UsedOnce'
  <2>1. UNCHANGED <<callbacks, renewed>>
    BY <1>4 DEF Queued, Load, Deny, CommitSync, MarkRevoked, FailSync
  <2>2. \A q \in Pairs : sync'[q].renewed \in {sync[q].renewed, renewed[q], 0}
    BY SMTT(30), <1>4 DEF Queued, Load, Deny, CommitSync, MarkRevoked, FailSync, TypeOK, Syncs
  <2>3. QED
    BY <1>0, <2>1, <2>2
<1>5. CASE UNCHANGED <<callbacks, renewed, sync>>
  BY <1>5
<1>6. QED
  BY <1>1, <1>2, <1>3, <1>4, <1>5
     DEF Next, DailySync, AskForSync, Leave, FailToLeave, DeliverUninstalled, DeliverRedact,
         Uninstall, StartToLeave, RetryNotifications

\* A row, once there, stays; a new one is made by a callback alone.
LEMMA RowsChange ==
    ASSUME TypeOK, RowExists, Next
    PROVE  \/ UNCHANGED channel
           \/ \E p \in Pairs, row \in Channels :
                 /\ row.status # "none" /\ channel' = [channel EXCEPT ![p] = row]
                 /\ p \in Enrolled \/ \E c \in callbacks : c.pair = p /\ Connect(c)
<1> DEFINE Changed ==
      \E p \in Pairs, row \in Channels :
          /\ row.status # "none" /\ channel' = [channel EXCEPT ![p] = row]
          /\ p \in Enrolled \/ \E c \in callbacks : c.pair = p /\ Connect(c)
<1> SUFFICES ASSUME ~UNCHANGED channel
             PROVE  Changed
  OBVIOUS
<1>0. \A p \in Pairs : channel[p] \in Channels
  BY DEF TypeOK
<1>1. ASSUME NEW c \in callbacks, Connect(c)
      PROVE  Changed
  <2>1. c.pair \in Pairs /\ c.seen \in Channels
    BY DEF TypeOK, Requests
  <2>2. channel' = [channel EXCEPT
            ![c.pair].status = IF c.seen.status = "connected" THEN @ ELSE "connected",
            ![c.pair].revoked = c.seen.revoked]
    BY <1>1 DEF Connect
  <2>3. DEFINE row == [status |-> IF c.seen.status = "connected" THEN channel[c.pair].status
                                  ELSE "connected",
                       revoked |-> c.seen.revoked]
  <2>4. channel' = [channel EXCEPT ![c.pair] = row]
    <3>1. channel[c.pair] = [status |-> channel[c.pair].status, revoked |-> channel[c.pair].revoked]
      BY <1>0, <2>1 DEF Channels
    <3>2. channel' \in [Pairs -> Channels] /\ channel'[c.pair] = row
      BY <1>1, <2>1, <2>2, <3>1, CallbackType DEF TypeOK
    <3>3. \A p \in Pairs : p # c.pair => channel'[p] = channel[p]
      BY <2>1, <2>2 DEF TypeOK
    <3>4. QED
      BY <2>1, <3>2, <3>3 DEF TypeOK
  <2>5. row \in Channels
    BY <1>0, <2>1 DEF Channels, Statuses
  <2>6. row.status # "none"
    BY <2>1 DEF RowExists, NoChannel, Enrolled
  <2>7. QED
    BY <1>1, <2>1, <2>4, <2>5, <2>6
<1>2. ASSUME NEW l \in leaving, Leave(l)
      PROVE  Changed
  <2>1. l.pair \in Enrolled /\ l.pair \in Pairs /\ l.seen \in Channels
    BY DEF RowExists, TypeOK, Leavings
  <2>2. [status |-> Ended, revoked |-> l.seen.revoked] \in Channels
    BY <2>1 DEF Channels, Statuses, Ended
  <2>3. QED
    BY <1>2, <2>1, <2>2 DEF Leave, Ended
<1>3. ASSUME NEW n \in notices, DeliverUninstalled(n) \/ DeliverRedact(n)
      PROVE  Changed
  <2>1. PICK p \in Pairs : Connected(p) /\ channel' = [channel EXCEPT ![p].status = Ended]
    BY <1>3 DEF DeliverUninstalled, DeliverRedact, Addressed
  <2>2. DEFINE row == [channel[p] EXCEPT !.status = Ended]
  <2>3. row \in Channels /\ row.status # "none" /\ channel' = [channel EXCEPT ![p] = row]
    BY <1>0, <2>1 DEF Channels, Statuses, Ended
  <2>4. p \in Enrolled
    BY <2>1 DEF Connected, Enrolled
  <2>5. QED
    BY <2>3, <2>4
<1>4. ASSUME NEW p \in Pairs, CommitSync(p)
      PROVE  Changed
  <2>1. p \in Enrolled /\ sync[p].seen.revoked \in BOOLEAN
    BY <1>4 DEF CommitSync, RowExists, TypeOK, Syncs, Channels
  <2>2. DEFINE row == [channel[p] EXCEPT !.revoked = sync[p].seen.revoked]
  <2>3. row \in Channels /\ row.status # "none" /\ channel' = [channel EXCEPT ![p] = row]
    BY <1>0, <1>4, <2>1 DEF CommitSync, Channels, Enrolled
  <2>4. QED
    BY <2>1, <2>3
<1>5. ASSUME NEW p \in Pairs, MarkRevoked(p)
      PROVE  Changed
  <2>1. p \in Enrolled
    BY <1>5 DEF MarkRevoked, RowExists
  <2>2. [status |-> Ended, revoked |-> TRUE] \in Channels
    BY DEF Channels, Statuses, Ended
  <2>3. QED
    BY <1>5, <2>1, <2>2 DEF MarkRevoked, Marked, Ended
<1>6. QED
  BY <1>1, <1>2, <1>3, <1>4, <1>5
     DEF Next, DailySync, AskForSync, Queued, Look, Admit, FailCallback, FailToLeave,
         Uninstall, Approve, StartToLeave, RetryNotifications, Load, Deny, FailSync

LEMMA EnrolledGrows ==
    ASSUME TypeOK, RowExists, Next
    PROVE  \/ Enrolled' = Enrolled
           \/ \E c \in callbacks : Connect(c) /\ Enrolled' = Enrolled \cup {c.pair}
<1>1. CASE UNCHANGED channel
  BY <1>1 DEF Enrolled
<1>2. ASSUME NEW p \in Pairs, NEW row \in Channels,
             row.status # "none", channel' = [channel EXCEPT ![p] = row]
      PROVE  Enrolled' = Enrolled \cup {p}
  BY <1>2 DEF Enrolled, TypeOK
<1>3. QED
  BY <1>1, <1>2, RowsChange

LEMMA EnrolledMine ==
    ASSUME TypeOK, NEW c \in callbacks, Connect(c)
    PROVE  Enrolled' \subseteq Enrolled \cup {c.pair}
<1>1. \A p \in Pairs : p # c.pair => channel'[p] = channel[p]
  BY DEF Connect, TypeOK
<1>2. QED
  BY <1>1 DEF Enrolled

LEMMA RowExistsStep ==
    ASSUME TypeOK, RowExists, Next
    PROVE  RowExists'
<1>1. Enrolled \subseteq Enrolled'
  BY EnrolledGrows
<1>2. \A p \in Pairs \ Enrolled' : channel'[p] = NoChannel
  <2>1. CASE UNCHANGED channel
    BY <2>1 DEF RowExists, Enrolled
  <2>2. ASSUME NEW p \in Pairs, NEW row \in Channels,
               row.status # "none", channel' = [channel EXCEPT ![p] = row]
        PROVE  \A q \in Pairs \ Enrolled' : channel'[q] = NoChannel
    BY <2>2 DEF RowExists, Enrolled, TypeOK
  <2>3. QED
    BY <2>1, <2>2, RowsChange
<1>3. \A p \in Pairs \ Enrolled' : sync'[p].at = "idle"
  <2>1. \A p \in Pairs : sync'[p].at \in {"idle", sync[p].at} \/ p \in Enrolled
    <3>1. CASE UNCHANGED sync
      BY <3>1
    <3>2. ASSUME NEW p \in Pairs,
                 Queued(p) \/ Load(p) \/ Deny(p) \/ CommitSync(p) \/ MarkRevoked(p) \/ FailSync(p)
          PROVE  \A q \in Pairs : sync'[q].at \in {"idle", sync[q].at} \/ q \in Enrolled
      <4>1. p \in Enrolled
        BY <3>2 DEF Queued, Load, Deny, CommitSync, MarkRevoked, FailSync, RowExists,
                    Connected, Enrolled
      <4>2. \A q \in Pairs : q # p => sync'[q] = sync[q]
        BY <3>2 DEF Queued, Load, Deny, CommitSync, MarkRevoked, FailSync, TypeOK
      <4>3. QED
        BY <4>1, <4>2
    <3>3. QED
      BY <3>1, <3>2
         DEF Next, DailySync, AskForSync, Look, Admit, Connect, FailCallback, Leave, FailToLeave,
             DeliverUninstalled, DeliverRedact, Uninstall, Approve, StartToLeave, RetryNotifications
  <2>2. QED
    BY <1>1, <2>1 DEF RowExists, Enrolled
<1>4. \A l \in leaving' : l.pair \in Enrolled'
  <2>1. \A l \in leaving' : l \in leaving \/ l.pair \in Enrolled
    <3>1. ASSUME NEW p \in Pairs, StartToLeave(p)
          PROVE  \A l \in leaving' : l \in leaving \/ l.pair \in Enrolled
      BY <3>1 DEF StartToLeave, Connected, Enrolled
    <3>2. CASE leaving' \subseteq leaving
      BY <3>2
    <3>3. QED
      BY <3>1, <3>2
         DEF Next, DailySync, AskForSync, Queued, Look, Admit, Connect, FailCallback, Leave,
             FailToLeave, DeliverUninstalled, DeliverRedact, Uninstall, Approve,
             RetryNotifications, Load, Deny, CommitSync, MarkRevoked, FailSync
  <2>2. QED
    BY <1>1, <2>1 DEF RowExists
<1>5. \A c \in callbacks' : c.seen # NoChannel => c.pair \in Enrolled'
  <2>1. \A c \in callbacks' : c.seen # NoChannel => c \in callbacks \/ c.pair \in Enrolled
    <3>1. ASSUME NEW c \in callbacks, Look(c)
          PROVE  \A d \in callbacks' : d.seen # NoChannel => d \in callbacks \/ d.pair \in Enrolled
      <4>1. CASE Refuse(c)
        BY <4>1 DEF Refuse
      <4>2. CASE Move(c, "checked", channel[c.pair])
        <5>1. channel[c.pair] # NoChannel => c.pair \in Enrolled
          BY DEF RowExists, TypeOK, Requests
        <5>2. QED
          BY <4>2, <5>1, Moved
      <4>3. QED
        BY <3>1, <4>1, <4>2 DEF Look
    <3>2. ASSUME NEW c \in callbacks, Admit(c)
          PROVE  \A d \in callbacks' : d.seen # NoChannel => d \in callbacks \/ d.pair \in Enrolled
      <4>1. CASE Refuse(c)
        BY <4>1 DEF Refuse
      <4>2. CASE Move(c, "admitted", c.seen)
        BY <4>2, Moved DEF RowExists
      <4>3. QED
        BY <3>2, <4>1, <4>2 DEF Admit
    <3>3. ASSUME NEW p \in Pairs, Approve(p)
          PROVE  \A c \in callbacks' : c.seen # NoChannel => c \in callbacks
      BY <3>3 DEF Approve
    <3>4. CASE callbacks' \subseteq callbacks
      BY <3>4
    <3>5. QED
      BY <3>1, <3>2, <3>3, <3>4
         DEF Next, DailySync, AskForSync, Queued, Connect, FailCallback, Refuse, Leave, FailToLeave,
             DeliverUninstalled, DeliverRedact, Uninstall, StartToLeave,
             RetryNotifications, Load, Deny, CommitSync, MarkRevoked, FailSync
  <2>2. QED
    BY <1>1, <2>1 DEF RowExists
<1>6. QED
  BY <1>2, <1>3, <1>4, <1>5 DEF RowExists

\* A place that is there stays while nobody else makes a row.
LEMMA PlaceIsKeptStep ==
    ASSUME TypeOK, RowExists, PlaceIsKept, Next
    PROVE  PlaceIsKept'
<1>1. ASSUME NEW c \in callbacks, Admit(c)
      PROVE  PlaceIsKept'
  <2>1. Enrolled' = Enrolled
    BY <1>1 DEF Admit, Enrolled
  <2>2. CASE Refuse(c)
    BY <1>1, <2>1, <2>2 DEF PlaceIsKept, Refuse, HasSpace
  <2>3. CASE Move(c, "admitted", c.seen) /\ HasSpace(Shop(c.pair))
    <3>1. PICK d : /\ callbacks' = (callbacks \ {c}) \cup {d}
                   /\ d.pair = c.pair /\ d.at = "admitted"
      BY <2>3, Moved
    <3>2. \A e \in callbacks : e.at # "admitted"
      BY <1>1 DEF Admit, LockIsFree
    <3>3. HasSpace(Shop(d.pair))'
      BY <2>1, <2>3, <3>1 DEF HasSpace
    <3>4. QED
      BY <2>1, <3>1, <3>2, <3>3 DEF PlaceIsKept, HasSpace
  <2>4. QED
    BY <1>1, <2>2, <2>3 DEF Admit
<1>2. ASSUME NEW c \in callbacks, Connect(c)
      PROVE  PlaceIsKept'
  <2>1. \A d \in callbacks' : d.at # "admitted"
    BY <1>2 DEF Connect, Refuse, PlaceIsKept
  <2>2. QED
    BY <2>1 DEF PlaceIsKept
<1>3. ASSUME Enrolled' = Enrolled, \A c \in callbacks' : c.at = "admitted" => c \in callbacks
      PROVE  PlaceIsKept'
  BY <1>3 DEF PlaceIsKept, HasSpace
<1>4. ASSUME NEW c \in callbacks, Look(c)
      PROVE  \A d \in callbacks' : d.at = "admitted" => d \in callbacks
  <2>1. CASE Refuse(c)
    BY <2>1 DEF Refuse
  <2>2. CASE Move(c, "checked", channel[c.pair])
    BY <2>2, Moved
  <2>3. QED
    BY <1>4, <2>1, <2>2 DEF Look
<1>5. ASSUME NEW p \in Pairs, Approve(p)
      PROVE  \A c \in callbacks' : c.at = "admitted" => c \in callbacks
  BY <1>5 DEF Approve
<1>6. CASE callbacks' \subseteq callbacks
  BY <1>2, <1>3, <1>6, EnrolledGrows
<1>7. QED
  BY <1>1, <1>2, <1>3, <1>4, <1>5, <1>6, EnrolledGrows
     DEF Next, DailySync, AskForSync, Queued, FailCallback, Refuse, Leave, FailToLeave,
         DeliverUninstalled, DeliverRedact, Uninstall, StartToLeave,
         RetryNotifications, Load, Deny, CommitSync, MarkRevoked, FailSync

\* The shops of finitely many rows are no more than the rows.
LEMMA ShopsOf ==
    ASSUME NEW S, S \subseteq Pairs
    PROVE  /\ IsFiniteSet(S) /\ Cardinality(S) \in Nat
           /\ Cardinality({Shop(p) : p \in S}) \in Nat
           /\ Cardinality({Shop(p) : p \in S}) <= Cardinality(S)
<1>1. IsFiniteSet(S)
  BY ConnectionAssumption, FS_Subset
<1>2. DEFINE shops == {Shop(p) : p \in S}
             f == [p \in S |-> Shop(p)]
<1>3. f \in Surjection(S, shops)
  BY DEF Surjection
<1>4. IsFiniteSet(shops) /\ Cardinality(shops) <= Cardinality(S)
  BY <1>1, <1>3, FS_Surjection
<1>5. QED
  BY <1>1, <1>4, FS_CardinalityType

LEMMA PilotStep ==
    ASSUME TypeOK, RowExists, PlaceIsKept, PilotHolds, Next
    PROVE  PilotHolds'
<1>1. CASE Enrolled' = Enrolled
  BY <1>1 DEF PilotHolds
<1>2. ASSUME NEW c \in callbacks, Connect(c), Enrolled' = Enrolled \cup {c.pair}
      PROVE  PilotHolds'
  <2>1. HasSpace(Shop(c.pair)) /\ c.pair \in Pairs /\ Enrolled \subseteq Pairs
    BY <1>2 DEF PlaceIsKept, Connect, TypeOK, Requests, Enrolled
  <2>2. CASE \E p \in Enrolled : Shop(p) = Shop(c.pair)
    <3>1. {Shop(p) : p \in Enrolled'} = {Shop(p) : p \in Enrolled}
      BY <1>2, <2>2
    <3>2. QED
      BY <3>1 DEF PilotHolds
  <2>3. CASE Cardinality(Enrolled) < MaximumStores
    <3>1. IsFiniteSet(Enrolled) /\ Cardinality(Enrolled) \in Nat
      BY <2>1, ShopsOf
    <3>2. Cardinality(Enrolled \cup {c.pair}) <= Cardinality(Enrolled) + 1
      BY <3>1, FS_AddElement
    <3>3. Enrolled' \subseteq Pairs
      BY <1>2, <2>1
    <3>4. /\ Cardinality({Shop(p) : p \in Enrolled'}) \in Nat /\ Cardinality(Enrolled') \in Nat
          /\ Cardinality({Shop(p) : p \in Enrolled'}) <= Cardinality(Enrolled')
      BY <3>3, ShopsOf
    <3>5. QED
      BY <1>2, <2>3, <3>1, <3>2, <3>4, ConnectionAssumption DEF PilotHolds
  <2>4. QED
    BY <2>1, <2>2, <2>3 DEF HasSpace
<1>3. QED
  BY <1>1, <1>2, EnrolledGrows

LEMMA CrossedStays ==
    ASSUME Next, crossed
    PROVE  crossed'
  BY DEF Next, DailySync, AskForSync, Queued, Look, Admit, Connect, FailCallback, Leave,
         FailToLeave, DeliverUninstalled, DeliverRedact, Uninstall, Approve, StartToLeave,
         RetryNotifications, Load, Deny, CommitSync, MarkRevoked, FailSync

LEMMA StillAloneStep ==
    ASSUME TypeOK, RowExists, StillAlone, Next
    PROVE  StillAlone'
<1> SUFFICES ASSUME ~crossed'
             PROVE  StillAlone'
  BY DEF StillAlone
<1>1. ~crossed
  BY CrossedStays
<1>2. /\ \A c, d \in callbacks : Shop(c.pair) = Shop(d.pair) => Tenant(c.pair) = Tenant(d.pair)
      /\ \A c \in callbacks : c.at # "approved" => HeldByOthers(c.pair) = {}
  BY <1>1 DEF StillAlone
<1>3. ASSUME NEW c \in callbacks, Look(c)
      PROVE  StillAlone'
  <2>1. Enrolled' = Enrolled /\ c.pair \in Pairs
    BY <1>3 DEF Look, Enrolled, TypeOK, Requests
  <2>2. CASE Refuse(c)
    BY <1>2, <2>1, <2>2 DEF Refuse, StillAlone, HeldByOthers
  <2>3. CASE HeldByOthers(c.pair) = {} /\ Move(c, "checked", channel[c.pair])
    <3>1. PICK d : callbacks' = (callbacks \ {c}) \cup {d} /\ d.pair = c.pair
      BY <2>3, Moved
    <3>2. QED
      BY <1>2, <2>1, <2>3, <3>1 DEF StillAlone, HeldByOthers
  <2>4. QED
    BY <1>3, <2>2, <2>3 DEF Look
<1>4. ASSUME NEW c \in callbacks, Admit(c)
      PROVE  StillAlone'
  <2>1. Enrolled' = Enrolled /\ c.pair \in Pairs /\ c.at = "checked"
    BY <1>4 DEF Admit, Enrolled, TypeOK, Requests
  <2>2. CASE Refuse(c)
    BY <1>2, <2>1, <2>2 DEF Refuse, StillAlone, HeldByOthers
  <2>3. CASE Move(c, "admitted", c.seen)
    <3>1. PICK d : callbacks' = (callbacks \ {c}) \cup {d} /\ d.pair = c.pair
      BY <2>3, Moved
    <3>2. QED
      BY <1>2, <2>1, <3>1 DEF StillAlone, HeldByOthers
  <2>4. QED
    BY <1>4, <2>2, <2>3 DEF Admit
<1>5. ASSUME NEW c \in callbacks, Connect(c)
      PROVE  StillAlone'
  <2>1. callbacks' = callbacks \ {c} /\ Enrolled' \subseteq Enrolled \cup {c.pair}
    BY <1>5, EnrolledMine DEF Connect, Refuse
  <2>2. QED
    BY <1>2, <2>1 DEF StillAlone, HeldByOthers
<1>6. ASSUME NEW p \in Pairs, Approve(p)
      PROVE  StillAlone'
  <2>1. Enrolled' = Enrolled
    BY <1>6 DEF Approve, Enrolled
  <2>2. DEFINE d == [no |-> approvals + 1, at |-> "approved", pair |-> p, seen |-> NoChannel]
  <2>3. callbacks' = callbacks \cup {d} /\ d.pair = p /\ d.at = "approved"
    BY <1>6 DEF Approve
  <2> HIDE DEF d
  <2>4. \A c \in callbacks : Shop(c.pair) = Shop(p) => Tenant(c.pair) = Tenant(p)
    BY <1>6 DEF Approve
  <2>5. QED
    BY <1>2, <2>1, <2>3, <2>4 DEF StillAlone, HeldByOthers
<1>7. CASE callbacks' \subseteq callbacks /\ Enrolled' = Enrolled
  BY <1>2, <1>7 DEF StillAlone, HeldByOthers
<1>8. QED
  BY <1>3, <1>4, <1>5, <1>6, <1>7, EnrolledGrows
     DEF Next, DailySync, AskForSync, Queued, FailCallback, Refuse, Leave, FailToLeave,
         DeliverUninstalled, DeliverRedact, Uninstall, StartToLeave,
         RetryNotifications, Load, Deny, CommitSync, MarkRevoked, FailSync


LEMMA SamePair ==
    ASSUME NEW p \in Pairs, NEW q \in Pairs, Tenant(p) = Tenant(q), Shop(p) = Shop(q)
    PROVE  p = q
  BY ConnectionAssumption DEF Tenant, Shop

LEMMA OneHolderStep ==
    ASSUME TypeOK, RowExists, StillAlone, OneHolder, Next
    PROVE  OneHolder'
<1> SUFFICES ASSUME ~crossed'
             PROVE  OneHolder'
  BY DEF OneHolder
<1>1. ~crossed
  BY CrossedStays
<1>2. CASE Enrolled' = Enrolled
  BY <1>1, <1>2 DEF OneHolder
<1>3. ASSUME NEW c \in callbacks, Connect(c), Enrolled' = Enrolled \cup {c.pair}
      PROVE  OneHolder'
  <2>1. HeldByOthers(c.pair) = {} /\ c.pair \in Pairs
    BY <1>1, <1>3 DEF StillAlone, Connect, TypeOK, Requests
  <2>2. \A q \in Enrolled : Shop(q) = Shop(c.pair) => q = c.pair
    BY <2>1, SamePair DEF HeldByOthers, Enrolled
  <2>3. QED
    BY <1>1, <1>3, <2>2 DEF OneHolder
<1>4. QED
  BY <1>2, <1>3, EnrolledGrows

\* Whether a token that was refused once can be good again: only a new one can.
LEMMA DeniedForGoodStep ==
    ASSUME TypeOK, Numbered, UsedOnce, DeniedForGood, Next
    PROVE  DeniedForGood'
<1> DEFINE Kept(p) == sync[p].renewed = renewed[p] => credential[p] \in {0, sync[p].token}
           Useless(p) == sync[p].token = 0 \/ Refused(p)
           Sound(p) == sync[p].at \in {"loaded", "denied"} =>
                          Kept(p) /\ (sync[p].at = "denied" => Useless(p))
<1>0. \A p \in Pairs : Sound(p) /\ Shop(p) \in Shops
  BY PairParts DEF DeniedForGood
<1> SUFFICES ASSUME NEW p \in Pairs
             PROVE  Sound(p)'
  BY DEF DeniedForGood
<1>1. CASE UNCHANGED <<install, sync[p], renewed[p], credential[p]>>
  BY <1>0, <1>1 DEF Refused
<1>2. ASSUME NEW c \in callbacks, Connect(c)
      PROVE  Sound(p)'
  <2>1. UNCHANGED <<install, sync>> /\ c.pair \in Pairs
    BY <1>2 DEF Connect, TypeOK, Requests
  <2>2. CASE UNCHANGED <<renewed, credential>>
    BY <1>1, <2>1, <2>2
  <2>3. CASE ~UNCHANGED <<renewed, credential>>
    <3>1. PICK token \in exchange_code(Shop(c.pair)) :
             /\ credential' = [credential EXCEPT ![c.pair] = token]
             /\ renewed' = [renewed EXCEPT ![c.pair] = c.no]
      BY <1>2, <2>3 DEF Connect
    <3>2. CASE p = c.pair
      <4>1. renewed'[p] # sync'[p].renewed
        BY <2>1, <3>1, <3>2 DEF UsedOnce, TypeOK
      <4>2. QED
        BY <1>0, <2>1, <4>1 DEF Refused
    <3>3. CASE p # c.pair
      BY <1>1, <2>1, <3>1, <3>3 DEF TypeOK
    <3>4. QED
      BY <3>2, <3>3
  <2>4. QED
    BY <2>2, <2>3
<1>3. ASSUME UNCHANGED <<install, sync, renewed>>,
             \A q \in Pairs : credential'[q] \in {credential[q], 0}
      PROVE  Sound(p)'
  BY <1>0, <1>3 DEF Refused
<1>4. ASSUME UNCHANGED <<sync, renewed, credential>>,
             \/ install'[Shop(p)] = install[Shop(p)]
             \/ ~install'[Shop(p)].live
             \/ install'[Shop(p)].token = approvals + 1
      PROVE  Sound(p)'
  <2>1. sync[p].token # approvals + 1
    BY DEF Numbered, TypeOK, Syncs, Tokens
  <2>2. QED
    BY <1>0, <1>4, <2>1 DEF Refused
<1>5. ASSUME NEW q \in Pairs, Queued(q) \/ Load(q) \/ Deny(q) \/ FailSync(q)
      PROVE  Sound(p)'
  <2>1. UNCHANGED <<install, renewed, credential>>
    BY <1>5 DEF Queued, Load, Deny, FailSync, Shopify
  <2>2. CASE p # q
    <3>1. UNCHANGED sync[p]
      BY <1>5, <2>2 DEF Queued, Load, Deny, FailSync, TypeOK
    <3>2. QED
      BY <1>1, <2>1, <3>1
  <2>3. CASE p = q /\ Queued(q)
    <3>1. sync'[p].at = "queued"
      BY <2>3 DEF Queued, TypeOK, Syncs
    <3>2. QED
      BY <3>1
  <2>4. CASE p = q /\ Load(q)
    <3>1. /\ sync'[p].token = credential[p] /\ sync'[p].renewed = renewed[p]
          /\ sync'[p].at = "denied" => credential[p] = 0
      BY <2>4 DEF Load, TypeOK
    <3>2. QED
      BY <2>1, <3>1
  <2>5. CASE p = q /\ Deny(q)
    <3>1. /\ sync'[p].token = sync[p].token /\ sync'[p].renewed = sync[p].renewed
          /\ sync[p].at = "loaded" /\ Refused(p)
      BY <2>5 DEF Deny, TypeOK, Syncs
    <3>2. QED
      BY <1>0, <2>1, <3>1 DEF Refused
  <2>6. CASE p = q /\ FailSync(q)
    BY <2>6, NoSyncParts DEF FailSync, TypeOK
  <2>7. QED
    BY <1>5, <2>2, <2>3, <2>4, <2>5, <2>6
<1>6. ASSUME NEW q \in Pairs, CommitSync(q) \/ MarkRevoked(q)
      PROVE  Sound(p)'
  <2>1. CASE p = q
    BY <1>6, <2>1, NoSyncParts DEF CommitSync, MarkRevoked, TypeOK
  <2>2. CASE p # q
    <3>1. UNCHANGED <<install, sync[p], renewed[p], credential[p]>>
      BY <1>6, <2>2 DEF CommitSync, MarkRevoked, Shopify, TypeOK
    <3>2. QED
      BY <1>1, <3>1
  <2>3. QED
    BY <2>1, <2>2
<1>7. ASSUME NEW l \in leaving, Leave(l)
      PROVE  Sound(p)'
  BY <1>3, <1>7 DEF Leave, Shopify, TypeOK
<1>8. ASSUME NEW n \in notices, DeliverRedact(n)
      PROVE  Sound(p)'
  BY <1>3, <1>8 DEF DeliverRedact, TypeOK
<1>9. ASSUME NEW s \in Shops, Uninstall(s)
      PROVE  Sound(p)'
  <2>1. \/ install'[Shop(p)] = install[Shop(p)]
        \/ ~install'[Shop(p)].live
    BY <1>0, <1>9 DEF Uninstall, TypeOK, Installs
  <2>2. QED
    BY <1>4, <1>9, <2>1 DEF Uninstall
<1>10. ASSUME NEW q \in Pairs, Approve(q)
       PROVE  Sound(p)'
  <2>1. \/ install'[Shop(p)] = install[Shop(p)]
        \/ install'[Shop(p)].token = approvals + 1
    BY <1>0, <1>10 DEF Approve, TypeOK
  <2>2. QED
    BY <1>4, <1>10, <2>1 DEF Approve
<1>11. QED
  BY <1>1, <1>2, <1>5, <1>6, <1>7, <1>8, <1>9, <1>10
     DEF Next, DailySync, AskForSync, Look, Admit, FailCallback, Shopify, FailToLeave,
         DeliverUninstalled, StartToLeave, RetryNotifications

\* The row and its token are written together, or the token was there.
LEMMA KeyBesideStep ==
    ASSUME TypeOK, Numbered, KeyBeside, Next
    PROVE  KeyBeside'
<1> USE DEF KeyBeside, Connected
<1>1. ASSUME NEW c \in callbacks, Connect(c)
      PROVE  KeyBeside'
  <2>1. CASE UNCHANGED <<channel, credential>>
    BY <2>1
  <2>2. CASE ~UNCHANGED <<channel, credential>>
    <3>1. PICK token \in exchange_code(Shop(c.pair)) :
             /\ credential' = [credential EXCEPT ![c.pair] = token]
             /\ \A p \in Pairs : p # c.pair => channel'[p] = channel[p]
      BY <1>1, <2>2 DEF Connect, TypeOK
    <3>2. token # 0
      BY <3>1, Exchanged, PairParts DEF Numbered, TypeOK, Requests
    <3>3. QED
      BY <3>1, <3>2 DEF TypeOK
  <2>3. QED
    BY <2>1, <2>2
<1>2. ASSUME NEW l \in leaving, Leave(l)
      PROVE  KeyBeside'
  BY <1>2 DEF Leave, Ended, TypeOK, Leavings
<1>3. ASSUME NEW n \in notices, DeliverUninstalled(n) \/ DeliverRedact(n)
      PROVE  KeyBeside'
  BY <1>3 DEF DeliverUninstalled, DeliverRedact, Ended, TypeOK, Channels
<1>4. ASSUME NEW p \in Pairs, CommitSync(p)
      PROVE  KeyBeside'
  BY <1>4 DEF CommitSync, TypeOK, Channels
<1>5. ASSUME NEW p \in Pairs, MarkRevoked(p)
      PROVE  KeyBeside'
  BY <1>5 DEF MarkRevoked, Marked, Ended, TypeOK
<1>6. QED
  BY <1>1, <1>2, <1>3, <1>4, <1>5
     DEF Next, DailySync, AskForSync, Queued, Look, Admit, FailCallback, FailToLeave,
         Uninstall, Approve, StartToLeave, RetryNotifications, Load, Deny, FailSync

---------------------------------------------------------------------------
(* The theorems.                                                           *)

IInv ==
    /\ TypeOK /\ Numbered /\ UsedOnce /\ RowExists /\ PlaceIsKept /\ StillAlone
    /\ PilotHolds /\ OneHolder /\ DeniedForGood /\ KeyBeside

LEMMA InitIInv == Init => IInv
<1> SUFFICES ASSUME Init
             PROVE  IInv
  OBVIOUS
<1>1. TypeOK
  BY InitType
<1>2. Enrolled = {}
  BY DEF Init, Enrolled, NoChannel
<1>3. Numbered /\ UsedOnce /\ RowExists /\ PlaceIsKept /\ StillAlone
  BY <1>2, NoSyncParts DEF Init, Numbered, UsedOnce, RowExists, PlaceIsKept, StillAlone
<1>4. PilotHolds
  <2>1. {Shop(p) : p \in Enrolled} = {}
    BY <1>2
  <2>2. QED
    BY <2>1, FS_EmptySet, ConnectionAssumption DEF PilotHolds
<1>5. OneHolder /\ DeniedForGood /\ KeyBeside
  BY <1>2, NoSyncParts
     DEF Init, OneHolder, DeniedForGood, KeyBeside, Connected, NoChannel
<1>6. QED
  BY <1>1, <1>3, <1>4, <1>5 DEF IInv

LEMMA StepIInv == IInv /\ [Next]_vars => IInv'
<1> SUFFICES ASSUME IInv, [Next]_vars
             PROVE  IInv'
  OBVIOUS
<1>1. CASE Next
  BY <1>1, TypeStep, NumberedStep, UsedOnceStep, RowExistsStep, PlaceIsKeptStep, PilotStep,
     StillAloneStep, OneHolderStep, DeniedForGoodStep, KeyBesideStep DEF IInv
<1>2. CASE UNCHANGED vars
  BY <1>2, TypeStep
     DEF vars, IInv, Numbered, UsedOnce, RowExists, PlaceIsKept, HasSpace, StillAlone,
         HeldByOthers, PilotHolds, OneHolder, DeniedForGood, Refused, KeyBeside, Connected, Enrolled
<1>3. QED
  BY <1>1, <1>2

\* The inductive invariant: what the lock, the rows and the requests under way
\* know of each other, whatever was committed in between.
THEOREM Bookkeeping == Spec => []IInv
  BY InitIInv, StepIInv, PTL DEF Spec

\* For any number of callbacks at the same time, the pilot takes no more shops
\* than it promises (pilot.py:35-57).
THEOREM PilotNeverOverfull == Spec => []PilotHolds
<1>1. IInv => PilotHolds
  BY DEF IInv
<1>2. QED
  BY <1>1, Bookkeeping, PTL

\* However many tenants and shops there are, one tenant holds a shop unless two
\* callbacks for it ran at the same time (routers/shopify.py:367-379).
THEOREM OneTenantAShop == Spec => []OneHolder
<1>1. IInv => OneHolder
  BY DEF IInv
<1>2. QED
  BY <1>1, Bookkeeping, PTL

\* No order of callbacks, disconnects, notices and refused syncs leaves a shop
\* connected without a token (tasks.py:1256-1257).
THEOREM ConnectedKeepsItsKey == Spec => []ConnectedHasKey
<1>1. IInv => ConnectedHasKey
  BY DEF IInv, KeyBeside, ConnectedHasKey, OauthStep, TokenStep, Connected
<1>2. QED
  BY <1>1, Bookkeeping, PTL

\* A sync that was refused is right to end the connection, unless the merchant
\* connected again meanwhile (tasks.py:194-200, 521).
THEOREM DenialsAreEarned == Spec => []DenialIsEarned
<1>1. IInv => DenialIsEarned
  BY DEF IInv, DeniedForGood, DenialIsEarned, Refused, Works
<1>2. QED
  BY <1>1, Bookkeeping, PTL

---------------------------------------------------------------------------
(* The notifications that come over a connection (module ShopifyHooks), for *)
(* any number of them and of processes that handle them.                    *)

USE HooksAssumption

\* What a handler works on was sent, and it reads the day for a total.
Working(x) ==
    /\ x.at # "idle" => x.event \in DOMAIN sent
    /\ x.at = "read" => sent[x.event] \in Totals

HooksTyped ==
    /\ HooksTypeOK
    /\ \A h \in Handlers : Working(handler[h])

LEMMA InitHooksTyped ==
    ASSUME HooksInit
    PROVE  HooksTyped
<1>1. NoDay \in Days
  BY DEF NoDay, Days
<1>2. Idle \in Handling /\ Idle.at = "idle"
  BY <1>1 DEF Idle, Handling, HandlerStates
<1>3. NoDailySync \in DailySyncs
  BY <1>1 DEF NoDailySync, DailySyncs
<1>4. HooksTypeOK
  <2>1. sent \in Seq(Topics) /\ Len(sent) <= MaxEvents
    BY DEF HooksInit
  <2>2. /\ delivery \in [Events -> DeliveryStatuses]
        /\ handler \in [Handlers -> Handling]
    BY <1>2 DEF HooksInit, DeliveryStatuses
  <2>3. day \in Days /\ connected \in BOOLEAN /\ dailySync \in DailySyncs
        /\ mishaps \in 0..MaxMishaps
    BY <1>1, <1>3 DEF HooksInit
  <2>4. /\ known \in [Totals -> SUBSET Events] /\ off \subseteq Totals
        /\ applied \in [Events -> Nat] /\ late \in BOOLEAN
    BY DEF HooksInit
  <2>5. QED
    BY <2>1, <2>2, <2>3, <2>4 DEF HooksTypeOK
<1>5. \A h \in Handlers : Working(handler[h])
  BY <1>2 DEF HooksInit, Working
<1>6. QED
  BY <1>4, <1>5 DEF HooksTyped

\* A step of one handler.
LEMMA HandlerStepTyped ==
    ASSUME HooksTyped, NEW h \in Handlers, NEW x \in Handling,
           handler' = [handler EXCEPT ![h] = x],
           Working(x),
           sent' = sent, dailySync' = dailySync, mishaps' \in 0..MaxMishaps,
           delivery' \in [Events -> DeliveryStatuses],
           day' \in Days, connected' \in BOOLEAN,
           known' \in [Totals -> SUBSET Events], off' \subseteq Totals,
           applied' \in [Events -> Nat], late' \in BOOLEAN
    PROVE  HooksTyped'
<1>1. handler' \in [Handlers -> Handling]
  BY DEF HooksTyped, HooksTypeOK
<1>2. \A g \in Handlers : handler'[g] = IF g = h THEN x ELSE handler[g]
  BY DEF HooksTyped, HooksTypeOK
<1>3. HooksTypeOK'
  BY <1>1 DEF HooksTyped, HooksTypeOK, Events, Handling, Days, DailySyncs
<1>4. QED
  BY <1>2, <1>3 DEF HooksTyped, Working, Totals

LEMMA StepHooksTyped ==
    ASSUME HooksTyped, [HooksNext]_hooksVars
    PROVE  HooksTyped'
<1> USE DEF Events, Totals, Topics, DeliveryStatuses
<1>1. /\ sent \in Seq(Topics) /\ Len(sent) <= MaxEvents /\ DOMAIN sent \subseteq Events
      /\ delivery \in [Events -> DeliveryStatuses]
      /\ handler \in [Handlers -> Handling] /\ day \in Days /\ connected \in BOOLEAN
      /\ mishaps \in 0..MaxMishaps /\ dailySync \in DailySyncs
      /\ known \in [Totals -> SUBSET Events] /\ off \subseteq Totals
      /\ applied \in [Events -> Nat] /\ late \in BOOLEAN
  BY DEF HooksTyped, HooksTypeOK
<1>2. Idle \in Handling /\ NoDay \in Days /\ Idle.at = "idle"
  BY DEF Idle, Handling, NoDay, Days, HandlerStates
<1>3. ASSUME NEW topic \in Topics, Happen(topic)
      PROVE  HooksTyped'
  <2>1. sent' \in Seq(Topics) /\ Len(sent') <= MaxEvents /\ DOMAIN sent \subseteq DOMAIN sent'
    BY <1>1, <1>3 DEF Happen
  <2>2. (\A h \in Handlers : Working(handler[h]))'
    BY <1>1, <1>3, <2>1 DEF Happen, HooksTyped, Working
  <2>3. HooksTypeOK'
    BY <1>1, <1>3, <2>1 DEF Happen, History, HooksTypeOK
  <2>4. QED
    BY <2>2, <2>3 DEF HooksTyped
<1>4. CASE Reconnect
  BY <1>1, <1>4 DEF Reconnect, History, HooksTyped, Working, HooksTypeOK, Handling,
     Days, DailySyncs
<1>5. ASSUME NEW h \in Handlers, NEW e \in Events, Find(h, e)
      PROVE  HooksTyped'
  <2> PICK x : x = [at |-> "found", event |-> e, seen |-> NoDay]
    OBVIOUS
  <2>1. e \in DOMAIN sent /\ handler' = [handler EXCEPT ![h] = x]
    BY <1>5 DEF Find
  <2>2. x \in Handling /\ Working(x)
    BY <1>2, <2>1 DEF Handling, HandlerStates, Working
  <2>3. QED
    BY <1>1, <1>5, <2>1, <2>2, HandlerStepTyped DEF Find, History
\* Steps that move one handler on, and change nothing else but the faults.
<1>6. ASSUME NEW h \in Handlers,
             \/ Insert(h) \/ Reclaim(h) \/ ReadDay(h)
             \/ CommitConflicts(h) \/ Raise(h) \/ Crash(h)
      PROVE  HooksTyped'
  <2> PICK was : was = handler[h]
    OBVIOUS
  <2>1. was \in Handling /\ Working(was)
    BY <1>1 DEF HooksTyped
  <2>2. PICK x : /\ handler' = [handler EXCEPT ![h] = x]
                 /\ \/ x = Idle
                    \/ /\ was.at # "idle"
                       /\ \/ x = [was EXCEPT !.at = "inserted"]
                          \/ x = [was EXCEPT !.at = "failed"]
                          \/ /\ x = [was EXCEPT !.at = "read", !.seen = day]
                             /\ sent[was.event] \in Totals
                          \/ x = [was EXCEPT !.at = "failing", !.seen = NoDay]
    <3>1. CASE Insert(h)
      <4>1. delivery[was.event] \in DeliveryStatuses /\ was.at # "idle"
        BY <1>1, <2>1, <3>1 DEF Insert, Working
      <4>2. QED
        BY <3>1, <4>1 DEF Insert
    <3>2. CASE Reclaim(h)
      <4>1. handler' = [handler EXCEPT ![h] = [was EXCEPT !.at = "inserted"]] /\ was.at # "idle"
        BY <3>2 DEF Reclaim
      <4>2. QED
        BY <4>1
    <3>3. CASE ReadDay(h)
      <4>1. /\ handler' = [handler EXCEPT ![h] = [was EXCEPT !.at = "read", !.seen = day]]
            /\ was.at # "idle" /\ sent[was.event] \in Totals
        BY <1>1, <3>3 DEF ReadDay, Topic
      <4>2. QED
        BY <4>1
    <3>4. CASE CommitConflicts(h) \/ Raise(h)
      <4>1. /\ handler' = [handler EXCEPT ![h] = [was EXCEPT !.at = "failing", !.seen = NoDay]]
            /\ was.at # "idle"
        BY <1>1, <3>4 DEF CommitConflicts, Raise
      <4>2. QED
        BY <4>1
    <3>5. CASE Crash(h)
      BY <3>5 DEF Crash
    <3>6. QED
      BY <1>6, <3>1, <3>2, <3>3, <3>4, <3>5
  <2>3. x \in Handling /\ Working(x)
    BY <1>1, <1>2, <2>1, <2>2 DEF Handling, HandlerStates, Working
  <2>4. /\ UNCHANGED <<sent, delivery, day, connected, dailySync, known, off, applied, late>>
        /\ mishaps' \in 0..MaxMishaps
    BY <1>1, <1>6 DEF Insert, Reclaim, ReadDay, CommitConflicts, Raise,
       Crash, Mishap, History
  <2>5. QED
    BY <1>1, <2>2, <2>3, <2>4, HandlerStepTyped
\* Commits, and the failure that is recorded instead.
<1>7. ASSUME NEW h \in Handlers,
             \/ CommitTotal(h) \/ CommitUninstalled(h) \/ CommitRedacted(h)
             \/ RecordFailure(h)
      PROVE  HooksTyped'
  <2> PICK e : e = handler[h].event
    OBVIOUS
  <2>1. handler[h] \in Handling /\ handler[h].at # "idle" /\ e \in DOMAIN sent
    BY <1>1, <1>7 DEF HooksTyped, Working, CommitTotal, CommitUninstalled, CommitRedacted,
       RecordFailure
  <2>2. e \in Events /\ Topic(h) \in Topics
    BY <1>1, <2>1 DEF Topic
  <2>3. /\ handler' = [handler EXCEPT ![h] = Idle]
        /\ UNCHANGED <<sent, dailySync, mishaps>>
        /\ \E status \in DeliveryStatuses : delivery' = [delivery EXCEPT ![e] = status]
    <3>1. CASE RecordFailure(h)
      BY <1>1, <2>2, <3>1 DEF RecordFailure
    <3>2. CASE CommitTotal(h) \/ CommitUninstalled(h) \/ CommitRedacted(h)
      BY <3>2 DEF CommitTotal, CommitUninstalled, CommitRedacted, Complete,
         History
    <3>3. QED
      BY <1>7, <3>1, <3>2
  <2>4. delivery' \in [Events -> DeliveryStatuses]
    BY <1>1, <2>3
  <2>5. /\ day' \in Days /\ connected' \in BOOLEAN
        /\ known' \in [Totals -> SUBSET Events] /\ off' \subseteq Totals
        /\ applied' \in [Events -> Nat] /\ late' \in BOOLEAN
    <3>1. CASE CommitTotal(h)
      <4> PICK t : t = Topic(h)
        OBVIOUS
      <4> PICK seen : seen = handler[h].seen
        OBVIOUS
      <4>1. /\ day' = [day EXCEPT !.exists = TRUE, ![t] = seen[t] + 1]
            /\ known' = [known EXCEPT ![t] = @ \cup {e}]
            /\ off' = IF e \in known[t] \/ seen[t] # day[t] THEN off \cup {t} ELSE off
            /\ applied' = [applied EXCEPT ![e] = @ + 1]
            /\ UNCHANGED <<connected, late>>
        BY <3>1 DEF CommitTotal, Added
      <4>2. t \in Totals
        BY <3>1 DEF HooksTyped, Working, CommitTotal, Topic
      <4>3. seen \in Days /\ seen[t] + 1 \in Nat
        BY <2>1, <4>2 DEF Days, Handling
      <4>4. day' \in Days
        BY <1>1, <4>1, <4>2, <4>3 DEF Days
      <4>5. known' \in [Totals -> SUBSET Events] /\ off' \subseteq Totals
        BY <1>1, <2>2, <4>1, <4>2
      <4>6. applied' \in [Events -> Nat]
        BY <1>1, <2>2, <4>1
      <4>7. QED
        BY <1>1, <4>1, <4>4, <4>5, <4>6
    <3>2. CASE CommitUninstalled(h)
      BY <1>1, <3>2 DEF CommitUninstalled, History
    <3>3. CASE CommitRedacted(h)
      BY <1>1, <1>2, <3>3 DEF CommitRedacted
    <3>4. CASE RecordFailure(h)
      BY <1>1, <3>4 DEF RecordFailure
    <3>5. QED
      BY <1>7, <3>1, <3>2, <3>3, <3>4
  <2>6. Working(Idle)
    BY <1>2 DEF Working
  <2>7. QED
    BY <1>1, <1>2, <2>3, <2>4, <2>5, <2>6, HandlerStepTyped
<1>8. CASE ReadOrders \/ LoadDay \/ FailDailySync \/ CommitDailySync
  <2>1. UNCHANGED <<sent, delivery, handler, connected, applied, late>>
    BY <1>8 DEF ReadOrders, LoadDay, FailDailySync, CommitDailySync, History
  <2>2. dailySync' \in DailySyncs
    <3>1. NoDailySync \in DailySyncs
      BY <1>2 DEF NoDailySync, DailySyncs
    <3>2. CASE ReadOrders
      <4>1. Ordered \in SUBSET Events
        BY <1>1 DEF Ordered
      <4>2. QED
        BY <1>2, <3>2, <4>1 DEF ReadOrders, DailySyncs
    <3>3. CASE LoadDay
      <4>1. dailySync' = [dailySync EXCEPT !.at = "loaded", !.seen = day]
        BY <3>3 DEF LoadDay
      <4>2. QED
        BY <1>1, <4>1 DEF DailySyncs
    <3>4. QED
      BY <1>8, <3>1, <3>2, <3>3 DEF FailDailySync, CommitDailySync
  <2>3. mishaps' \in 0..MaxMishaps
    BY <1>1, <1>8 DEF ReadOrders, LoadDay, FailDailySync, CommitDailySync, Mishap
  <2>4. /\ day' \in Days
        /\ known' \in [Totals -> SUBSET Events] /\ off' \subseteq Totals
    <3>1. CASE CommitDailySync
      <4> PICK orders : orders = dailySync.orders
        OBVIOUS
      <4>1. orders \in SUBSET Events /\ Cardinality(orders) \in Nat
        <5>1. orders \in SUBSET (1..MaxEvents)
          BY <1>1 DEF DailySyncs
        <5>2. IsFiniteSet(1..MaxEvents)
          BY FS_Interval
        <5>3. IsFiniteSet(orders)
          BY <5>1, <5>2, FS_Subset
        <5>4. QED
          BY <5>1, <5>3, FS_CardinalityType
      <4> DEFINE moot == dailySync.orders = {} \/ Conflict(dailySync.seen)
      <4>2. CASE moot
        BY <1>1, <3>1, <4>2 DEF CommitDailySync
      <4>3. CASE ~moot
        <5>1. PICK now \in {day.orders, Cardinality(orders)} :
                /\ day' = [day EXCEPT !.exists = TRUE, !.orders = now]
                /\ \/ known' = [known EXCEPT !["orders"] = orders] /\ off' = off \ {"orders"}
                   \/ UNCHANGED <<known, off>>
          <6> PICK now : now = Replaced(Cardinality(orders), dailySync.seen)
            OBVIOUS
          <6>1. /\ day' = [day EXCEPT !.exists = TRUE, !.orders = now]
                /\ IF now = Cardinality(orders)
                   THEN known' = [known EXCEPT !["orders"] = orders] /\ off' = off \ {"orders"}
                   ELSE UNCHANGED <<known, off>>
            BY <3>1, <4>3 DEF CommitDailySync
          <6>2. now \in {day.orders, Cardinality(orders)}
            BY DEF Replaced
          <6>3. QED
            BY <6>1, <6>2
        <5>2. now \in Nat
          BY <1>1, <4>1 DEF Days
        <5>3. day' \in Days
          BY <1>1, <5>1, <5>2 DEF Days
        <5>4. QED
          BY ZenonT(30), <1>1, <4>1, <5>1, <5>3
      <4>4. QED
        BY <4>2, <4>3
    <3>2. CASE ReadOrders \/ LoadDay \/ FailDailySync
      BY <1>1, <3>2 DEF ReadOrders, LoadDay, FailDailySync, History
    <3>3. QED
      BY <1>8, <3>1, <3>2
  <2>5. HooksTypeOK'
    BY <1>1, <2>1, <2>2, <2>3, <2>4 DEF HooksTypeOK, Days, Handling, DailySyncs
  <2>6. QED
    BY <2>1, <2>5 DEF HooksTyped, Working
<1>9. CASE UNCHANGED hooksVars
  BY <1>9 DEF hooksVars, History, HooksTyped, Working, HooksTypeOK, Handling, Days, DailySyncs
<1>10. QED
  BY <1>3, <1>4, <1>5, <1>6, <1>7, <1>8, <1>9 DEF HooksNext


\* What a total is off by is not the fault of the one that counts.
Explained ==
    /\ HooksTyped
    /\ \A t \in Totals \ off : day[t] = Cardinality(known[t])

LEMMA EventsAreFinite ==
    ASSUME NEW S \in SUBSET Events
    PROVE  IsFiniteSet(S) /\ Cardinality(S) \in Nat
<1>1. S \in SUBSET (1..MaxEvents) /\ IsFiniteSet(1..MaxEvents)
  BY FS_Interval DEF Events
<1>2. IsFiniteSet(S)
  BY <1>1, FS_Subset
<1>3. QED
  BY <1>2, FS_CardinalityType

LEMMA TotalStaysExplained ==
    ASSUME Explained, HooksTyped', NEW h \in Handlers, CommitTotal(h)
    PROVE  Explained'
<1> PICK t : t = Topic(h)
  OBVIOUS
<1> PICK e : e = handler[h].event
  OBVIOUS
<1> PICK seen : seen = handler[h].seen
  OBVIOUS
<1>1. /\ day' = [day EXCEPT !.exists = TRUE, ![t] = seen[t] + 1]
      /\ known' = [known EXCEPT ![t] = @ \cup {e}]
      /\ off' = IF e \in known[t] \/ seen[t] # day[t] THEN off \cup {t} ELSE off
      /\ handler[h].at = "read"
  BY DEF CommitTotal, Added
<1>2. /\ t \in Totals /\ e \in Events /\ day \in Days
      /\ known \in [Totals -> SUBSET Events]
  <2>1. handler[h] \in Handling /\ Working(handler[h]) /\ DOMAIN sent \subseteq Events
    BY DEF Explained, HooksTyped, HooksTypeOK, Events
  <2>2. QED
    BY <1>1, <2>1 DEF Explained, HooksTyped, HooksTypeOK, Working, Topic
<1>3. ASSUME NEW u \in Totals \ off'
      PROVE  day'[u] = Cardinality(known'[u])
  <2>1. u \notin off /\ day[u] = Cardinality(known[u])
    BY <1>1, <1>3 DEF Explained
  <2>2. CASE u = t
    <3>1. e \notin known[t] /\ seen[t] = day[t]
      BY <1>1, <1>3, <2>2
    <3>2. day'[t] = day[t] + 1 /\ known'[t] = known[t] \cup {e}
      BY <1>1, <1>2, <3>1 DEF Days, Totals
    <3>3. IsFiniteSet(known[t])
      BY <1>2, EventsAreFinite
    <3>4. Cardinality(known[t] \cup {e}) = Cardinality(known[t]) + 1
      BY <3>1, <3>3, FS_AddElement
    <3>5. QED
      BY <2>1, <2>2, <3>2, <3>4
  <2>3. CASE u # t
    BY <1>1, <1>2, <2>1, <2>3 DEF Days, Totals
  <2>4. QED
    BY <2>2, <2>3
<1>4. QED
  BY <1>3 DEF Explained, Totals

LEMMA SyncStaysExplained ==
    ASSUME Explained, HooksTyped', CommitDailySync
    PROVE  Explained'
<1> PICK orders : orders = dailySync.orders
  OBVIOUS
<1> PICK now : now = Replaced(Cardinality(orders), dailySync.seen)
  OBVIOUS
<1> DEFINE moot == dailySync.orders = {} \/ Conflict(dailySync.seen)
<1>1. CASE moot
  BY <1>1 DEF CommitDailySync, Explained
<1>2. CASE ~moot
  <2>1. /\ day' = [day EXCEPT !.exists = TRUE, !.orders = now]
        /\ IF now = Cardinality(orders)
           THEN known' = [known EXCEPT !["orders"] = orders] /\ off' = off \ {"orders"}
           ELSE UNCHANGED <<known, off>>
    BY <1>2 DEF CommitDailySync
  <2>2. now = Cardinality(orders) \/ now = day.orders
    BY DEF Replaced
  <2>3. day \in Days /\ known \in [Totals -> SUBSET Events]
    BY DEF Explained, HooksTyped, HooksTypeOK
  <2> HIDE DEF moot
  <2>4. day'["orders"] = now /\ day'["refunds"] = day["refunds"]
    BY <2>1, <2>3 DEF Days
  <2>5. ASSUME NEW t \in Totals \ off'
        PROVE  day'[t] = Cardinality(known'[t])
    <3>1. CASE t = "orders"
      <4>1. CASE now = Cardinality(orders)
        BY <2>1, <2>3, <2>4, <3>1, <4>1 DEF Totals
      <4>2. CASE now # Cardinality(orders)
        BY <2>1, <2>2, <2>4, <2>5, <3>1, <4>2 DEF Explained
      <4>3. QED
        BY <4>1, <4>2
    <3>2. CASE t = "refunds"
      BY <2>1, <2>3, <2>4, <2>5, <3>2 DEF Explained, Totals
    <3>3. QED
      BY <2>5, <3>1, <3>2 DEF Totals
  <2>6. QED
    BY <2>5 DEF Explained, Totals
<1>3. QED
  BY <1>1, <1>2

\* A total counts each notification it stands for once, and nothing else, until
\* a request that read an older day writes it over: for any number of
\* notifications, processes, syncs and failures.
THEOREM TotalsStandForEvents == HooksSpec => []TotalsAreExplained
<1>1. HooksInit => Explained
  <2> SUFFICES ASSUME HooksInit
               PROVE  Explained
    OBVIOUS
  <2>1. HooksTyped
    BY InitHooksTyped
  <2>2. \A t \in Totals : day[t] = 0 /\ known[t] = {}
    BY DEF HooksInit, NoDay, Totals
  <2>3. QED
    BY <2>1, <2>2, FS_EmptySet DEF Explained
<1>2. Explained /\ [HooksNext]_hooksVars => Explained'
  <2> SUFFICES ASSUME Explained, [HooksNext]_hooksVars
               PROVE  Explained'
    OBVIOUS
  <2>1. HooksTyped'
    BY StepHooksTyped DEF Explained
  <2>2. CASE UNCHANGED <<day, known, off>>
    BY <2>1, <2>2 DEF Explained, Totals
  <2>3. CASE \E h \in Handlers : CommitTotal(h)
    BY <2>1, <2>3, TotalStaysExplained
  <2>4. CASE \E h \in Handlers : CommitRedacted(h)
    <3>1. \A t \in Totals : day'[t] = 0 /\ known'[t] = {}
      BY <2>4 DEF CommitRedacted, NoDay, Totals
    <3>2. QED
      BY <2>1, <3>1, FS_EmptySet DEF Explained, Totals
  <2>5. CASE CommitDailySync
    BY <2>1, <2>5, SyncStaysExplained
  <2>6. QED
    BY <2>2, <2>3, <2>4, <2>5 DEF HooksNext, hooksVars, History, Happen, Reconnect,
       Find, Insert, Reclaim, ReadDay, CommitConflicts,
       CommitUninstalled, Raise, RecordFailure, Crash, ReadOrders,
       LoadDay, FailDailySync
<1>3. Explained => TotalsAreExplained
  BY DEF Explained, TotalsAreExplained
<1>4. QED
  BY <1>1, <1>2, <1>3, PTL DEF HooksSpec


\* A handler with a delivery in its open transaction.
Holds(x) == x.at \in {"inserted", "read"}

\* Until a failure is written over a delivery none is marked failed at all, and
\* a delivery that is held is new, held by one and added by nobody.
HeldOnce ==
    /\ HooksTyped
    /\ ~late =>
         /\ \A e \in Events :
              /\ delivery[e] # "failed"
              /\ delivery[e] = "none" => applied[e] = 0
              /\ applied[e] <= 1
         /\ \A h \in Handlers :
              /\ handler[h].at # "failed"
              /\ Holds(handler[h]) => delivery[handler[h].event] = "none"
         /\ \A g, h \in Handlers :
              Holds(handler[g]) /\ Holds(handler[h]) /\ handler[g].event = handler[h].event => g = h

LEMMA AtWork ==
    ASSUME HooksTyped, NEW h \in Handlers, handler[h].at # "idle"
    PROVE  /\ handler \in [Handlers -> Handling] /\ handler[h] \in Handling
           /\ handler[h].event \in Events
           /\ delivery \in [Events -> DeliveryStatuses]
           /\ applied \in [Events -> Nat] /\ late \in BOOLEAN
<1>1. DOMAIN sent = 1..Len(sent) /\ Len(sent) <= MaxEvents /\ Len(sent) \in Nat
  BY DEF HooksTyped, HooksTypeOK
<1>2. handler[h].event \in DOMAIN sent
  BY DEF HooksTyped, Working
<1>3. handler[h].event \in 1..MaxEvents
  <2>1. PICK e : e = handler[h].event
    OBVIOUS
  <2>2. e \in 0..MaxEvents
    BY <2>1 DEF HooksTyped, HooksTypeOK, Handling
  <2>3. e # 0
    BY <1>1, <1>2, <2>1
  <2>4. QED
    BY <2>1, <2>2, <2>3
<1>4. QED
  BY <1>3 DEF HooksTyped, HooksTypeOK, Events

\* A step that moves one handler and holds nothing new.
LEMMA MovedHeldOnce ==
    ASSUME HeldOnce, HooksTyped', NEW h \in Handlers, NEW x,
           handler' = [handler EXCEPT ![h] = x], UNCHANGED <<delivery, applied, late>>,
           Holds(x) => x.event = handler[h].event /\ Holds(handler[h]),
           ~late => x.at # "failed"
    PROVE  HeldOnce'
<1>1. \A g \in Handlers : handler'[g] = IF g = h THEN x ELSE handler[g]
  BY DEF HeldOnce, HooksTyped, HooksTypeOK
<1>2. QED
  BY <1>1 DEF HeldOnce, Events

LEMMA InsertHeldOnce ==
    ASSUME HeldOnce, HooksTyped', NEW h \in Handlers, Insert(h) \/ Reclaim(h)
    PROVE  HeldOnce'
<1> PICK was : was = handler[h]
  OBVIOUS
<1>1. UNCHANGED <<delivery, applied, late>> /\ was.at # "idle" /\ ~Held(h)
  BY DEF Insert, Reclaim, History
<1>2. was \in Handling /\ handler \in [Handlers -> Handling]
      /\ delivery \in [Events -> DeliveryStatuses]
  BY <1>1, AtWork DEF HeldOnce
<1>3. was.event \in Events
  BY <1>1, AtWork DEF HeldOnce
<1>4. ASSUME ~late
      PROVE  /\ was.at = "found"
             /\ \/ handler' = [handler EXCEPT ![h] = Idle]
                \/ /\ handler' = [handler EXCEPT ![h] = [was EXCEPT !.at = "inserted"]]
                   /\ delivery[was.event] = "none"
  <2>1. Insert(h) /\ delivery[was.event] \in {"none", "completed"} /\ was.at = "found"
    BY <1>2, <1>3, <1>4 DEF HeldOnce, Reclaim, Insert, DeliveryStatuses
  <2>2. CASE delivery[was.event] = "none"
    BY <2>1, <2>2 DEF Insert
  <2>3. CASE delivery[was.event] = "completed"
    BY <2>1, <2>3 DEF Insert
  <2>4. QED
    BY <2>1, <2>2, <2>3
<1>5. CASE late
  BY <1>1, <1>5 DEF HeldOnce
<1>6. CASE ~late /\ handler' = [handler EXCEPT ![h] = Idle]
  BY <1>1, <1>6, MovedHeldOnce DEF Holds, Idle
<1>7. CASE /\ ~late /\ handler' = [handler EXCEPT ![h] = [was EXCEPT !.at = "inserted"]]
           /\ delivery[was.event] = "none"
  <2> PICK x : x = [was EXCEPT !.at = "inserted"]
    OBVIOUS
  <2>1. x.at = "inserted" /\ x.event = was.event
    BY <1>2 DEF Handling
  <2>2. \A g \in Handlers : handler'[g] = IF g = h THEN x ELSE handler[g]
    BY <1>2, <1>7
  <2>3. \A g \in Handlers \ {h} : Holds(handler[g]) => handler[g].event # was.event
    BY <1>1 DEF Held, Holds
  <2>4. QED
    BY <1>1, <1>7, <2>1, <2>2, <2>3 DEF HeldOnce, Events
<1>8. QED
  BY <1>4, <1>5, <1>6, <1>7

LEMMA CompleteHeldOnce ==
    ASSUME HeldOnce, HooksTyped', NEW h \in Handlers,
           CommitTotal(h) \/ CommitUninstalled(h) \/ CommitRedacted(h)
    PROVE  HeldOnce'
<1> PICK e : e = handler[h].event
  OBVIOUS
<1>1. /\ handler' = [handler EXCEPT ![h] = Idle]
      /\ delivery' = [delivery EXCEPT ![e] = "completed"]
      /\ late' = late /\ Holds(handler[h])
      /\ applied' = applied \/ applied' = [applied EXCEPT ![e] = @ + 1]
  BY DEF CommitTotal, CommitUninstalled, CommitRedacted, Complete,
     History, Holds
<1>2. /\ handler \in [Handlers -> Handling]
      /\ delivery \in [Events -> DeliveryStatuses]
      /\ applied \in [Events -> Nat]
  BY <1>1, AtWork DEF HeldOnce, Holds
<1>3. e \in Events
  BY <1>1, AtWork DEF HeldOnce, Holds
<1>4. CASE late
  BY <1>1, <1>4 DEF HeldOnce
<1>5. CASE ~late
  <2>1. /\ \A d \in Events : delivery'[d] = IF d = e THEN "completed" ELSE delivery[d]
        /\ \A g \in Handlers : handler'[g] = IF g = h THEN Idle ELSE handler[g]
    BY <1>1, <1>2
  <2>2. ~Holds(Idle) /\ Idle.at # "failed"
    BY DEF Idle, Holds
  <2>3. applied[e] = 0
    BY <1>1, <1>3, <1>5 DEF HeldOnce
  <2>4. \A d \in Events : applied'[d] <= 1 /\ (d # e => applied'[d] = applied[d])
    BY <1>1, <1>2, <1>5, <2>3 DEF HeldOnce
  <2>5. \A d \in Events : /\ delivery'[d] # "failed"
                                /\ delivery'[d] = "none" => applied'[d] = 0
    BY <1>5, <2>1, <2>4 DEF HeldOnce
  <2>6. \A g \in Handlers : /\ handler'[g].at # "failed"
                            /\ Holds(handler'[g]) => /\ g # h /\ handler'[g] = handler[g]
                                                     /\ delivery'[handler'[g].event] = "none"
    <3> TAKE g \in Handlers
    <3>1. CASE g = h
      BY <2>1, <2>2, <3>1
    <3>2. CASE g # h
      <4>1. handler'[g] = handler[g] /\ handler[g].at # "failed"
        BY <1>5, <2>1, <3>2 DEF HeldOnce
      <4>2. ASSUME Holds(handler[g])
            PROVE  delivery'[handler[g].event] = "none"
        <5>1. handler[g].event # e /\ delivery[handler[g].event] = "none"
          BY <1>1, <1>5, <3>2, <4>2 DEF HeldOnce
        <5>2. QED
          BY <1>2, <1>1, <5>1
      <4>3. QED
        BY <3>2, <4>1, <4>2
    <3>3. QED
      BY <3>1, <3>2
  <2>7. \A f, g \in Handlers :
          Holds(handler'[f]) /\ Holds(handler'[g]) /\ handler'[f].event = handler'[g].event => f = g
    BY <1>5, <2>6 DEF HeldOnce
  <2>8. QED
    BY <1>1, <2>4, <2>5, <2>6, <2>7 DEF HeldOnce
<1>6. QED
  BY <1>4, <1>5

LEMMA FailureHeldOnce ==
    ASSUME HeldOnce, HooksTyped', NEW h \in Handlers, RecordFailure(h)
    PROVE  HeldOnce'
<1> PICK e : e = handler[h].event
  OBVIOUS
<1>1. /\ delivery' = [delivery EXCEPT ![e] = IF @ = "none" THEN @ ELSE "failed"]
      /\ late' = (late \/ delivery[e] = "completed")
      /\ handler' = [handler EXCEPT ![h] = Idle] /\ applied' = applied
      /\ handler[h].at = "failing"
  BY DEF RecordFailure
<1>2. /\ handler \in [Handlers -> Handling] /\ late \in BOOLEAN
      /\ delivery \in [Events -> DeliveryStatuses]
  BY <1>1, AtWork DEF HeldOnce
<1>3. e \in Events
  BY <1>1, AtWork DEF HeldOnce
<1>4. CASE late'
  BY <1>4 DEF HeldOnce
<1>5. CASE ~late'
  <2>1. ~late /\ delivery[e] = "none"
    BY <1>1, <1>2, <1>3, <1>5 DEF HeldOnce, DeliveryStatuses
  <2>2. delivery' = delivery
    BY <1>1, <1>2, <1>3, <2>1
  <2>3. late' = late
    BY <1>1, <1>2, <2>1
  <2>4. QED
    BY <1>1, <2>2, <2>3, MovedHeldOnce DEF Holds, Idle
<1>6. QED
  BY <1>4, <1>5

LEMMA StepHeldOnce ==
    ASSUME HeldOnce, [HooksNext]_hooksVars
    PROVE  HeldOnce'
<1>1. HooksTyped'
  BY StepHooksTyped DEF HeldOnce
<1>2. CASE UNCHANGED <<delivery, handler, applied, late>>
  BY <1>1, <1>2 DEF HeldOnce, Events
<1>3. ASSUME NEW h \in Handlers, NEW e \in Events, Find(h, e)
      PROVE  HeldOnce'
  <2> PICK x : x = [at |-> "found", event |-> e, seen |-> NoDay]
    OBVIOUS
  <2>1. handler' = [handler EXCEPT ![h] = x] /\ ~Holds(x) /\ x.at # "failed"
    BY <1>3 DEF Find, Holds
  <2>2. UNCHANGED <<delivery, applied, late>>
    BY <1>3 DEF Find, History
  <2>3. QED
    BY <1>1, <2>1, <2>2, MovedHeldOnce
<1>4. ASSUME NEW h \in Handlers,
             ReadDay(h) \/ CommitConflicts(h) \/ Raise(h) \/ Crash(h)
      PROVE  HeldOnce'
  <2> PICK was : was = handler[h]
    OBVIOUS
  <2>1. was \in Handling
    BY DEF HeldOnce, HooksTyped, HooksTypeOK
  <2>2. PICK x : /\ handler' = [handler EXCEPT ![h] = x]
                 /\ Holds(x) => x.event = was.event /\ Holds(was)
                 /\ x.at # "failed"
    <3>1. CASE ReadDay(h)
      <4> PICK x : x = [was EXCEPT !.at = "read", !.seen = day]
        OBVIOUS
      <4>1. handler' = [handler EXCEPT ![h] = x] /\ Holds(was)
        BY <3>1 DEF ReadDay, Holds
      <4>2. x.event = was.event /\ x.at = "read"
        BY <2>1 DEF Handling
      <4>3. QED
        BY <4>1, <4>2
    <3>2. CASE CommitConflicts(h) \/ Raise(h)
      <4> PICK x : x = [was EXCEPT !.at = "failing", !.seen = NoDay]
        OBVIOUS
      <4>1. handler' = [handler EXCEPT ![h] = x]
        BY <3>2 DEF CommitConflicts, Raise
      <4>2. x.at = "failing"
        BY <2>1 DEF Handling
      <4>3. QED
        BY <4>1, <4>2 DEF Holds
    <3>3. CASE Crash(h)
      <4> PICK x : x = Idle
        OBVIOUS
      <4>1. handler' = [handler EXCEPT ![h] = x]
        BY <3>3 DEF Crash
      <4>2. x.at = "idle"
        BY DEF Idle
      <4>3. QED
        BY <4>1, <4>2 DEF Holds
    <3>4. QED
      BY <1>4, <3>1, <3>2, <3>3
  <2>3. UNCHANGED <<delivery, applied, late>>
    BY <1>4 DEF ReadDay, CommitConflicts, Raise, Crash, History
  <2>4. QED
    BY <1>1, <2>2, <2>3, MovedHeldOnce
<1>5. CASE \E h \in Handlers : Insert(h) \/ Reclaim(h)
  BY <1>1, <1>5, InsertHeldOnce
<1>6. CASE \E h \in Handlers :
              CommitTotal(h) \/ CommitUninstalled(h) \/ CommitRedacted(h)
  BY <1>1, <1>6, CompleteHeldOnce
<1>7. CASE \E h \in Handlers : RecordFailure(h)
  BY <1>1, <1>7, FailureHeldOnce
<1>8. CASE \/ \E topic \in Topics : Happen(topic)
           \/ Reconnect \/ ReadOrders \/ LoadDay \/ CommitDailySync \/ FailDailySync
           \/ UNCHANGED hooksVars
  BY <1>2, <1>8 DEF Happen, Reconnect, ReadOrders, LoadDay, CommitDailySync,
     FailDailySync, History, hooksVars
<1>9. QED
  BY <1>3, <1>4, <1>5, <1>6, <1>7, <1>8 DEF HooksNext

\* A notification is added once, however often and to however many processes
\* it is delivered, unless the failure of one handler was written over the
\* completed delivery of another (routers/shopify.py:253-272).
THEOREM NotificationsAreAddedOnce == HooksSpec => []AddedOnce
<1>1. HooksInit => HeldOnce
  <2> SUFFICES ASSUME HooksInit
               PROVE  HeldOnce
    OBVIOUS
  <2>1. HooksTyped
    BY InitHooksTyped
  <2>2. \A h \in Handlers : handler[h].at = "idle"
    BY DEF HooksInit, Idle
  <2>3. \A e \in Events : delivery[e] = "none" /\ applied[e] = 0
    BY DEF HooksInit
  <2>4. QED
    BY <2>1, <2>2, <2>3 DEF HeldOnce, Holds
<1>2. HeldOnce /\ [HooksNext]_hooksVars => HeldOnce'
  BY StepHeldOnce
<1>3. HeldOnce => AddedOnce
  BY DEF HeldOnce, AddedOnce
<1>4. QED
  BY <1>1, <1>2, <1>3, PTL DEF HooksSpec
=============================================================================
