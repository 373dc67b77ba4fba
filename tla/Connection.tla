------------------------------- MODULE Connection -------------------------------
(***************************************************************************)
(* The life of a Shopify connection: the OAuth callback and its pilot gate *)
(* (routers/shopify.py, shopify.py, pilot.py), the credential beside it    *)
(* (credentials.py), the merchant's own disconnect, the background sync    *)
(* that finds a revoked token (tasks.py), and Shopify's uninstall and      *)
(* erasure notices.  A sync's totals and a notice's bookkeeping are in     *)
(* Measurement and ShopifyHooks; the claim of a sync is in Jobs.           *)
(*                                                                         *)
(* Every request reads its row once, works with Shopify over HTTP, and     *)
(* writes the columns it changed: a status that was read as it should      *)
(* become is not written, the settings are written whole.  A rollback and  *)
(* the re-read after it, within one commit, are one step.                  *)
(*                                                                         *)
(* One connection has one sync at a time (its claim) and a tenant one tab. *)
(* Shopify redeems a code once, so the state of an authorization is taken  *)
(* to be used once.  The three notifications are one.  Left out: scopes,   *)
(* and the audit log.                                                      *)
(***************************************************************************)
EXTENDS Integers, FiniteSets

CONSTANTS
    Tenants, Shops,
    Pairs,              \* the tenants and the shops they have access to
    MaximumStores,      \* PILOT_MAX_SHOPIFY_STORES
    MaxApprovals,       \* bound: authorizations that merchants approve
    MaxFaults           \* bound: requests and syncs that fail

ASSUME ConnectionAssumption ==
    /\ IsFiniteSet(Pairs) /\ Pairs \subseteq Tenants \X Shops
    /\ MaximumStores \in Nat /\ MaxApprovals \in Nat /\ MaxFaults \in Nat

VARIABLES
    install,        \* Shopify: whether the app is in each shop, and the token it answers to
    subscribed,     \* Shopify: the shops whose notifications come to us
    notices,        \* Shopify: what it has to tell us
    channel,        \* the channel_connections row of each tenant and shop
    credential,     \* the token kept for it, 0 if none
    facts,          \* the connections that have days in commerce_daily_metrics
    callbacks,      \* the requests to the callback under way
    leaving,        \* the requests to disconnect under way
    sync,           \* the sync of each connection
    approvals,      \* history: authorizations so far
    renewed,        \* history: the authorization each connection was last made with
    crossed,        \* history: two tenants' callbacks for one shop overlapped
    faults          \* history: failures so far

vars == <<install, subscribed, notices, channel, credential, facts, callbacks, leaving, sync,
          approvals, renewed, crossed, faults>>

Tokens == 0..MaxApprovals
Statuses == {"none", "connected", "disconnected"}
Channels == [status : Statuses, revoked : BOOLEAN]
NoChannel == [status |-> "none", revoked |-> FALSE]
Installs == [live : BOOLEAN, token : Tokens]
Notices == [topic : {"uninstalled", "redact"}, shop : Shops, token : Tokens]
Requests == [no : 1..MaxApprovals, at : {"approved", "checked", "admitted"},
             pair : Pairs, seen : Channels]
Leavings == [pair : Pairs, seen : Channels]
Syncs == [at : {"idle", "queued", "loaded", "denied"}, seen : Channels,
          token : Tokens, renewed : Tokens]
NoSync == [at |-> "idle", seen |-> NoChannel, token |-> 0, renewed |-> 0]

TypeOK ==
    /\ install \in [Shops -> Installs]
    /\ subscribed \subseteq Shops
    /\ notices \subseteq Notices
    /\ channel \in [Pairs -> Channels]
    /\ credential \in [Pairs -> Tokens]
    /\ facts \subseteq Pairs
    /\ callbacks \subseteq Requests
    /\ leaving \subseteq Leavings
    /\ sync \in [Pairs -> Syncs]
    /\ approvals \in 0..MaxApprovals
    /\ renewed \in [Pairs -> Tokens]
    /\ crossed \in BOOLEAN
    /\ faults \in 0..MaxFaults

Init ==
    /\ install = [s \in Shops |-> [live |-> FALSE, token |-> 0]]
    /\ subscribed = {} /\ notices = {} /\ facts = {}
    /\ channel = [p \in Pairs |-> NoChannel]
    /\ credential = [p \in Pairs |-> 0]
    /\ callbacks = {} /\ leaving = {}
    /\ sync = [p \in Pairs |-> NoSync]
    /\ approvals = 0
    /\ renewed = [p \in Pairs |-> 0]
    /\ crossed = FALSE /\ faults = 0

Shopify == <<install, subscribed, notices>>

Tenant(p) == p[1]
Shop(p) == p[2]
Connected(p) == channel[p].status = "connected"
Enrolled == {p \in Pairs : channel[p].status # "none"}
\* Whether the token kept for a connection is the one the shop answers to.
Works(p) == /\ install[Shop(p)].live
            /\ credential[p] # 0 /\ credential[p] = install[Shop(p)].token
Fault == faults < MaxFaults /\ faults' = faults + 1

---------------------------------------------------------------------------
(* Shopify.                                                                *)

\* The merchant approves the scopes and the browser comes back with the state
\* of the authorization, which is used up.
Approve(p) ==
    /\ approvals < MaxApprovals
    /\ approvals' = approvals + 1
    /\ callbacks' = callbacks \cup {[no |-> approvals + 1, at |-> "approved",
                                     pair |-> p, seen |-> NoChannel]}
    /\ install' = IF install[Shop(p)].live THEN install
                  ELSE [install EXCEPT ![Shop(p)] = [live |-> TRUE, token |-> approvals + 1]]
    /\ crossed' = (crossed \/ \E c \in callbacks : Shop(c.pair) = Shop(p)
                                                   /\ Tenant(c.pair) # Tenant(p))
    /\ UNCHANGED <<subscribed, notices, channel, credential, facts, leaving, sync, renewed, faults>>

\* The merchant removes the app, and its subscriptions with it.  Shopify says so
\* at once, if the notice was subscribed to, and asks for the erasure two days
\* later.
Uninstall(s) ==
    /\ install[s].live
    /\ install' = [install EXCEPT ![s].live = FALSE]
    /\ subscribed' = subscribed \ {s}
    /\ notices' = notices \cup
          {[topic |-> topic, shop |-> s, token |-> install[s].token] :
              topic \in IF s \in subscribed THEN {"uninstalled", "redact"} ELSE {"redact"}}
    /\ UNCHANGED <<channel, credential, facts, callbacks, leaving, sync,
                   approvals, renewed, crossed, faults>>

---------------------------------------------------------------------------
(* The callback.                                                           *)

Move(c, at, seen) == callbacks' = (callbacks \ {c}) \cup {[c EXCEPT !.at = at, !.seen = seen]}
Refuse(c) == callbacks' = callbacks \ {c}

\* Mutant: the tenant is declared first, and hides the rows of the others.
HeldByTenant(p) == {q \in Enrolled : q = p /\ Tenant(q) # Tenant(p)}

\* The tenants that hold the shop already.
HeldByOthers(p) == {q \in Enrolled : Shop(q) = Shop(p) /\ Tenant(q) # Tenant(p)}

\* Before the tenant is declared: who holds the shop?
Look(c) ==
    /\ c.at = "approved"
    /\ IF HeldByOthers(c.pair) # {} THEN Refuse(c) ELSE Move(c, "checked", channel[c.pair])
    /\ UNCHANGED <<Shopify, channel, credential, facts, leaving, sync,
                   approvals, renewed, crossed, faults>>

\* Mutant: places are counted without the lock.
NoLock == TRUE

\* The advisory lock of the pilot is held until the connection is committed.
LockIsFree == \A c \in callbacks : c.at # "admitted"

\* A shop that has joined may come back; a new one needs a place.
HasSpace(s) == \/ \E p \in Enrolled : Shop(p) = s
               \/ Cardinality(Enrolled) < MaximumStores

Admit(c) ==
    /\ c.at = "checked" /\ LockIsFree
    /\ IF HasSpace(Shop(c.pair)) THEN Move(c, "admitted", c.seen) ELSE Refuse(c)
    /\ UNCHANGED <<Shopify, channel, credential, facts, leaving, sync,
                   approvals, renewed, crossed, faults>>

\* What Shopify gives for the code: the token of a shop that still has the app.
exchange_code(s) == {install[s].token : live \in {live \in {TRUE} : install[s].live}}

\* Every notification is pointed at us.  What fails is noted and tried again
\* later; a shop subscribed before stays so.
Register(s) == subscribed' \in {subscribed, subscribed \cup {s}}

\* The code is exchanged for the token, the notifications are subscribed to, and
\* the channel and the credential are committed together.  A row the request took
\* for new and that exists by now is refused by its key.
Connect(c) ==
    /\ c.at = "admitted"
    /\ LET p == c.pair
           s == Shop(p)
       IN \/ /\ exchange_code(s) = {}
             /\ UNCHANGED <<subscribed, channel, credential, renewed>>
          \/ \E token \in exchange_code(s) :
                /\ Register(s)
                /\ IF c.seen = NoChannel /\ p \in Enrolled
                   THEN UNCHANGED <<channel, credential, renewed>>
                   ELSE /\ channel' = [channel EXCEPT
                              ![p].status = IF c.seen.status = "connected" THEN @ ELSE "connected",
                              ![p].revoked = c.seen.revoked]
                        /\ credential' = [credential EXCEPT ![p] = token]
                        /\ renewed' = [renewed EXCEPT ![p] = c.no]
    /\ Refuse(c)
    /\ UNCHANGED <<install, notices, facts, leaving, sync, approvals, crossed, faults>>

\* Shopify refuses the code, the encryption fails, or the process dies.
FailCallback(c) ==
    /\ Fault
    /\ Refuse(c)
    /\ UNCHANGED <<Shopify, channel, credential, facts, leaving, sync,
                   approvals, renewed, crossed>>

---------------------------------------------------------------------------
(* The merchant disconnects.                                               *)

\* The shop's subscriptions go, for every tenant that has it.
Unsubscribe(s) == subscribed' = subscribed \ {s}

\* One of the tenant's connected shops is read, and its notifications are removed
\* over HTTP, whether that works or not...
StartToLeave(p) ==
    /\ Connected(p)
    /\ \A l \in leaving : Tenant(l.pair) # Tenant(p)
    /\ leaving' = leaving \cup {[pair |-> p, seen |-> channel[p]]}
    /\ \/ Works(p) /\ Unsubscribe(Shop(p))
       \/ UNCHANGED subscribed
    /\ UNCHANGED <<install, notices, channel, credential, facts, callbacks, sync,
                   approvals, renewed, crossed, faults>>

Ended == "disconnected"

\* ... and the channel and its credential go in one commit.
Leave(l) ==
    /\ channel' = [channel EXCEPT ![l.pair] = [status |-> Ended, revoked |-> l.seen.revoked]]
    /\ credential' = [credential EXCEPT ![l.pair] = 0]
    /\ leaving' = leaving \ {l}
    /\ UNCHANGED <<Shopify, facts, callbacks, sync, approvals, renewed, crossed, faults>>

FailToLeave(l) ==
    /\ Fault
    /\ leaving' = leaving \ {l}
    /\ UNCHANGED <<Shopify, channel, credential, facts, callbacks, sync,
                   approvals, renewed, crossed>>

---------------------------------------------------------------------------
(* The notifications of a connected shop, asked for again.                 *)

RetryNotifications(p) ==
    /\ Connected(p) /\ Works(p)
    /\ Register(Shop(p))
    /\ UNCHANGED <<install, notices, channel, credential, facts, callbacks, leaving, sync,
                   approvals, renewed, crossed, faults>>

---------------------------------------------------------------------------
(* The sync of a connection.                                               *)

Queued(p) ==
    /\ sync[p].at = "idle" /\ Connected(p)
    /\ sync' = [sync EXCEPT ![p].at = "queued"]
    /\ UNCHANGED <<Shopify, channel, credential, facts, callbacks, leaving,
                   approvals, renewed, crossed, faults>>

\* The daily run passes over a connected shop without a credential...
DailySync(p) == credential[p] # 0 /\ Queued(p)

\* ... and the button on the screen does not ask.
AskForSync(p) == Queued(p)

\* The worker reads the row, whatever its status by now, and the credential.
Load(p) ==
    /\ sync[p].at = "queued"
    /\ sync' = [sync EXCEPT ![p] =
          [at |-> IF credential[p] = 0 THEN "denied" ELSE "loaded",
           seen |-> channel[p], token |-> credential[p], renewed |-> renewed[p]]]
    /\ UNCHANGED <<Shopify, channel, credential, facts, callbacks, leaving,
                   approvals, renewed, crossed, faults>>

\* Mutant: whatever goes wrong is taken for a refusal.
AnyErrorIsARefusal(p) == TRUE

\* Mutant: a refusal reads as a shop without orders.
RefusalIsEmpty(p) == FALSE

\* Shopify answers 401 or 403.
Refused(p) == ~install[Shop(p)].live \/ install[Shop(p)].token # sync[p].token

Deny(p) ==
    /\ sync[p].at = "loaded" /\ Refused(p)
    /\ sync' = [sync EXCEPT ![p].at = "denied"]
    /\ UNCHANGED <<Shopify, channel, credential, facts, callbacks, leaving,
                   approvals, renewed, crossed, faults>>

\* The orders are in: the days and the settings are written.
CommitSync(p) ==
    /\ sync[p].at = "loaded" /\ ~Refused(p)
    /\ facts' = facts \cup {p}
    /\ channel' = [channel EXCEPT ![p].revoked = sync[p].seen.revoked]
    /\ sync' = [sync EXCEPT ![p] = NoSync]
    /\ UNCHANGED <<Shopify, credential, callbacks, leaving,
                   approvals, renewed, crossed, faults>>

\* Mutant: the row is not read again after the rollback.
MarkedAsLoaded(p) == IF sync[p].seen.status = Ended THEN channel[p].status ELSE Ended

Marked(p) == Ended

\* The token is refused: the channel is marked and the credential deleted.
MarkRevoked(p) ==
    /\ sync[p].at = "denied"
    /\ channel' = [channel EXCEPT ![p] = [status |-> Marked(p), revoked |-> TRUE]]
    /\ credential' = [credential EXCEPT ![p] = 0]
    /\ sync' = [sync EXCEPT ![p] = NoSync]
    /\ UNCHANGED <<Shopify, facts, callbacks, leaving, approvals, renewed, crossed, faults>>

\* Anything else goes wrong, or the worker dies.
FailSync(p) ==
    /\ sync[p].at # "idle"
    /\ Fault
    /\ sync' = [sync EXCEPT ![p] = NoSync]
    /\ UNCHANGED <<Shopify, channel, credential, facts, callbacks, leaving,
                   approvals, renewed, crossed>>

---------------------------------------------------------------------------
(* Shopify's notices.  Without exactly one connected channel the answer is *)
(* 404, and Shopify tries again for a while.                               *)

Addressed(n) == {p \in Pairs : Shop(p) = n.shop /\ Connected(p)}

DeliverUninstalled(n) ==
    /\ n.topic = "uninstalled"
    /\ \E p \in Addressed(n) :
          /\ Addressed(n) = {p}
          /\ channel' = [channel EXCEPT ![p].status = Ended]
    /\ notices' = notices \ {n}
    /\ UNCHANGED <<install, subscribed, credential, facts, callbacks, leaving, sync,
                   approvals, renewed, crossed, faults>>

DeliverRedact(n) ==
    /\ n.topic = "redact"
    /\ \E p \in Addressed(n) :
          /\ Addressed(n) = {p}
          /\ facts' = facts \ {p}
          /\ credential' = [credential EXCEPT ![p] = 0]
          /\ channel' = [channel EXCEPT ![p].status = Ended]
    /\ notices' = notices \ {n}
    /\ UNCHANGED <<install, subscribed, callbacks, leaving, sync, approvals, renewed, crossed, faults>>

---------------------------------------------------------------------------
Next ==
    \/ \E c \in callbacks : Look(c) \/ Admit(c) \/ Connect(c) \/ FailCallback(c)
    \/ \E l \in leaving : Leave(l) \/ FailToLeave(l)
    \/ \E n \in notices : DeliverUninstalled(n) \/ DeliverRedact(n)
    \/ \E s \in Shops : Uninstall(s)
    \/ \E p \in Pairs :
          \/ Approve(p) \/ StartToLeave(p)
          \/ RetryNotifications(p) \/ DailySync(p) \/ AskForSync(p) \/ Load(p) \/ Deny(p) \/ CommitSync(p) \/ MarkRevoked(p) \/ FailSync(p)

\* The daily run reaches every connected shop that has a credential, and a
\* worker takes what is queued.
Fairness ==
    \A p \in Pairs :
       /\ SF_vars(DailySync(p))
       /\ WF_vars(Load(p) \/ Deny(p) \/ CommitSync(p) \/ MarkRevoked(p))

Spec == Init /\ [][Next]_vars /\ Fairness

---------------------------------------------------------------------------
(* What the program says of a connection.                                  *)

\* The checklist of a new customer (onboarding.py).
OauthStep(p) ==
    CASE channel[p].status = "none" -> "not_started"
      [] channel[p].status = "connected" -> "complete"
      [] OTHER -> "needs_attention"

TokenStep(p) ==
    IF ~Connected(p) THEN "not_started"
    ELSE IF credential[p] = 0 THEN "needs_attention" ELSE "complete"

\* The connection screen (shopify_account), when this is the tenant's shop.
Screen(p) ==
    CASE Connected(p) /\ credential[p] # 0 -> "connected"
      [] channel[p].status = "disconnected" /\ channel[p].revoked -> "revoked"
      [] OTHER -> "not connected"

---------------------------------------------------------------------------
(* Properties.                                                             *)

\* The pilot takes no more shops than it promises, whichever callbacks run at
\* the same time (pilot.py:35-57).
PilotHolds == Cardinality({Shop(p) : p \in Enrolled}) <= MaximumStores

\* A shop is held by one tenant, unless two tenants' callbacks for it ran at
\* the same time: both look before the lock of the pilot is taken
\* (routers/shopify.py:367-379).
OneHolder == ~crossed => \A p, q \in Enrolled : Shop(p) = Shop(q) => p = q

\* What the checklist calls connected has a token: no order of revocations,
\* disconnects, notices and reconnections parts the two rows.  The daily run
\* skips a connected shop without one in silence (tasks.py:1256-1257).
ConnectedHasKey == \A p \in Pairs : OauthStep(p) = "complete" => TokenStep(p) = "complete"

\* A sync takes a connection for revoked only when its token does not work;
\* or when the merchant connected again after it was read.
DenialIsEarned ==
    \A p \in Pairs : sync[p].at = "denied" /\ sync[p].renewed = renewed[p] => ~Works(p)

\* The screen does not go on calling a shop connected whose token has stopped
\* to work, even if no notice of it ever arrives (tasks.py:194-200).
DeadShopIsNoticed ==
    \A p \in Pairs : (Screen(p) = "connected" /\ ~Works(p))
                         ~> (Screen(p) # "connected" \/ Works(p))
=============================================================================
