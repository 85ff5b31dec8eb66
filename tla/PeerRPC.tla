------------------------------- MODULE PeerRPC -------------------------------
(***************************************************************************)
(* The peer RPC server (src/cmd/peer-rpc-server.go) and the JWT tokens     *)
(* that authenticate its callers (src/cmd/jwt.go), on an admin node Admin  *)
(* and a set of peers.  The admin node changes bucket policies and         *)
(* notification rules and rotates the server credential; it stores each    *)
(* change in the backend and broadcasts it to every peer as an RPC that    *)
(* carries a token it signed with its own secret (newAuthToken).  A peer  *)
(* checks the token (isAuthTokenValid), then that its object layer is up,  *)
(* then applies the change.  LoadCredentials takes the config transaction  *)
(* read lock (the NsLock interface) before reloading config.json.         *)
(*                                                                         *)
(* Web logins (authenticateWeb, authenticateURL) issue tokens with the     *)
(* same secret and subject.  An attacker holds no server secret; it sends  *)
(* RPCs signed with its own key and, when Exposed is TRUE, replays the      *)
(* URL tokens that jwt.go says "might be exposed".  Each RPC a peer       *)
(* receives is served by a goroutine of its own, so RPCs in flight to a    *)
(* peer are served in any order; they may be lost and are never retried   *)
(* (spec.md 7).                                                            *)
(***************************************************************************)
EXTENDS Integers, Sequences, FiniteSets
LOCAL INSTANCE SequencesExt

CONSTANTS
  Admin,        \* the node whose admin API changes the configuration
  Peers,        \* the other nodes
  Buckets,      \* bucket names
  Policies,     \* bucket policies an admin may set
  RuleSets,     \* notification rules maps an admin may put
  Users,        \* IAM users
  NoPolicy,     \* no policy set for a bucket
  AccessKeys,   \* access keys
  SecretKeys,   \* secret keys
  InitCred,     \* the credential every node starts with
  RotateTo,     \* credentials an admin may change to
  AttackerKey,  \* the HMAC key the attacker signs with
  Evil,         \* the policy the attacker tries to set
  Exposed,      \* TRUE: URL tokens reach the attacker
  Txn,          \* minioMetaBucket/config/config.json.transaction
  MaxOps,       \* bound on admin operations
  MaxAttacks,   \* bound on attacker RPCs
  MaxQueue,     \* bound on RPCs in flight per peer
  MaxCrashes,   \* bound on process restarts
  MaxLogins,    \* bound on web logins
  MaxClock      \* bound on the clock (in expiry units)

Nodes == {Admin} \cup Peers

\* jwt.go lines 33-44: web tokens expire after 24h, URL tokens after one
\* minute, inter-node tokens after 100 years (beyond any clock value).
Expiry == [web |-> 2, url |-> 1, node |-> MaxClock + 1]

\* auth.Credentials: an access key and a secret key.
Creds == [ak : AccessKeys, sk : SecretKeys]

\* A signed JWT: the HMAC key, the standard claims Subject and ExpiresAt,
\* and (ghost) the function that issued it.
Tokens == [key : SecretKeys \cup {AttackerKey}, sub : AccessKeys,
           exp : 0..2 * MaxClock + 1, aud : {"web", "url", "node", "forged"}]
NoToken == [key |-> AttackerKey, sub |-> CHOOSE a \in AccessKeys : TRUE,
            exp |-> 0, aud |-> "none"]

Ops == {"SetBucketPolicy", "RemoveBucketPolicy", "PutBucketNotification",
        "DeleteBucket", "ListenBucketNotification", "LoadUsers",
        "LoadCredentials", "SignalService"}
Msgs == [op : Ops, b : Buckets, pol : Policies \cup {Evil, NoPolicy},
         rules : RuleSets \cup {{}}, tok : Tokens, forged : BOOLEAN]

VARIABLES
  store,     \* the backend: config credential, bucket policies and rules, users
  cred,      \* cred[n]: globalServerConfig's credential on node n
  up,        \* up[p]: newObjectLayerFn() # nil on peer p
  pol,       \* pol[p][b]: globalPolicySys on peer p
  rules,     \* rules[p][b]: globalNotificationSys on peer p
  users,     \* users[p]: globalIAMSys on peer p
  chan,      \* chan[p]: RPCs sent to p and not yet served, in send order
  apc,       \* the admin's credential rotation: "idle", "waiting", "holding"
  newCred,   \* the credential being rotated to
  lc,        \* lc[p]: LoadCredentials on p: "idle", "rlock", "unlock", "load"
  lkpc, lkres, lkread, \* the transaction lock (NsLock)
  clock,     \* UTCNow(), in expiry units
  issued,    \* tokens returned to web clients
  ops, attacks, crashes, \* bounded counters
  forgedApplied, \* ghost: an attacker RPC changed a peer's state
  lost       \* ghost: lost[p], an RPC to p was lost on the network

lkvars == <<lkpc, lkres, lkread>>
vars == <<store, cred, up, pol, rules, users, chan, apc, newCred, lc, lkvars,
          clock, issued, ops, attacks, crashes, forgedApplied, lost>>

Lk == INSTANCE NsLock WITH Ops <- Nodes, Res <- {Txn},
                           lpc <- lkpc, lres <- lkres, lread <- lkread

(***************************************************************************)
(* jwt.go                                                                  *)
(***************************************************************************)
\* keyFuncCallback + jwtgo.ParseWithClaims: the HMAC verifies with node n's
\* current secret key.
SignatureValid(n, t) == t.key = cred[n].sk

\* claims.Valid(): ExpiresAt not in the past.
ClaimsValid(t) == clock <= t.exp

\* isAuthTokenValid: a present token, a valid signature, valid claims, and
\* the subject is the node's current access key.
IsAuthTokenValid(n, t) ==
  /\ t # NoToken
  /\ SignatureValid(n, t)
  /\ ClaimsValid(t)
  /\ t.sub = cred[n].ak

\* Mutant: the subject check is missing from the web path.
WebRequestAuthenticateNoSubject(n, t) ==
  CASE t = NoToken               -> "errNoAuthToken"
    [] ~SignatureValid(n, t)     -> "errAuthentication"
    [] ~ClaimsValid(t)           -> "errAuthentication"
    [] OTHER                     -> "nil"

\* webRequestAuthenticate: the error it returns for token t at node n.
WebRequestAuthenticate(n, t) ==
  CASE t = NoToken               -> "errNoAuthToken"
    [] ~SignatureValid(n, t)     -> "errAuthentication"
    [] ~ClaimsValid(t)           -> "errAuthentication"
    [] t.sub # cred[n].ak        -> "errInvalidAccessKeyID"
    [] OTHER                     -> "nil"

\* authenticateJWT for a token of kind k once the given credential equals
\* the server's c: HS512 over c's secret, with c's access key as Subject.
SignedToken(c, k) ==
  [key |-> c.sk, sub |-> c.ak, exp |-> clock + Expiry[k], aud |-> k]

\* newAuthToken: authenticateNode with the server credential c.
NewAuthToken(c) == SignedToken(c, "node")

\* The RPC framework's AuthArgs.Authenticate (spec.md 6).
RPCAuthenticate(p, m) == IsAuthTokenValid(p, m.tok)

(***************************************************************************)
(* Actions                                                                 *)
(***************************************************************************)
Init ==
  /\ store = [cred |-> InitCred, pol |-> [b \in Buckets |-> NoPolicy],
              rules |-> [b \in Buckets |-> {}], users |-> {}]
  /\ cred = [n \in Nodes |-> InitCred]
  /\ up = [p \in Peers |-> FALSE]
  /\ pol = [p \in Peers |-> store.pol]
  /\ rules = [p \in Peers |-> store.rules]
  /\ users = [p \in Peers |-> {}]
  /\ chan = [p \in Peers |-> <<>>]
  /\ apc = "idle" /\ newCred = InitCred
  /\ lc = [p \in Peers |-> "idle"]
  /\ lkpc = [n \in Nodes |-> "idle"]
  /\ lkres = [n \in Nodes |-> Txn] /\ lkread = [n \in Nodes |-> FALSE]
  /\ clock = 0 /\ issued = {} /\ ops = 0 /\ attacks = 0 /\ crashes = 0
  /\ forgedApplied = FALSE /\ lost = [p \in Peers |-> FALSE]

\* Every connection has room for one more RPC (the MaxQueue bound).
Room == \A p \in Peers : Len(chan[p]) < MaxQueue

\* The NotificationSys fan-out: the same RPC to every peer.
Broadcast(m) == [p \in Peers |-> Append(chan[p], m)]

\* A bucket admin API call: the backend is updated (a listen request stores
\* nothing), then every peer is told.
AdminBucketOp(op, b, x, r) ==
  /\ ops < MaxOps /\ apc = "idle" /\ Room
  /\ LET st == CASE op = "SetBucketPolicy"       -> [store.pol EXCEPT ![b] = x]
                 [] op = "RemoveBucketPolicy"    -> [store.pol EXCEPT ![b] = NoPolicy]
                 [] op = "DeleteBucket"          -> [store.pol EXCEPT ![b] = NoPolicy]
                 [] OTHER                        -> store.pol
         rt == CASE op = "PutBucketNotification" -> [store.rules EXCEPT ![b] = r]
                 [] op = "DeleteBucket"          -> [store.rules EXCEPT ![b] = {}]
                 [] OTHER                        -> store.rules
     IN store' = [store EXCEPT !.pol = st, !.rules = rt]
  /\ chan' = Broadcast([op |-> op, b |-> b, pol |-> x, rules |-> r,
                        tok |-> NewAuthToken(cred[Admin]), forged |-> FALSE])
  /\ ops' = ops + 1
  /\ UNCHANGED <<cred, up, pol, rules, users, apc, newCred, lc, lkvars, clock,
                 issued, attacks, crashes, forgedApplied, lost>>
\* An IAM change: the user is added to or removed from the backend, then
\* every peer is told to LoadUsers.
AdminSetUser(u) ==
  /\ ops < MaxOps /\ apc = "idle" /\ Room
  /\ store' = [store EXCEPT !.users = (@ \ {u}) \cup ({u} \ @)]
  /\ chan' = Broadcast([op |-> "LoadUsers", b |-> CHOOSE b \in Buckets : TRUE,
                        pol |-> NoPolicy, rules |-> {},
                        tok |-> NewAuthToken(cred[Admin]), forged |-> FALSE])
  /\ ops' = ops + 1
  /\ UNCHANGED <<cred, up, pol, rules, users, apc, newCred, lc, lkvars, clock,
                 issued, attacks, crashes, forgedApplied, lost>>

\* sendServiceCmd: a restart signal to every peer.
AdminSignal ==
  /\ ops < MaxOps /\ apc = "idle" /\ Room
  /\ chan' = Broadcast([op |-> "SignalService", b |-> CHOOSE b \in Buckets : TRUE,
                        pol |-> NoPolicy, rules |-> {},
                        tok |-> NewAuthToken(cred[Admin]), forged |-> FALSE])
  /\ ops' = ops + 1
  /\ UNCHANGED <<store, cred, up, pol, rules, users, apc, newCred, lc, lkvars, clock,
                 issued, attacks, crashes, forgedApplied, lost>>

\* A credential change (spec_modelled admin handler): take the config
\* transaction write lock, which may time out.
AdminRotate(c) ==
  /\ ops < MaxOps /\ apc = "idle" /\ c # cred[Admin]
  /\ Lk!Request(Admin, Txn, FALSE)
  /\ apc' = "waiting" /\ newCred' = c /\ ops' = ops + 1
  /\ UNCHANGED <<store, cred, up, pol, rules, users, chan, lc, clock, issued,
                 attacks, crashes, forgedApplied, lost>>

AdminLocked ==
  /\ apc = "waiting" /\ Lk!Grant(Admin) /\ apc' = "holding"
  /\ UNCHANGED <<store, cred, up, pol, rules, users, chan, newCred, lc, clock,
                 issued, ops, attacks, crashes, forgedApplied, lost>>

AdminLockTimeout ==
  /\ apc = "waiting" /\ Lk!GiveUp(Admin) /\ apc' = "idle"
  /\ UNCHANGED <<store, cred, up, pol, rules, users, chan, newCred, lc, clock,
                 issued, ops, attacks, crashes, forgedApplied, lost>>

\* Under the lock: SetCredential in memory, save config.json, unlock, then
\* LoadCredentials to every peer with a token from newAuthToken.
AdminSaveCred ==
  /\ apc = "holding" /\ Room /\ Lk!Release(Admin) /\ apc' = "idle"
  /\ cred' = [cred EXCEPT ![Admin] = newCred]
  /\ store' = [store EXCEPT !.cred = newCred]
  /\ chan' = Broadcast([op |-> "LoadCredentials", b |-> CHOOSE b \in Buckets : TRUE,
                        pol |-> NoPolicy, rules |-> {},
                        tok |-> NewAuthToken(newCred), forged |-> FALSE])
  /\ UNCHANGED <<up, pol, rules, users, newCred, lc, clock, issued, ops, attacks,
                 crashes, forgedApplied, lost>>

\* authenticateWeb / authenticateURL at node n with the right credential
\* (a wrong access key or secret returns an error and changes nothing).
Login(n, k) ==
  /\ Cardinality(issued) < MaxLogins
  /\ SignedToken(cred[n], k) \notin issued
  /\ issued' = issued \cup {SignedToken(cred[n], k)}
  /\ UNCHANGED <<store, cred, up, pol, rules, users, chan, apc, newCred, lc, lkvars,
                 clock, ops, attacks, crashes, forgedApplied, lost>>

Tick ==
  /\ clock < MaxClock /\ clock' = clock + 1
  /\ UNCHANGED <<store, cred, up, pol, rules, users, chan, apc, newCred, lc, lkvars,
                 issued, ops, attacks, crashes, forgedApplied, lost>>

\* Tokens the attacker holds: its own signatures for any (public) access
\* key, and the URL tokens it saw when they are exposed.
AttackerTokens ==
  {[key |-> AttackerKey, sub |-> a, exp |-> MaxClock + 1, aud |-> "forged"] :
     a \in AccessKeys}
  \cup (IF Exposed THEN {t \in issued : t.aud = "url"} ELSE {})

Attack(p, op, b, t) ==
  /\ attacks < MaxAttacks /\ Len(chan[p]) < MaxQueue
  /\ chan' = [chan EXCEPT ![p] = Append(@, [op |-> op, b |-> b, pol |-> Evil,
                rules |-> {}, tok |-> t, forged |-> TRUE])]
  /\ attacks' = attacks + 1
  /\ UNCHANGED <<store, cred, up, pol, rules, users, apc, newCred, lc, lkvars, clock,
                 issued, ops, crashes, forgedApplied, lost>>

\* Served(p, i): chan without the i-th RPC to p.
Served(p, i) == [chan EXCEPT ![p] = RemoveAt(@, i)]

\* A network error loses an RPC in flight; the core does not retry.
Lose(p, i) ==
  /\ i \in 1..Len(chan[p]) /\ chan' = Served(p, i)
  /\ lost' = [lost EXCEPT ![p] = TRUE]
  /\ UNCHANGED <<store, cred, up, pol, rules, users, apc, newCred, lc, lkvars, clock,
                 issued, ops, attacks, crashes, forgedApplied>>
(***************************************************************************)
(* peer-rpc-server.go                                                      *)
(***************************************************************************)
\* RemoveNotification and globalPolicySys.Remove.
DeleteBucket(p, m) ==
  /\ rules' = [rules EXCEPT ![p][m.b] = {}]
  /\ pol' = [pol EXCEPT ![p][m.b] = NoPolicy] /\ UNCHANGED users

SetBucketPolicy(p, m) ==
  /\ pol' = [pol EXCEPT ![p][m.b] = m.pol] /\ UNCHANGED <<rules, users>>

RemoveBucketPolicy(p, m) ==
  /\ pol' = [pol EXCEPT ![p][m.b] = NoPolicy] /\ UNCHANGED <<rules, users>>

\* AddRulesMap adds the rules to those the bucket already has.
PutBucketNotification(p, m) ==
  /\ rules' = [rules EXCEPT ![p][m.b] = @ \cup m.rules]
  /\ UNCHANGED <<pol, users>>

\* AddRemoteTarget registers a target for the caller and adds its rules.
ListenBucketNotification(p, m) ==
  /\ rules' = [rules EXCEPT ![p][m.b] = @ \cup m.rules]
  /\ UNCHANGED <<pol, users>>

\* ListenBucketNotification also fails after both checks: no peer RPC
\* client for the caller's address, or AddRemoteTarget returns an error.
HandlerMayFail(m) == m.op = "ListenBucketNotification"

\* globalIAMSys.Load reads the users from the backend.
LoadUsers(p, m) ==
  /\ users' = [users EXCEPT ![p] = store.users] /\ UNCHANGED <<pol, rules>>

\* Peer p serves the i-th RPC in flight: the framework rejects a bad token,
\* the handler returns errServerNotInitialized while the object layer is
\* nil, and otherwise applies the change.
PeerHandle(p, i) ==
  LET m == chan[p][i] IN
  /\ i \in 1..Len(chan[p]) /\ m.op \notin {"LoadCredentials", "SignalService"}
  /\ chan' = Served(p, i)
  /\ \/ /\ ~(RPCAuthenticate(p, m) /\ up[p]) \/ HandlerMayFail(m)
        /\ UNCHANGED <<pol, rules, users, forgedApplied, lost>>
     \/ /\ RPCAuthenticate(p, m) /\ up[p]
        /\ forgedApplied' = (forgedApplied \/ m.forged)
        /\ \/ m.op = "DeleteBucket" /\ DeleteBucket(p, m)
           \/ m.op = "SetBucketPolicy" /\ SetBucketPolicy(p, m)
           \/ m.op = "RemoveBucketPolicy" /\ RemoveBucketPolicy(p, m)
           \/ m.op = "PutBucketNotification" /\ PutBucketNotification(p, m)
           \/ m.op = "ListenBucketNotification" /\ ListenBucketNotification(p, m)
           \/ m.op = "LoadUsers" /\ LoadUsers(p, m)
  /\ UNCHANGED <<store, cred, up, apc, newCred, lc, lkvars, clock, issued,
                 ops, attacks, crashes, lost>>

\* LoadCredentials, lines 223-238: after the two checks, GetRLock on the
\* transaction file.
LcStart(p, i) ==
  LET m == chan[p][i] IN
  /\ i \in 1..Len(chan[p]) /\ m.op = "LoadCredentials" /\ lc[p] = "idle"
  /\ chan' = Served(p, i)
  /\ \/ /\ ~(RPCAuthenticate(p, m) /\ up[p])
        /\ UNCHANGED <<lc, lkvars>>
     \/ /\ RPCAuthenticate(p, m) /\ up[p]
        /\ Lk!Request(p, Txn, TRUE) /\ lc' = [lc EXCEPT ![p] = "rlock"]
  /\ UNCHANGED <<store, cred, up, pol, rules, users, apc, newCred, clock, issued,
                 ops, attacks, crashes, forgedApplied, lost>>

LcLocked(p) ==
  /\ lc[p] = "rlock" /\ Lk!Grant(p) /\ lc' = [lc EXCEPT ![p] = "unlock"]
  /\ UNCHANGED <<store, cred, up, pol, rules, users, chan, apc, newCred, clock,
                 issued, ops, attacks, crashes, forgedApplied, lost>>

\* GetRLock(globalOperationTimeout) timed out: the error is returned.
LcTimeout(p) ==
  /\ lc[p] = "rlock" /\ Lk!GiveUp(p) /\ lc' = [lc EXCEPT ![p] = "idle"]
  /\ UNCHANGED <<store, cred, up, pol, rules, users, chan, apc, newCred, clock,
                 issued, ops, attacks, crashes, forgedApplied, lost>>

\* objLock.RUnlock() right after the lock was granted.
LcUnlock(p) ==
  /\ lc[p] = "unlock" /\ Lk!Release(p) /\ lc' = [lc EXCEPT ![p] = "load"]
  /\ UNCHANGED <<store, cred, up, pol, rules, users, chan, apc, newCred, clock,
                 issued, ops, attacks, crashes, forgedApplied, lost>>

\* globalConfigSys.Load: config.json as it is now, outside the lock.
LcLoad(p) ==
  /\ lc[p] = "load" /\ lc' = [lc EXCEPT ![p] = "idle"]
  /\ cred' = [cred EXCEPT ![p] = store.cred]
  /\ UNCHANGED <<store, up, pol, rules, users, chan, apc, newCred, lkvars, clock,
                 issued, ops, attacks, crashes, forgedApplied, lost>>

\* The process of peer p stops between two lock operations: its object
\* layer, its LoadCredentials call and the RPCs in flight are lost.
Restart(p) ==
  /\ up[p] /\ lc[p] \in {"idle", "load"}
  /\ up' = [up EXCEPT ![p] = FALSE] /\ lc' = [lc EXCEPT ![p] = "idle"]
  /\ chan' = [chan EXCEPT ![p] = <<>>]

Crash(p) ==
  /\ Restart(p) /\ crashes < MaxCrashes /\ crashes' = crashes + 1
  /\ UNCHANGED <<store, cred, pol, rules, users, apc, newCred, lkvars, clock,
                 issued, ops, attacks, forgedApplied, lost>>

\* adminCmd.SignalService with a restart signal: IsAuthenticated, then the
\* signal goes to globalServiceSignalCh, and the service loop restarts the
\* process.  There is no object layer check.
SignalService(p, i) ==
  LET m == chan[p][i] IN
  /\ i \in 1..Len(chan[p]) /\ m.op = "SignalService"
  /\ \/ /\ ~RPCAuthenticate(p, m) /\ chan' = Served(p, i)
        /\ UNCHANGED <<up, lc, forgedApplied>>
     \/ /\ RPCAuthenticate(p, m) /\ Restart(p)
        /\ forgedApplied' = (forgedApplied \/ m.forged)
  /\ UNCHANGED <<store, cred, pol, rules, users, apc, newCred, lkvars, clock,
                 issued, ops, attacks, crashes, lost>>

\* Server start: config.json, bucket policies, notification rules and IAM
\* users are read from the backend, then the object layer is published.
Startup(p) ==
  /\ ~up[p]
  /\ up' = [up EXCEPT ![p] = TRUE]
  /\ cred' = [cred EXCEPT ![p] = store.cred]
  /\ pol' = [pol EXCEPT ![p] = store.pol]
  /\ rules' = [rules EXCEPT ![p] = store.rules]
  /\ users' = [users EXCEPT ![p] = store.users]
  /\ UNCHANGED <<store, chan, apc, newCred, lc, lkvars, clock, issued, ops,
                 attacks, crashes, forgedApplied, lost>>

Next ==
  \/ \E b \in Buckets :
       \/ \E x \in Policies : AdminBucketOp("SetBucketPolicy", b, x, {})
       \/ AdminBucketOp("RemoveBucketPolicy", b, NoPolicy, {})
       \/ AdminBucketOp("DeleteBucket", b, NoPolicy, {})
       \/ \E r \in RuleSets : AdminBucketOp("PutBucketNotification", b, NoPolicy, r)
       \/ \E r \in RuleSets : AdminBucketOp("ListenBucketNotification", b, NoPolicy, r)
  \/ \E u \in Users : AdminSetUser(u)
  \/ AdminSignal
  \/ \E c \in RotateTo : AdminRotate(c)
  \/ AdminLocked \/ AdminLockTimeout \/ AdminSaveCred
  \/ \E n \in Nodes, k \in {"web", "url"} : Login(n, k)
  \/ Tick
  \/ \E p \in Peers :
       \/ \E op \in {"SetBucketPolicy", "SignalService"}, b \in Buckets,
             t \in AttackerTokens : Attack(p, op, b, t)
       \/ \E i \in 1..MaxQueue : Lose(p, i) \/ PeerHandle(p, i) \/ LcStart(p, i)
       \/ LcLocked(p) \/ LcTimeout(p) \/ LcUnlock(p) \/ LcLoad(p)
       \/ Crash(p) \/ Startup(p) \/ \E i \in 1..MaxQueue : SignalService(p, i)

\* Each RPC a peer receives is served by its own server goroutine, which
\* runs to completion; the admin's credential handler, once it asked for
\* the transaction lock, goes on until it returns.  Admin requests, logins,
\* time, attacks, crashes, lost RPCs and server starts are not fair.
Fairness ==
  /\ \A p \in Peers :
       /\ \A i \in 1..MaxQueue :
            /\ WF_vars(PeerHandle(p, i)) /\ WF_vars(SignalService(p, i))
            /\ WF_vars(LcStart(p, i))
       /\ WF_vars(LcLocked(p) \/ LcTimeout(p))
       /\ WF_vars(LcUnlock(p)) /\ WF_vars(LcLoad(p))
  /\ WF_vars(AdminLocked \/ AdminLockTimeout) /\ WF_vars(AdminSaveCred)

Spec == Init /\ [][Next]_vars /\ Fairness

(***************************************************************************)
(* Properties                                                              *)
(***************************************************************************)
TypeOK ==
  /\ store \in [cred : Creds, pol : [Buckets -> Policies \cup {NoPolicy}],
                rules : [Buckets -> RuleSets \cup {{}}], users : SUBSET Users]
  /\ cred \in [Nodes -> Creds] /\ up \in [Peers -> BOOLEAN]
  /\ pol \in [Peers -> [Buckets -> Policies \cup {Evil, NoPolicy}]]
  /\ rules \in [Peers -> [Buckets -> SUBSET UNION RuleSets]]
  /\ users \in [Peers -> SUBSET Users]
  /\ chan \in [Peers -> Seq(Msgs)]
  /\ apc \in {"idle", "waiting", "holding"} /\ newCred \in Creds
  /\ lc \in [Peers -> {"idle", "rlock", "unlock", "load"}]
  /\ Lk!LTypeOK
  /\ clock \in 0..MaxClock /\ issued \subseteq Tokens
  /\ ops \in 0..MaxOps /\ attacks \in 0..MaxAttacks
  /\ crashes \in 0..MaxCrashes
  /\ forgedApplied \in BOOLEAN /\ lost \in [Peers -> BOOLEAN]

\* Tokens a browser may present: those web logins returned, or none.
WebTokens == issued \cup {NoToken}

\* webRequestAuthenticate and isAuthTokenValid are two translations of one
\* check: for every token a login returned, at every node, across later
\* credential rotations and expiry, the web path accepts exactly the tokens
\* the RPC path accepts.
WebAuthAgrees ==
  \A n \in Nodes, t \in WebTokens :
    (WebRequestAuthenticate(n, t) = "nil") = IsAuthTokenValid(n, t)

\* No RPC from a caller without the server credential changes a peer's
\* bucket policies or notification rules: the token check of the peer RPC
\* framework (isAuthTokenValid) rejects every token it could present.
NoForgedRPCApplied == ~forgedApplied

\* Every running peer that holds the admin's credential and lost no RPC
\* ends up with the bucket policies and IAM users of the backend.  TLC
\* finds this violated: SetBucketPolicy carries the policy, so two RPCs
\* served out of order leave the older one applied, and a LoadUsers signed
\* with a rotated credential is rejected when it is served before the
\* LoadCredentials that installs it.  No run checks it (see README).
PeerInSync(p) == pol[p] = store.pol /\ users[p] = store.users

PeersConverge ==
  <>[](\A p \in Peers : up[p] /\ ~lost[p] /\ cred[p] = cred[Admin] => PeerInSync(p))
====
