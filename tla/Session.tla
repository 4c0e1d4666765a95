------------------------------ MODULE Session ------------------------------
(***************************************************************************)
(* How a client session finds its way to Telegram: _handle_client of       *)
(* proxy/tg_ws_proxy.py with do_fallback and the three fallbacks of        *)
(* proxy/bridge.py.  A session tries the WebSocket domains of its data     *)
(* centre, then the Cloudflare workers, the Cloudflare proxy domains and   *)
(* plain TCP, and is bridged to the first upstream that accepts it.        *)
(*                                                                         *)
(* The sessions are tasks of one event loop: a step of a session is what   *)
(* it does from one await that blocks to the next.  They share the         *)
(* blacklist, the cool-downs, the order of the worker domains (one list,   *)
(* which each fallback shuffles in place while others iterate over it) and *)
(* the statistics.                                                         *)
(*                                                                         *)
(* Left out: the bytes (see the bridges), log lines, time (a cool-down     *)
(* only shortens the time-out of the next connection attempts), and        *)
(* reset_counters(), with which the settings window zeroes the statistics. *)
(***************************************************************************)
EXTENDS Integers, Sequences, FiniteSets

CONSTANTS
    Sessions,    \* client connections at a time (bound)
    Keys,        \* dc_key: data centre and media flag (the balancer knows the
                 \* data centre only; give Keys one key for each)
    Configured,  \* the keys whose data centre is in proxy_config.dc_redirects
    Default,     \* the keys whose data centre is in DC_DEFAULT_IPS (the ones
                 \* that the balancer assigns a domain to, too)
    Workers,     \* proxy_config.cfproxy_worker_domains
    UseCf,       \* proxy_config.fallback_cfproxy
    CfDomains,   \* the domains of the balancer
    Nothing      \* no key, no domain

ASSUME SessionAssumption ==
    /\ Configured \subseteq Keys
    /\ Default \subseteq Keys
    /\ UseCf \in BOOLEAN
    /\ CfDomains # {}
    /\ Nothing \notin Keys \cup Workers \cup CfDomains
    /\ IsFiniteSet(Sessions)
    /\ IsFiniteSet(Workers)

VARIABLES
    sess,       \* the sessions
    blacklist,  \* ws_blacklist
    cooldown,   \* the keys of dc_fail_until
    order,      \* proxy_config.cfproxy_worker_domains, as it is ordered now
    current,    \* balancer._dc_to_domain
    active      \* stats.connections_active

vars == <<sess, blacklist, cooldown, order, current, active>>

-----------------------------------------------------------------------------
\* A session waits for the client's handshake ("init"), swallows what follows
\* a bad one ("bad"), waits for a connection attempt of the four kinds, is
\* bridged, closes the client connection ("close") or does not exist ("off").
Dialling == {"ws", "worker", "cf", "tcp"}

\* `at` is the domain being tried (its number for the WebSocket domains), `i`
\* the position in the list of worker domains, `left` the Cloudflare domains
\* not tried yet, `seen` the answers of the WebSocket domains, `tried` all
\* worker and Cloudflare domains tried.  `redir` and `all` are the flags
\* ws_failed_redirect and all_redirects.
NewSession == [pc |-> "init", key |-> Nothing, at |-> Nothing, i |-> 0, left |-> {},
               seen |-> <<>>, tried |-> {}, redir |-> FALSE, all |-> TRUE]
NoSession == [NewSession EXCEPT !.pc = "off"]

\* ws_domains() always names two.
WsDomains == {1, 2}
Answers == {"redirect", "refused"}

Histories == UNION {[1..n -> Answers] : n \in 0..2}

SessionRec ==
    [pc : {"off", "init", "bad", "bridge", "close"} \cup Dialling,
     key : Keys \cup {Nothing},
     at : WsDomains \cup Workers \cup CfDomains \cup {Nothing},
     i : 0..Cardinality(Workers), left : SUBSET CfDomains,
     seen : Histories,
     tried : SUBSET (Workers \cup CfDomains),
     redir : BOOLEAN, all : BOOLEAN]

Orders == {o \in [1..Cardinality(Workers) -> Workers] :
             \A i, j \in DOMAIN o : o[i] = o[j] => i = j}

TypeOK ==
    /\ sess \in [Sessions -> SessionRec]
    /\ blacklist \in SUBSET Keys
    /\ cooldown \in SUBSET Keys
    /\ order \in Orders
    /\ current \in [Keys -> CfDomains \cup {Nothing}]
    /\ active \in Int

Init ==
    /\ sess = [s \in Sessions |-> NoSession]
    /\ blacklist = {}
    /\ cooldown = {}
    /\ order \in Orders
    /\ current \in [Keys -> CfDomains \cup {Nothing}]
    /\ \A k \in Keys : current[k] = Nothing <=> k \notin Default
    /\ active = 0

-----------------------------------------------------------------------------
(* Where a session goes from here: the sets of records it may have at its  *)
(* next await, most of which depend on whether a pool has a connection.    *)

\* What only the search needs is forgotten at its end.
Over(pc) == [NewSession EXCEPT !.pc = pc]
Bridged == Over("bridge")

\* do_fallback, the TCP method, and its end without success
ToTcp(r) ==
    IF r.key \in Default
    THEN {[r EXCEPT !.pc = "tcp", !.at = Nothing]}
    ELSE {Over("close")}

\* _cfproxy_fallback: the current domain of the data centre first, the others
\* in a random order.
TryCf(r, d) == [r EXCEPT !.pc = "cf", !.at = d, !.left = @ \ {d}, !.tried = @ \cup {d}]

\* (NextCf_First, a mutant: gives up after the first domain.)
NextCf_First(r) ==
    IF r.left # CfDomains THEN ToTcp(r) ELSE {TryCf(r, d) : d \in r.left}

NextCf(r) ==
    IF r.left = {} THEN ToTcp(r) ELSE {TryCf(r, d) : d \in r.left}

ToCf(r) ==
    LET fresh == [r EXCEPT !.left = CfDomains]
    IN IF ~UseCf THEN ToTcp(r)
       ELSE IF current[r.key] = Nothing THEN NextCf(fresh)
       ELSE {TryCf(fresh, current[r.key])}

\* _cfproxy_worker_fallback: the next turn of the loop over the shared list o
\* asks the pool for a connection and dials when there is none.
\* (NextWorker_Stuck, a mutant: the first domain is tried again and again.)
NextWorker_Stuck(r, o) ==
    LET there == [r EXCEPT !.i = 1, !.at = o[1], !.tried = @ \cup {o[1]}]
    IN {Bridged, [there EXCEPT !.pc = "worker"]}

NextWorker(r, o) ==
    IF r.i = Len(o)
    THEN ToCf(r)
    ELSE LET w == o[r.i + 1]
             there == [r EXCEPT !.i = @ + 1, !.at = w, !.tried = @ \cup {w}]
         IN {Bridged, [there EXCEPT !.pc = "worker"]}

-----------------------------------------------------------------------------
\* do_fallback: the worker domains are shuffled in place before the first try.
Fallback(s, r) ==
    IF Workers # {} /\ r.key \in Default
    THEN /\ order' \in Orders
         /\ sess' \in {[sess EXCEPT ![s] = q] : q \in NextWorker(r, order')}
    ELSE /\ sess' \in {[sess EXCEPT ![s] = q] : q \in ToCf(r)}
         /\ UNCHANGED order

\* client_cb: a connection is accepted.
Accept(s) ==
    /\ sess[s].pc = "off"
    /\ sess' = [sess EXCEPT ![s] = NewSession]
    /\ active' = active + 1
    /\ UNCHANGED <<blacklist, cooldown, order, current>>

\* The client went away, was turned to the masking site or took too long.
NoInit(s) ==
    /\ sess[s].pc = "init"
    /\ sess' = [sess EXCEPT ![s] = Over("close")]
    /\ UNCHANGED <<blacklist, cooldown, order, current, active>>

\* Whoever does not know the secret is read until he goes away.
BadHandshake(s) ==
    /\ sess[s].pc = "init"
    /\ sess' = [sess EXCEPT ![s].pc = "bad"]
    /\ UNCHANGED <<blacklist, cooldown, order, current, active>>

\* A WebSocket is there, from the pool or dialled.
WsUp(s, r) ==
    /\ sess' = [sess EXCEPT ![s] = Bridged]
    /\ cooldown' = cooldown \ {r.key}

\* A handshake for key k: to the fallback when its data centre is not
\* configured or blacklisted, ...
RouteFallback(s, k) ==
    /\ sess[s].pc = "init"
    /\ k \notin Configured \/ k \in blacklist
    /\ Fallback(s, [sess[s] EXCEPT !.key = k])
    /\ UNCHANGED <<blacklist, cooldown, current, active>>

\* ... to a connection of the pool, ...
RoutePool(s, k) ==
    /\ sess[s].pc = "init"
    /\ k \in Configured \ blacklist
    /\ WsUp(s, [sess[s] EXCEPT !.key = k])
    /\ UNCHANGED <<blacklist, order, current, active>>

\* ... or to the first WebSocket domain.
RouteDial(s, k) ==
    /\ sess[s].pc = "init"
    /\ k \in Configured \ blacklist
    /\ sess' = [sess EXCEPT ![s] = [@ EXCEPT !.key = k, !.pc = "ws", !.at = 1]]
    /\ UNCHANGED <<blacklist, cooldown, order, current, active>>

\* The domain answers; a redirect (302) and any other error are told apart.
\* (Heard_Sticky, a mutant: another error leaves all_redirects as it is.)
Heard_Sticky(r, answer) ==
    [r EXCEPT !.seen = Append(@, answer),
              !.redir = @ \/ answer = "redirect"]

Heard(r, answer) ==
    [r EXCEPT !.seen = Append(@, answer),
              !.redir = @ \/ answer = "redirect",
              !.all = @ /\ answer = "redirect"]

WsOk(s) ==
    /\ sess[s].pc = "ws"
    /\ WsUp(s, sess[s])
    /\ UNCHANGED <<blacklist, order, current, active>>

WsFail(s) ==
    /\ sess[s].pc = "ws"
    /\ \E answer \in Answers :
        LET r == Heard(sess[s], answer)
            k == r.key
        IN IF r.at = 1
           THEN /\ sess' = [sess EXCEPT ![s] = [r EXCEPT !.at = 2]]
                /\ UNCHANGED <<blacklist, cooldown, order>>
           ELSE /\ IF r.redir /\ r.all
                   THEN /\ blacklist' = blacklist \cup {k}
                        /\ UNCHANGED cooldown
                   ELSE /\ cooldown' = cooldown \cup {k}
                        /\ UNCHANGED blacklist
                /\ Fallback(s, r)
    /\ UNCHANGED <<current, active>>

WorkerOk(s) ==
    /\ sess[s].pc = "worker"
    /\ sess' = [sess EXCEPT ![s] = Bridged]
    /\ UNCHANGED <<blacklist, cooldown, order, current, active>>

WorkerFail(s) ==
    /\ sess[s].pc = "worker"
    /\ sess' \in {[sess EXCEPT ![s] = q] : q \in NextWorker(sess[s], order)}
    /\ UNCHANGED <<blacklist, cooldown, order, current, active>>

\* balancer.update_domain_for_dc remembers the domain that worked.
CfOk(s) ==
    /\ sess[s].pc = "cf"
    /\ sess' = [sess EXCEPT ![s] = Bridged]
    /\ current' = [current EXCEPT ![sess[s].key] = sess[s].at]
    /\ UNCHANGED <<blacklist, cooldown, order, active>>

CfFail(s) ==
    /\ sess[s].pc = "cf"
    /\ sess' \in {[sess EXCEPT ![s] = q] : q \in NextCf(sess[s])}
    /\ UNCHANGED <<blacklist, cooldown, order, current, active>>

TcpOk(s) ==
    /\ sess[s].pc = "tcp"
    /\ sess' = [sess EXCEPT ![s] = Bridged]
    /\ UNCHANGED <<blacklist, cooldown, order, current, active>>

TcpFail(s) ==
    /\ sess[s].pc = "tcp"
    /\ sess' = [sess EXCEPT ![s] = Over("close")]
    /\ UNCHANGED <<blacklist, cooldown, order, current, active>>

\* A side of the bridge is over, a bad client has gone away, or the task is
\* cancelled by a shutdown: the exception handlers and the `finally`, in which
\* the counter goes down before the writer is closed.
\* (Leave_Early, a mutant: a return path that misses the `finally`.)
Leave_Early(s) ==
    /\ sess[s].pc \in {"bad", "bridge", "close"}
    /\ sess' = [sess EXCEPT ![s] = NoSession]
    /\ active' = IF sess[s].pc = "bad" THEN active ELSE active - 1
    /\ UNCHANGED <<blacklist, cooldown, order, current>>

Leave(s) ==
    /\ sess[s].pc \in {"bad", "bridge", "close"}
    /\ sess' = [sess EXCEPT ![s] = NoSession]
    /\ active' = active - 1
    /\ UNCHANGED <<blacklist, cooldown, order, current>>

Cancel(s) ==
    /\ sess[s].pc \in {"init"} \cup Dialling
    /\ sess' = [sess EXCEPT ![s] = Over("close")]
    /\ UNCHANGED <<blacklist, cooldown, order, current, active>>

-----------------------------------------------------------------------------
DialStep(s) ==
    \/ WsOk(s) \/ WsFail(s) \/ WorkerOk(s) \/ WorkerFail(s)
    \/ CfOk(s) \/ CfFail(s) \/ TcpOk(s) \/ TcpFail(s)

SessionStep(s) ==
    \/ Accept(s) \/ NoInit(s) \/ BadHandshake(s)
    \/ \E k \in Keys : RouteFallback(s, k) \/ RoutePool(s, k) \/ RouteDial(s, k)
    \/ DialStep(s) \/ Leave(s) \/ Cancel(s)

Next == \E s \in Sessions : SessionStep(s)

Spec == Init /\ [][Next]_vars

\* Every connection attempt ends, with its time-out of at most ten seconds.
FairSpec == Spec /\ \A s \in Sessions : WF_vars(DialStep(s))

-----------------------------------------------------------------------------
\* The counter that the tray shows as active connections is their number (as
\* long as nobody resets the counters meanwhile).
ActiveIsExact ==
    active = Cardinality({s \in Sessions : sess[s].pc # "off"})

\* A data centre is blacklisted, until the proxy is restarted, only by a
\* session that all the domains of it have redirected.
BlacklistJustified ==
    [][\A k \in blacklist' \ blacklist :
         \E s \in Sessions :
            /\ sess[s].key = k
            /\ Append(sess[s].seen, "redirect") = [d \in WsDomains |-> "redirect"]
            /\ sess'[s] # sess[s]]_vars

\* A session that has got past the workers has tried every worker domain.
WorkersAllTried ==
    \A s \in Sessions :
        sess[s].pc \in {"cf", "tcp"} /\ sess[s].key \in Default
            => Workers \subseteq sess[s].tried

\* A session is taken to plain TCP only when its other ways have failed: the
\* domains of the data centre (unless it is not configured or blacklisted), as
\* many tries at workers as there are workers (not always one at each, see
\* WorkersAllTried), and all the domains of the Cloudflare proxy.
TcpIsLastResort ==
    \A s \in Sessions :
        sess[s].pc = "tcp" =>
            /\ sess[s].i = Cardinality(Workers)
            /\ UseCf => CfDomains \subseteq sess[s].tried
            /\ Len(sess[s].seen) = 2 \/ sess[s].key \notin Configured \/ sess[s].key \in blacklist

\* A session that looks for an upstream ends up with one or is closed.
SearchEnds ==
    \A s \in Sessions :
        sess[s].pc \in Dialling ~> sess[s].pc \in {"bridge", "close", "off"}
=============================================================================
