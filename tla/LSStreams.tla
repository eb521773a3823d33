------------------------------ MODULE LSStreams ------------------------------
(***************************************************************************)
(* The two Lightstreamer connections of the program: that of IGFeed, with  *)
(* reconnects the SDK asks for and a heartbeat that rebuilds everything,   *)
(* and that of IGCandleLSFeed for the metals, rebuilt by its drain loop.   *)
(* The SDK reports from threads of its own; both connections log in with   *)
(* the REST session's tokens.                                              *)
(***************************************************************************)
EXTENDS Integers, FiniteSets, FiniteSetsExt

CONSTANTS
    Clients,        \* SDK clients of IGFeed that may exist at a time
    Timeout,        \* _HEARTBEAT_TIMEOUT_SEC, in units of _RETRY_DELAY_SECONDS
    Grace,          \* _HEARTBEAT_INITIAL_GRACE_S
    MaxDelay,       \* _RECONNECT_MAX_DELAY
    AdapterDelays,  \* the delays after an adapter-set error
    Nil,
    MaxFaults,      \* bound: drops, silences, server errors, failed connects
    MaxNotices      \* bound: reports on their way to the event loop

ASSUME LSStreamsAssumption ==
    /\ {Timeout, Grace, MaxDelay} \subseteq Nat \ {0} /\ AdapterDelays \subseteq Nat \ {0}
    /\ Nil \notin Clients /\ MaxFaults \in Nat /\ MaxNotices \in Nat \ {0}

VARIABLES
    tokens,     \* whether IG takes the session's tokens for a login
    client,     \* IGFeed: what each SDK client does, "off", "opening", "barred"
                \* (by its stale password), "up" or "silent"
    cur,        \* _ls_client
    notices,    \* calls of _schedule_reconnect the SDK's threads have sent
    scheduled,  \* _reconnect_scheduled
    rec,        \* reconnect_with_backoff: "none" or "sleep"
    delay,      \* what is left of its sleep
    attempt,    \* _reconnect_attempt
    adapter,    \* _adapter_set_error
    tick,       \* age of _last_tick_ts, Nil when it is 0.0
    started,    \* age of _started_at
    hb,         \* the heartbeat loop: "wait", "auth" or "ended"
    closing,    \* shutdown
    mclient,    \* IGCandleLSFeed: what its client does
    mneeds,     \* _needs_reconnect
    mdeaf,      \* the drop of the present client was reported and forgotten
    mlate,      \* its listener has yet to report the feed's own disconnect
    mloop,      \* where run() is
    faults

feedVars == <<client, cur, notices, scheduled, rec, delay, attempt, adapter, tick, started, hb>>
metals == <<mclient, mneeds, mdeaf, mlate, mloop>>
lsVars   == <<tokens, feedVars, closing, metals, faults>>

Alive(s) == s # "off"

\* A new client: IG bars it if the password it was given is stale.
OpeningWith(t) == IF t = "good" THEN "opening" ELSE "barred"

LSInit ==
    /\ tokens = "good"
    /\ \E c \in Clients : cur = c /\ client = [d \in Clients |-> IF d = c THEN "opening" ELSE "off"]
    /\ notices = 0 /\ scheduled = FALSE /\ rec = "none" /\ delay = 0
    /\ attempt = 0 /\ adapter = FALSE /\ tick = Nil /\ started = 0 /\ hb = "wait"
    /\ closing = FALSE
    /\ mclient = "opening" /\ mneeds = FALSE /\ mdeaf = FALSE /\ mlate = FALSE
    /\ mloop = "subscribing"
    /\ faults = 0

Fault == faults < MaxFaults /\ faults' = faults + 1

\* The drop of a connection invalidates the tokens, or does not.
TokensAfterDrop == tokens' \in {tokens, "stale"}

\* reports, up to the bound: more of them change nothing
Reported(n) == notices' = Min({n, MaxNotices})

-----------------------------------------------------------------------------
\* The SDK of IGFeed's client, on its own threads

Opened ==
    /\ \E c \in Clients : client[c] = "opening" /\ client' = [client EXCEPT ![c] = "up"]
    /\ UNCHANGED <<tokens, cur, notices, scheduled, rec, delay, attempt, adapter, tick,
                   started, hb, closing, metals, faults>>

\* onStatusChange("DISCONNECTED")
Disconnected(c) == client' = [client EXCEPT ![c] = "off"] /\ Reported(notices + 1)

Refused ==
    /\ \E c \in Clients : client[c] = "barred" /\ Disconnected(c)
    /\ UNCHANGED <<tokens, cur, scheduled, rec, delay, attempt, adapter, tick,
                   started, hb, closing, metals, faults>>

Drop ==
    /\ Fault /\ TokensAfterDrop
    /\ \E c \in Clients : client[c] \in {"opening", "up", "silent"} /\ Disconnected(c)
    /\ UNCHANGED <<cur, scheduled, rec, delay, attempt, adapter, tick,
                   started, hb, closing, metals>>

\* the listener threads die: no report, no ticks
Silence ==
    /\ Fault /\ TokensAfterDrop
    /\ \E c \in Clients : client[c] = "up" /\ client' = [client EXCEPT ![c] = "silent"]
    /\ UNCHANGED <<cur, notices, scheduled, rec, delay, attempt, adapter, tick,
                   started, hb, closing, metals>>

\* onServerError, "Adapter Set not available": the SDK tries again by itself
ServerError ==
    /\ Fault /\ \E c \in Clients : client[c] = "opening"
    /\ adapter' = TRUE /\ Reported(notices + 1)
    /\ UNCHANGED <<tokens, client, cur, scheduled, rec, delay, attempt, tick,
                   started, hb, closing, metals>>

\* onItemUpdate
Update ==
    /\ \E c \in Clients : client[c] = "up"
    /\ tick' = 0
    /\ UNCHANGED <<tokens, client, cur, notices, scheduled, rec, delay, attempt, adapter,
                   started, hb, closing, metals, faults>>

Pass ==
    /\ tick' = IF tick = Nil THEN Nil ELSE Min({tick + 1, Timeout + 1})
    /\ started' = Min({started + 1, Grace})
    /\ delay' = Max({delay - 1, 0})
    /\ UNCHANGED <<tokens, client, cur, notices, scheduled, rec, attempt, adapter, hb,
                   closing, metals, faults>>

\* keep-alive pings and refresh_loop renew the session
TokensRenewed ==
    /\ tokens = "stale" /\ tokens' = "good"
    /\ UNCHANGED <<feedVars, closing, metals, faults>>

-----------------------------------------------------------------------------
\* IGLSConnection

\* reconnect_with_backoff: the delay
Backoff == Min({2^attempt, MaxDelay})

\* schedule_reconnect, and reconnect_with_backoff up to its sleep
schedule_reconnect ==
    /\ notices > 0
    /\ notices' = notices - 1
    /\ IF scheduled \/ closing
       THEN UNCHANGED <<scheduled, rec, delay, attempt>>
       ELSE /\ scheduled' = TRUE /\ rec' = "sleep"
            /\ delay' \in IF adapter THEN AdapterDelays ELSE {Backoff}
            /\ attempt' = Min({attempt + 1, MaxDelay})
    /\ UNCHANGED <<tokens, client, cur, adapter, tick, started, hb, closing, metals, faults>>

\* Mutant: the old client is only forgotten.
Forget(report) == [clients |-> client, report |-> 0]

\* disconnect(): the listener of a client that was not off hears of it, unless
\* its threads are dead
TornDown(report) ==
    IF cur = Nil THEN [clients |-> client, report |-> 0]
    ELSE [clients |-> [client EXCEPT ![cur] = "off"],
          report  |-> IF client[cur] = "silent" THEN report
                      ELSE IF Alive(client[cur]) THEN 1 ELSE 0]

\* connect_lightstreamer returns at once, connected or not
Connects(clients, t) ==
    /\ \E c \in Clients :
          /\ ~Alive(clients[c])
          /\ cur' = c /\ client' = [clients EXCEPT ![c] = OpeningWith(t)]
    /\ tick' = Nil /\ started' = 0 /\ attempt' = 0
    /\ UNCHANGED faults

\* or raises, before it has a client or between its subscriptions
ConnectRaises(clients) ==
    /\ Fault
    /\ \/ cur' = Nil /\ client' = clients
       \/ \E c \in Clients :
             ~Alive(clients[c]) /\ cur' = c /\ client' = [clients EXCEPT ![c] = "silent"]
    /\ UNCHANGED <<tick, started, attempt>>

\* Mutant: the shutdown is not looked for.
NotStopping == FALSE

\* the check after the sleep
Stopping == closing

\* reconnect_with_backoff after its sleep
Reconnect ==
    /\ rec = "sleep" /\ delay = 0
    /\ scheduled' = FALSE /\ rec' = "none"
    /\ IF Stopping
       THEN UNCHANGED <<client, cur, notices, attempt, adapter, tick, started, faults>>
       ELSE \E report \in {0, 1} :
               /\ Reported(notices + TornDown(report).report)
               /\ \/ Connects(TornDown(report).clients, tokens) /\ adapter' = FALSE
                  \/ ConnectRaises(TornDown(report).clients) /\ UNCHANGED adapter
    /\ UNCHANGED <<tokens, delay, hb, closing, metals>>

\* Mutant: a connection without a first update is waited for.
StaleAfterUpdate == tick # Nil /\ tick > Timeout

\* heartbeat_loop: no update for Timeout, or none in Grace from the connect
Stale == IF tick = Nil THEN started >= Grace ELSE tick > Timeout

\* force_full_reconnect up to the login
HeartbeatTrips ==
    /\ hb = "wait" /\ ~scheduled /\ Stale
    /\ scheduled' = TRUE /\ hb' = "auth"
    /\ \E report \in {0, 1} :
          client' = TornDown(report).clients /\ Reported(notices + TornDown(report).report)
    /\ cur' = Nil
    /\ UNCHANGED <<tokens, rec, delay, attempt, adapter, tick, started, closing, metals, faults>>

\* Mutant: the flag stays set when the login fails.
FlagKept == UNCHANGED scheduled

\* its finally
FlagCleared == scheduled' = FALSE

ReauthSucceeds ==
    /\ hb = "auth" /\ hb' = "wait" /\ scheduled' = FALSE
    /\ tokens' = "good" /\ Connects(client, "good")
    /\ UNCHANGED <<notices, rec, delay, adapter, closing, metals>>

ReauthFails ==
    /\ hb = "auth" /\ hb' = "wait" /\ FlagCleared
    /\ \/ UNCHANGED <<tokens, client, cur, tick, started, attempt, faults>>
       \/ tokens' = "good" /\ ConnectRaises(client)
    /\ UNCHANGED <<notices, rec, delay, adapter, closing, metals>>

-----------------------------------------------------------------------------
\* IGCandleLSFeed: its client's SDK

MOpened ==
    /\ mclient = "opening" /\ mclient' = "up"
    /\ UNCHANGED <<tokens, feedVars, closing, mneeds, mdeaf, mlate, mloop, faults>>

\* _StatusListener.onStatusChange
MDisconnected == mclient' = "off" /\ mneeds' = TRUE

MDrop ==
    /\ Fault /\ TokensAfterDrop
    /\ mclient \in {"opening", "up"} /\ MDisconnected
    /\ UNCHANGED <<feedVars, closing, mdeaf, mlate, mloop>>

MLate ==
    /\ mlate /\ mlate' = FALSE /\ mneeds' = TRUE
    /\ UNCHANGED <<tokens, feedVars, closing, mclient, mdeaf, mloop, faults>>

\* run() and _rebuild

\* Mutant: the flag is cleared when the rebuild begins.
NeedsTaken == mneeds' = FALSE

\* the flag stays until the last subscription, so a rebuild that fails is
\* tried again
NeedsKept == UNCHANGED mneeds

MRebuild ==
    /\ mloop = "loop" /\ mneeds /\ mloop' = "sleep" /\ NeedsKept
    /\ UNCHANGED <<tokens, feedVars, closing, mclient, mdeaf, mlate, faults>>

MTearDown ==
    /\ mloop = "sleep" /\ mloop' = "auth"
    /\ mclient' = "off" /\ mlate' = (mlate \/ Alive(mclient)) /\ mdeaf' = FALSE
    /\ UNCHANGED <<tokens, feedVars, closing, mneeds, faults>>

MReauthFails ==
    /\ mloop = "auth" /\ mloop' = "loop"
    /\ UNCHANGED <<tokens, feedVars, closing, mclient, mneeds, mdeaf, mlate, faults>>

\* _connect up to the last subscription
MConnects ==
    /\ mloop = "auth" /\ mloop' = "subscribing"
    /\ tokens' = "good" /\ mclient' = "opening"
    /\ UNCHANGED <<feedVars, closing, mneeds, mdeaf, mlate, faults>>

\* it raises, which ends run()
MConnectRaises ==
    /\ mloop = "auth" /\ mloop' = "ended"
    /\ Fault /\ tokens' = "good"
    /\ UNCHANGED <<feedVars, closing, mclient, mneeds, mdeaf, mlate>>

\* _connect's last assignment, whether or not the client still lives
MSubscribed ==
    /\ mloop = "subscribing" /\ mloop' = "loop" /\ mneeds' = FALSE
    /\ mdeaf' = ~Alive(mclient)
    /\ UNCHANGED <<tokens, feedVars, closing, mclient, mlate, faults>>

-----------------------------------------------------------------------------
\* close() of both, their tasks cancelled.  The task of a reconnect is not
\* among them.
Close ==
    /\ ~closing /\ closing' = TRUE
    /\ hb' = "ended" /\ scheduled' = (rec = "sleep")
    /\ \E report \in {0, 1} :
          client' = TornDown(report).clients /\ Reported(notices + TornDown(report).report)
    /\ cur' = Nil
    /\ mloop' = "ended" /\ mclient' = "off" /\ mlate' = (mlate \/ Alive(mclient))
    /\ UNCHANGED <<tokens, rec, delay, attempt, adapter, tick, started, mneeds, mdeaf, faults>>

LSNext ==
    \/ Opened \/ Refused \/ Drop \/ Silence \/ ServerError \/ Update \/ Pass \/ TokensRenewed
    \/ schedule_reconnect \/ Reconnect \/ HeartbeatTrips \/ ReauthSucceeds \/ ReauthFails
    \/ MOpened \/ MDrop \/ MLate
    \/ MRebuild \/ MTearDown \/ MReauthFails \/ MConnects \/ MConnectRaises \/ MSubscribed
    \/ Close

LSSpec == LSInit /\ [][LSNext]_lsVars

\* Time passes and tasks run.  A login that is tried again and again works in
\* the end, and a connection that is opened again and again comes up.
LSFairSpec ==
    /\ LSSpec
    /\ WF_lsVars(Pass) /\ WF_lsVars(Refused) /\ WF_lsVars(schedule_reconnect)
    /\ WF_lsVars(Reconnect) /\ WF_lsVars(HeartbeatTrips) /\ WF_lsVars(TokensRenewed)
    /\ SF_lsVars(Opened) /\ SF_lsVars(ReauthSucceeds)
    /\ WF_lsVars(MLate) /\ WF_lsVars(MRebuild \/ MTearDown \/ MSubscribed)
    /\ SF_lsVars(MOpened) /\ SF_lsVars(MConnects)

-----------------------------------------------------------------------------
\* SDK reconnects and the heartbeat never leave two clients, whose
\* subscriptions would deliver every fill twice; the only one is _ls_client.
OneClient == \A c \in Clients : Alive(client[c]) => c = cur

\* One recovery at a time, and the flag says so whichever way it ends.
OneRecovery ==
    /\ ~(rec = "sleep" /\ hb = "auth")
    /\ scheduled <=> (rec = "sleep" \/ hb = "auth")

\* A reconnect that sleeps through the shutdown, or a login that ends in it,
\* opens nothing.
ClosedStaysClosed == closing => mclient = "off" /\ \A c \in Clients : client[c] = "off"

\* Whatever kills the stream of IGFeed, silence and stale tokens included, it
\* comes back.
FeedRestored == (\A c \in Clients : client[c] # "up") ~> (closing \/ \E c \in Clients : client[c] = "up")

\* The metals' stream comes back too, however often the login of a rebuild
\* fails, unless run() has ended, or the drop came while _connect subscribed:
\* its last assignment takes the report back, and nobody looks again.
MetalsRestored == mclient # "up" ~> (mclient = "up" \/ mloop = "ended" \/ mdeaf)

=============================================================================
