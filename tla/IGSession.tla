------------------------------ MODULE IGSession ------------------------------
(***************************************************************************)
(* The one REST session of IGClient: its tokens, the account it is on, the *)
(* re-authentication every task may start, and the retry loop through      *)
(* which every request goes.  Only the CST is kept of a token pair: a      *)
(* stale security token shows as a 401, which IG may answer at any time.   *)
(***************************************************************************)
EXTENDS Naturals, Sequences, FiniteSets

CONSTANTS
    Traders,         \* the tasks that place orders, once connect() is through
    Pollers,         \* the tasks that only read, and those that refresh
    Main,            \* the caller in connect() and close()
    Refresh,         \* the caller in refresh_session()
    None,
    MaxRetries,      \* _MAX_RETRIES
    SwitchTries,     \* tries of the /accounts probe and of PUT /session
    DefaultAccount,  \* the account type a login starts on
    MaxLogins        \* bound: POST /session answers 200 this often

VARIABLES
    logins,      \* IG: sessions handed out so far; the number is the CST
    onSpread,    \* IG: sessions whose active account is the SPREADBET one
    cst,         \* IGClient._cst, 0 before the first login
    account,     \* type of the account IGClient._account_id names
    lock,        \* the caller in refresh_session's async with _auth_lock
    waiting,     \* the callers waiting for that lock
    cache,       \* the tokens in .ig_session_cache.json
    step,        \* where connect()/close() and refresh_session() are
    tries,       \* attempts of the loops in switch_to_spreadbet
    req,         \* the request each caller is in
    result,      \* what each task's latest order came to
    executed     \* IG: how often it has executed that order

ig     == <<logins, onSpread>>
tokens == <<cst, account>>
auth   == <<lock, waiting>>
orders == <<result, executed>>
vars   == <<ig, tokens, auth, cache, step, tries, req, orders>>

Frames   == {Main, Refresh}
Tasks    == Traders \cup Pollers
Callers  == Tasks \cup Frames
Accounts == {"SPREADBET", "CFD"}
Sessions == 0..MaxLogins
Results  == {"none", "pending", "ok", "denied", "refused", "unknown"}

ASSUME CallersAssumption == /\ Main # Refresh /\ None \notin Callers \cup Accounts
                            /\ Frames \cap Tasks = {} /\ Traders \cap Pollers = {}
ASSUME BoundsAssumption == /\ MaxRetries \in Nat /\ MaxLogins \in Nat
                           /\ SwitchTries \in Nat \ {0}
                           /\ DefaultAccount \in Accounts

Requests ==
    [at : {"idle", "ready", "sent", "executed", "refresh", "direct"},
     attempt : 0..MaxRetries, sent : Sessions, rejected : Sessions]

Idle  == [at |-> "idle", attempt |-> 0, sent |-> 0, rejected |-> 0]
Ready == [Idle EXCEPT !.at = "ready"]

\* "failed": the frame raised, or close() is through.
Steps == {"down", "verify", "login", "body", "probe", "put", "putBody",
          "switched", "failed", "up", "close"}

TypeOK ==
    /\ logins \in Sessions /\ onSpread \subseteq 1..logins
    /\ cst \in 0..logins /\ account \in Accounts \cup {None}
    /\ lock \in Callers \cup {None} /\ waiting \in Seq(Callers)
    /\ cache \in [cst : 1..logins, account : Accounts] \cup {None}
    /\ step \in [Frames -> Steps]
    /\ tries \in [Frames -> 1..SwitchTries]
    /\ req \in [Callers -> Requests]
    /\ result \in [Traders -> Results]
    /\ executed \in [Traders -> 0..2]

Init ==
    /\ logins = 0 /\ onSpread = {} /\ cst = 0 /\ account = None
    /\ lock = None /\ waiting = <<>>
    /\ cache = None
    /\ step = [f \in Frames |-> "down"]
    /\ tries = [f \in Frames |-> 1]
    /\ req = [c \in Callers |-> Idle]
    /\ result = [t \in Traders |-> "none"]
    /\ executed = [t \in Traders |-> 0]

-----------------------------------------------------------------------------
(* How IGHttp.request ends or goes round again.  "base" is what the rest   *)
(* of the same step makes of "step".                                       *)

\* Mutant: nothing tells a request that a refresh is under way.
RefreshingUnknown == FALSE

\* IGClient._refreshing is set on entering the lock and reset on leaving it.
refreshing == lock # None

Settle(c, outcome) ==
    /\ result' = IF c \in Traders THEN [result EXCEPT ![c] = outcome] ELSE result
    /\ UNCHANGED executed

\* Where connect() goes on when its request raises: a failed check of the
\* cached tokens leads to a login, unless the connection dropped.
Upset(at, why) == (IF at = "verify" THEN {"login"} ELSE {"failed"})
                  \cup (IF why = "unknown" THEN {"failed"} ELSE {})

\* The request raises; the probe is repeated while the token is unknown to IG.
Raised(c, why, base) ==
    /\ Settle(c, why)
    /\ \/ /\ c \in Frames
          /\ base[c] = "probe" /\ why = "denied" /\ tries[c] < SwitchTries
          /\ tries' = [tries EXCEPT ![c] = @ + 1]
          /\ req' = [req EXCEPT ![c] = Ready]
          /\ step' = base
       \/ /\ req' = [req EXCEPT ![c] = Idle]
          /\ UNCHANGED tries
          /\ \/ c \in Tasks /\ step' = base
             \/ /\ c \in Frames
                /\ \E to \in Upset(base[c], why) : step' = [base EXCEPT ![c] = to]

\* Another attempt, unless they are used up.
Again(c, why, base) ==
    IF req[c].attempt < MaxRetries
    THEN /\ req' = [req EXCEPT ![c].at = "ready", ![c].attempt = @ + 1,
                               ![c].rejected = IF why = "denied" THEN req[c].sent ELSE @]
         /\ step' = base
         /\ UNCHANGED <<tries, orders>>
    ELSE Raised(c, why, base)

\* async with _auth_lock: taken at once when free and nobody waits for it.
SeekLock(c) ==
    IF lock = None /\ waiting = <<>>
    THEN /\ lock' = c
         /\ step' = [step EXCEPT ![Refresh] = "login"]
         /\ UNCHANGED waiting
    ELSE /\ waiting' = Append(waiting, c)
         /\ UNCHANGED <<lock, step>>

\* The first waiter wakes up with the lock.
Acquire ==
    /\ lock = None /\ waiting # <<>>
    /\ lock' = Head(waiting) /\ waiting' = Tail(waiting)
    /\ step' = [step EXCEPT ![Refresh] = "login"]
    /\ UNCHANGED <<ig, tokens, cache, tries, req, orders>>

-----------------------------------------------------------------------------
(* IGHttp.request, and what IG answers.                                    *)

\* The bucket has a token; the headers carry the session tokens of now.
Send(c) ==
    /\ req[c].at = "ready"
    /\ req' = [req EXCEPT ![c].at = "sent", ![c].sent = cst]
    /\ UNCHANGED <<ig, tokens, auth, cache, step, tries, orders>>

\* IG opens the position, before its answer is under way.
IGExecutes(t) ==
    /\ req[t].at = "sent" /\ executed[t] < 2
    /\ req' = [req EXCEPT ![t].at = "executed"]
    /\ executed' = [executed EXCEPT ![t] = @ + 1]
    /\ UNCHANGED <<ig, tokens, auth, cache, step, tries, result>>

\* Mutant: the session is taken to be on the right account.
SucceededUnswitched(f) ==
    CASE step[f] = "verify" -> "up"
      [] step[f] = "probe" -> "switched"
      [] OTHER -> "failed"

\* The probe reads the account that is current by now.
Succeeded(f) ==
    CASE step[f] = "verify" -> "up"
      [] step[f] = "probe" -> IF account = "SPREADBET" THEN "switched" ELSE "put"
      [] OTHER -> "failed"

AnswerOk(c) ==
    /\ req[c].at = IF c \in Traders THEN "executed" ELSE "sent"
    /\ Settle(c, "ok")
    /\ req' = [req EXCEPT ![c] = Idle]
    /\ \/ c \in Tasks /\ UNCHANGED <<step, tries>>
       \/ /\ c \in Frames
          /\ step' = [step EXCEPT ![c] = Succeeded(c)]
          /\ tries' = [tries EXCEPT ![c] = 1]
    /\ UNCHANGED <<ig, tokens, auth, cache>>

\* Mutant: the comparison the wrong way round.
RenewedReversed(c) == cst = req[c].sent

\* Another task has refreshed since the request was sent.
Renewed(c) == cst # req[c].sent

\* 401: one refresh and retry, or the retry alone when the tokens are new.
AnswerDenied(c) ==
    /\ req[c].at = "sent"
    /\ \/ /\ req[c].rejected # 0 \/ refreshing
          /\ Raised(c, "denied", step)
          /\ UNCHANGED auth
       \/ /\ req[c].rejected = 0 /\ ~refreshing /\ ~Renewed(c)
          /\ req' = [req EXCEPT ![c].at = "refresh"]
          /\ SeekLock(c)
          /\ UNCHANGED <<tries, orders>>
       \/ /\ req[c].rejected = 0 /\ ~refreshing /\ Renewed(c)
          /\ Again(c, "denied", step)
          /\ UNCHANGED auth
    /\ UNCHANGED <<ig, tokens, cache>>

\* 403, 429, allowance exceeded: IG did not take the request, try later.
AnswerLater(c) ==
    /\ req[c].at = "sent"
    /\ Again(c, "refused", step)
    /\ UNCHANGED <<ig, tokens, auth, cache>>

\* Mutant: POST repeats what is not marked otherwise.
IdempotentByDefault(c) == TRUE

\* place_order is not.
idempotent(c) == c \notin Traders

\* 5xx, timeout, dropped connection: an order may have been executed, and is
\* not sent again.  A broken body is not repeated for anybody.
AnswerLost(c) ==
    /\ req[c].at \in {"sent", "executed"}
    /\ \/ Raised(c, "unknown", step)
       \/ idempotent(c) /\ Again(c, "unknown", step)
    /\ UNCHANGED <<ig, tokens, auth, cache>>

\* Any other status.
AnswerRefused(c) ==
    /\ req[c].at = "sent"
    /\ Raised(c, "refused", step)
    /\ UNCHANGED <<ig, tokens, auth, cache>>

\* IGClient.place_order, and the reads.
Call(t) ==
    /\ step[Main] = "up" /\ req[t].at = "idle"
    /\ req' = [req EXCEPT ![t] = Ready]
    /\ IF t \in Traders THEN /\ result' = [result EXCEPT ![t] = "pending"]
                             /\ executed' = [executed EXCEPT ![t] = 0]
                        ELSE UNCHANGED orders
    /\ UNCHANGED <<ig, tokens, auth, cache, step, tries>>

-----------------------------------------------------------------------------
(* create_session, switch_to_spreadbet and save_tokens, run by connect()   *)
(* (frame Main) and by refresh_session() (frame Refresh).                  *)

\* POST /session: the headers of a 200 bring the tokens at once.
Login(f) ==
    /\ step[f] = "login"
    /\ \/ /\ logins < MaxLogins
          /\ logins' = logins + 1 /\ cst' = logins'
          /\ onSpread' = IF DefaultAccount = "SPREADBET" THEN onSpread \cup {logins'}
                                                         ELSE onSpread
          /\ step' = [step EXCEPT ![f] = "body"]
       \/ step' = [step EXCEPT ![f] = "failed"] /\ UNCHANGED <<ig, cst>>
    /\ UNCHANGED <<account, auth, cache, tries, req, orders>>

\* ... and its body, read after an await, the account.
LoginBody(f) ==
    /\ step[f] = "body"
    /\ \/ /\ account' = DefaultAccount
          /\ step' = [step EXCEPT ![f] = "probe"]
          /\ tries' = [tries EXCEPT ![f] = 1]
          /\ req' = [req EXCEPT ![f] = Ready]
       \/ /\ step' = [step EXCEPT ![f] = "failed"]
          /\ UNCHANGED <<account, tries, req>>
    /\ UNCHANGED <<ig, cst, auth, cache, orders>>

\* PUT /session: answered, refused, or lost before or after IG switched.
Put(f) ==
    /\ step[f] = "put"
    /\ \/ /\ onSpread' = onSpread \cup {cst}
          /\ step' = [step EXCEPT ![f] = "putBody"]
          /\ UNCHANGED tries
       \/ /\ tries[f] < SwitchTries
          /\ tries' = [tries EXCEPT ![f] = @ + 1]
          /\ UNCHANGED <<onSpread, step>>
       \/ /\ onSpread' \in {onSpread, onSpread \cup {cst}}
          /\ step' = [step EXCEPT ![f] = "failed"]
          /\ UNCHANGED tries
    /\ UNCHANGED <<logins, tokens, auth, cache, req, orders>>

PutBody(f) ==
    /\ step[f] = "putBody"
    /\ \/ account' = "SPREADBET" /\ step' = [step EXCEPT ![f] = "switched"]
       \/ step' = [step EXCEPT ![f] = "failed"] /\ UNCHANGED account
    /\ UNCHANGED <<ig, cst, auth, cache, tries, req, orders>>

\* The file is replaced whole; an OSError is only logged.
save_tokens == cache' \in {cache, [cst |-> cst, account |-> account]}

Released == [step EXCEPT ![Refresh] = "down"]

\* The holder leaves refresh_session; a request goes round again.
Refreshed ==
    /\ step[Refresh] = "switched"
    /\ save_tokens
    /\ lock' = None
    /\ IF req[lock].at = "direct"
       THEN /\ req' = [req EXCEPT ![lock] = Idle]
            /\ step' = Released
            /\ UNCHANGED <<tries, orders>>
       ELSE Again(lock, "denied", Released)
    /\ UNCHANGED <<ig, tokens, waiting>>

\* ... or raises: the loops log it, a request raises its 401.
RefreshFails ==
    /\ step[Refresh] = "failed"
    /\ lock' = None
    /\ IF req[lock].at = "direct"
       THEN /\ req' = [req EXCEPT ![lock] = Idle]
            /\ step' = Released
            /\ UNCHANGED <<tries, orders>>
       ELSE Raised(lock, "denied", Released)
    /\ UNCHANGED <<ig, tokens, waiting, cache>>

\* refresh_loop, force_full_reconnect and _rebuild refresh without a 401.
RefreshCalled(t) ==
    /\ step[Main] = "up" /\ req[t].at = "idle"
    /\ req' = [req EXCEPT ![t].at = "direct"]
    /\ SeekLock(t)
    /\ UNCHANGED <<ig, tokens, cache, tries, orders>>

-----------------------------------------------------------------------------
(* The process.                                                            *)

\* The file is there, of this environment, and less than 5.5 h old.
load_cached_tokens ==
    /\ cache # None
    /\ cst' = cache.cst /\ account' = cache.account

\* connect() checks the cached tokens, or logs in.
Connect ==
    /\ step[Main] = "down"
    /\ \/ /\ load_cached_tokens
          /\ step' = [step EXCEPT ![Main] = "verify"]
          /\ req' = [req EXCEPT ![Main] = Ready]
       \/ /\ step' = [step EXCEPT ![Main] = "login"]
          /\ UNCHANGED <<tokens, req>>
    /\ UNCHANGED <<ig, auth, cache, tries, orders>>

Connected ==
    /\ step[Main] = "switched"
    /\ save_tokens
    /\ step' = [step EXCEPT ![Main] = "up"]
    /\ UNCHANGED <<ig, tokens, auth, tries, req, orders>>

\* The tasks' requests end unanswered.
Cancelled ==
    /\ lock' = None /\ waiting' = <<>>
    /\ tries' = [f \in Frames |-> 1]
    /\ result' = [t \in Traders |-> IF result[t] = "pending" THEN "unknown" ELSE result[t]]
    /\ UNCHANGED <<ig, cache, executed>>

\* shutdown(): the tasks are cancelled, close() logs out.
Close ==
    /\ step[Main] = "up"
    /\ Cancelled
    /\ step' = [f \in Frames |-> IF f = Main THEN "close" ELSE "down"]
    /\ req' = [c \in Callers |-> IF c = Main THEN Ready ELSE Idle]
    /\ UNCHANGED tokens

\* The process ends: connect() raised, close() returned, or it crashed.
Exit ==
    /\ step[Main] # "down"
    /\ Cancelled
    /\ step' = [f \in Frames |-> "down"]
    /\ req' = [c \in Callers |-> Idle]
    /\ cst' = 0 /\ account' = None

-----------------------------------------------------------------------------
Answer(c) == \/ AnswerOk(c) \/ AnswerDenied(c) \/ AnswerLater(c)
             \/ AnswerLost(c) \/ AnswerRefused(c)

FrameStep(f) == Login(f) \/ LoginBody(f) \/ Put(f) \/ PutBody(f)

Next ==
    \/ \E t \in Tasks : Call(t)
    \/ \E t \in Traders : IGExecutes(t)
    \/ \E t \in Pollers : RefreshCalled(t)
    \/ \E c \in Callers : Send(c) \/ Answer(c)
    \/ \E f \in Frames : FrameStep(f)
    \/ Acquire \/ Refreshed \/ RefreshFails
    \/ Connect \/ Connected \/ Close \/ Exit

Spec == Init /\ [][Next]_vars

\* Every request has a total timeout and every sleep ends.
Progress ==
    /\ \A c \in Callers : WF_vars(Send(c)) /\ WF_vars(Answer(c))
    /\ \A f \in Frames : WF_vars(FrameStep(f))
    /\ WF_vars(Acquire) /\ WF_vars(Refreshed) /\ WF_vars(RefreshFails)

FairSpec == Spec /\ Progress

-----------------------------------------------------------------------------
(* Properties.                                                             *)

Order == INSTANCE DealCall WITH Tasks <- Traders

\* place_order: whatever is retried, re-authenticated, lost or cancelled on
\* the way, IG executes an order at most once, and a caller that is told of
\* no success knows whether IG may have executed it.
PlacedOnce == Order!Spec

\* refresh_session returns only with the client, and IG, on the SPREADBET
\* account.
RefreshedOnSpreadbet ==
    step[Refresh] = "switched" => account = "SPREADBET" /\ cst \in onSpread

\* A request that was denied is not sent again with the tokens IG rejected.
RetriedWithNewToken ==
    \A c \in Callers :
        req[c].at = "sent" /\ req[c].rejected # 0 => req[c].sent # req[c].rejected

\* Every request, and every refresh, comes to an end: no task waits for the
\* auth lock for ever, none retries for ever.
RequestReturns == \A c \in Callers : req[c].at # "idle" ~> req[c].at = "idle"

=============================================================================
