-------------------------- MODULE IGSession_proofs --------------------------
(***************************************************************************)
(* For any number of tasks, retries and logins: the types, the account a   *)
(* refresh ends on, the tokens a retry carries, and that place_order       *)
(* implements DealCall.                                                    *)
(***************************************************************************)
EXTENDS IGSession, TLAPS

\* refresh_session has logged in and has not left.
Active == {"body", "probe", "put", "putBody", "switched"}

\* Where the two frames can be together; no request is left where none is awaited.
Control ==
    /\ step[Refresh] \in Active \cup {"down", "login", "failed"}
    /\ lock = None <=> step[Refresh] = "down"
    /\ step[Refresh] # "down" => step[Main] \in {"verify", "probe", "up", "close"}
    /\ step[Main] # "up" => /\ waiting = <<>> /\ lock \in {None, Main}
                            /\ \A t \in Tasks : req[t] = Idle
    /\ step[Main] \notin {"verify", "probe", "close"} => req[Main] = Idle
    /\ step[Refresh] # "probe" => req[Refresh] = Idle
    /\ step[Main] \notin {"down", "login", "failed"} => cst # 0
    /\ step[Main] \notin {"down", "login", "body", "failed"} => account # None
    /\ step[Main] = "down" => cst = 0

\* A caller in or before refresh_session.
InRefresh == {"refresh", "direct"}

\* The lock's holder and the waiters are distinct callers of refresh_session.
Waiters ==
    /\ lock # None => req[lock].at \in InRefresh
    /\ \A i \in 1..Len(waiting) :
         /\ req[waiting[i]].at \in InRefresh
         /\ waiting[i] # lock
         /\ \A j \in 1..Len(waiting) : i # j => waiting[i] # waiting[j]
    /\ req[Refresh].at \notin InRefresh
    /\ \A t \in Traders : req[t].at # "direct"

\* A denied request is older than the tokens it goes out with next, and those of
\* the refresh that is under way are newer than its caller's.
TokenOrder ==
    /\ \A c \in Callers :
         /\ req[c].sent <= cst
         /\ req[c].rejected # 0 =>
              CASE req[c].at = "ready" -> req[c].rejected < cst
                [] req[c].at \in {"sent", "executed"} -> req[c].rejected < req[c].sent
                [] OTHER -> TRUE
    /\ step[Refresh] \in Active => req[lock].sent < cst

\* What the refresh knows of the account as it goes on.
OnSpread ==
    /\ DefaultAccount = "SPREADBET" => 1..logins \subseteq onSpread
    /\ step[Refresh] \in {"probe", "put", "putBody"} => account = DefaultAccount
    /\ step[Refresh] \in {"putBody", "switched"} => cst \in onSpread
    /\ step[Refresh] = "switched" => account = "SPREADBET"

\* An order is pending while its request is under way, and executed at the end.
Orders ==
    \A t \in Traders :
        /\ result[t] = "pending" <=> req[t].at # "idle"
        /\ req[t].at \in {"ready", "sent", "refresh"} => executed[t] = 0
        /\ req[t].at = "executed" => executed[t] = 1

IInv == TypeOK /\ Control /\ Waiters /\ TokenOrder /\ OnSpread /\ Orders

-----------------------------------------------------------------------------
(* Types. *)

TypeParts ==
    /\ req' \in [Callers -> Requests] /\ step' \in [Frames -> Steps]
    /\ tries' \in [Frames -> 1..SwitchTries]
    /\ result' \in [Traders -> Results] /\ executed' \in [Traders -> 0..2]

LEMMA RequestTypes ==
    /\ Idle \in Requests /\ Ready \in Requests
    /\ \A r \in Requests :
         /\ \A at \in {"ready", "sent", "executed", "refresh", "direct"} :
              [r EXCEPT !.at = at] \in Requests
         /\ \A s \in Sessions : [r EXCEPT !.at = "sent", !.sent = s] \in Requests
         /\ r.attempt < MaxRetries =>
              \A s \in Sessions :
                [r EXCEPT !.at = "ready", !.attempt = @ + 1, !.rejected = s] \in Requests
<1> USE BoundsAssumption DEF Requests, Sessions
<1>1. Idle \in Requests /\ Ready \in Requests
  BY DEF Idle, Ready
<1>2. ASSUME NEW r \in Requests,
             NEW at \in {"ready", "sent", "executed", "refresh", "direct"}
      PROVE  [r EXCEPT !.at = at] \in Requests
  OBVIOUS
<1>3. ASSUME NEW r \in Requests, NEW s \in Sessions
      PROVE  [r EXCEPT !.at = "sent", !.sent = s] \in Requests
  OBVIOUS
<1>4. ASSUME NEW r \in Requests, NEW s \in Sessions, r.attempt < MaxRetries
      PROVE  [r EXCEPT !.at = "ready", !.attempt = @ + 1, !.rejected = s] \in Requests
  <2>1. r.attempt + 1 \in 0..MaxRetries
    BY <1>4
  <2> QED
    BY <2>1
<1> QED
  BY <1>1, <1>2, <1>3, <1>4

LEMMA RaisedTypes ==
    ASSUME TypeOK, NEW c \in Callers, NEW why \in Results, NEW base \in [Frames -> Steps],
           Raised(c, why, base)
    PROVE  TypeParts
<1>1. req' \in [Callers -> Requests]
  BY RequestTypes DEF Raised, TypeOK
<1>2. step' \in [Frames -> Steps]
  BY DEF Raised, Upset, TypeOK, Steps
<1>3. tries' \in [Frames -> 1..SwitchTries]
  <2>1. tries[c] < SwitchTries /\ c \in Frames => tries[c] + 1 \in 1..SwitchTries
    BY BoundsAssumption DEF TypeOK
  <2> QED
    BY <2>1 DEF Raised, TypeOK
<1>4. result' \in [Traders -> Results] /\ executed' \in [Traders -> 0..2]
  BY DEF Raised, Settle, TypeOK
<1> QED
  BY <1>1, <1>2, <1>3, <1>4 DEF TypeParts

LEMMA AgainTypes ==
    ASSUME TypeOK, NEW c \in Callers, NEW why \in Results, NEW base \in [Frames -> Steps],
           Again(c, why, base)
    PROVE  TypeParts
<1>1. CASE req[c].attempt < MaxRetries
  <2> DEFINE s == IF why = "denied" THEN req[c].sent ELSE req[c].rejected
  <2>1. req[c] \in Requests /\ s \in Sessions
    BY DEF TypeOK, Requests
  <2>2. [req[c] EXCEPT !.at = "ready", !.attempt = @ + 1, !.rejected = s] \in Requests
    BY <1>1, <2>1, RequestTypes
  <2>3. req' \in [Callers -> Requests]
    BY <1>1, <2>2 DEF Again, TypeOK
  <2> QED
    BY <1>1, <2>3 DEF Again, TypeOK, TypeParts, orders
<1>2. CASE ~(req[c].attempt < MaxRetries)
  BY <1>2, RaisedTypes DEF Again
<1> QED
  BY <1>1, <1>2

LEMMA SeekLockTypes ==
    ASSUME TypeOK, NEW c \in Callers, SeekLock(c)
    PROVE  /\ lock' \in Callers \cup {None} /\ waiting' \in Seq(Callers)
           /\ step' \in [Frames -> Steps]
<1>1. Append(waiting, c) \in Seq(Callers)
  BY DEF TypeOK
<1>2. [step EXCEPT ![Refresh] = "login"] \in [Frames -> Steps]
  BY DEF TypeOK, Steps
<1> QED
  BY <1>1, <1>2 DEF SeekLock, TypeOK

LEMMA TypeNext == ASSUME IInv, Next PROVE TypeOK'
<1> USE DEF IInv
<1>0. Traders \subseteq Callers /\ Pollers \subseteq Callers /\ Main \in Callers
      /\ Frames \subseteq Callers /\ Tasks \subseteq Callers /\ Frames = {Main, Refresh}
  BY DEF Callers, Tasks, Frames
<1>00. /\ 1 \in 1..SwitchTries
       /\ \A n \in 1..SwitchTries : n < SwitchTries => n + 1 \in 1..SwitchTries
  BY BoundsAssumption
<1>1. ASSUME NEW t \in Tasks, Call(t) PROVE TypeOK'
  <2>1. req' \in [Callers -> Requests]
    BY <1>0, <1>1, RequestTypes DEF Call, TypeOK
  <2>2. result' \in [Traders -> Results] /\ executed' \in [Traders -> 0..2]
    <3>1. 0 \in 0..2 /\ "pending" \in Results
      BY DEF Results
    <3>2. CASE t \in Traders
      BY <1>1, <3>1, <3>2 DEF Call, TypeOK
    <3>3. CASE t \notin Traders
      BY <1>1, <3>3 DEF Call, TypeOK, orders
    <3> QED
      BY <3>2, <3>3
  <2> QED
    BY <1>1, <2>1, <2>2 DEF Call, TypeOK, ig, tokens, auth
<1>2. ASSUME NEW t \in Traders, IGExecutes(t) PROVE TypeOK'
  <2>1. req' \in [Callers -> Requests]
    BY <1>0, <1>2, RequestTypes DEF IGExecutes, TypeOK
  <2>2. executed' \in [Traders -> 0..2]
    <3>0. executed[t] \in 0..2 /\ executed[t] < 2
      BY <1>2 DEF IGExecutes, TypeOK
    <3>1. executed[t] + 1 \in 0..2
      BY <3>0
    <3> QED
      BY <1>2, <3>1 DEF IGExecutes, TypeOK
  <2> QED
    BY <1>2, <2>1, <2>2 DEF IGExecutes, TypeOK, ig, tokens, auth
<1>3. ASSUME NEW t \in Pollers, RefreshCalled(t) PROVE TypeOK'
  <2>1. req' \in [Callers -> Requests]
    BY <1>0, <1>3, RequestTypes DEF RefreshCalled, TypeOK
  <2>2. /\ lock' \in Callers \cup {None} /\ waiting' \in Seq(Callers)
        /\ step' \in [Frames -> Steps]
    BY <1>0, <1>3, SeekLockTypes DEF RefreshCalled
  <2> QED
    BY <1>3, <2>1, <2>2 DEF RefreshCalled, TypeOK, ig, tokens, orders
<1>4. ASSUME NEW c \in Callers, Send(c) PROVE TypeOK'
  <2>1. cst \in Sessions
    BY BoundsAssumption DEF TypeOK, Sessions
  <2>2. req' \in [Callers -> Requests]
    BY <1>4, <2>1, RequestTypes DEF Send, TypeOK
  <2> QED
    BY <1>4, <2>2 DEF Send, TypeOK, ig, tokens, auth, orders
<1>5. ASSUME NEW c \in Callers, Answer(c) PROVE TypeOK'
  <2>0. step \in [Frames -> Steps] /\ {"ok", "denied", "refused", "unknown"} \subseteq Results
    BY DEF TypeOK, Results
  <2>1. CASE AnswerOk(c)
    <3>1. req' \in [Callers -> Requests]
      BY <2>1, RequestTypes DEF AnswerOk, TypeOK
    <3>2. result' \in [Traders -> Results] /\ executed' \in [Traders -> 0..2]
      BY <2>0, <2>1 DEF AnswerOk, Settle, TypeOK
    <3>3. step' \in [Frames -> Steps]
      BY <2>1 DEF AnswerOk, Succeeded, TypeOK, Steps
    <3>4. tries' \in [Frames -> 1..SwitchTries]
      BY <1>00, <2>1 DEF AnswerOk, TypeOK
    <3> QED
      BY <2>1, <3>1, <3>2, <3>3, <3>4 DEF AnswerOk, TypeOK, ig, tokens, auth
  <2>2. CASE AnswerDenied(c)
    <3>1. CASE Raised(c, "denied", step) /\ UNCHANGED auth
      BY <2>0, <2>2, <3>1, RaisedTypes
         DEF AnswerDenied, TypeOK, TypeParts, ig, tokens, auth
    <3>2. CASE /\ req' = [req EXCEPT ![c].at = "refresh"]
               /\ SeekLock(c) /\ UNCHANGED <<tries, orders>>
      <4>1. req' \in [Callers -> Requests]
        BY <3>2, RequestTypes DEF TypeOK
      <4> QED
        BY <2>2, <3>2, <4>1, SeekLockTypes DEF AnswerDenied, TypeOK, ig, tokens, orders
    <3>3. CASE Again(c, "denied", step) /\ UNCHANGED auth
      BY <2>0, <2>2, <3>3, AgainTypes
         DEF AnswerDenied, TypeOK, TypeParts, ig, tokens, auth
    <3> QED
      BY <2>2, <3>1, <3>2, <3>3 DEF AnswerDenied
  <2>3. CASE AnswerLater(c)
    BY <2>0, <2>3, AgainTypes DEF AnswerLater, TypeOK, TypeParts, ig, tokens, auth
  <2>4. CASE AnswerLost(c)
    <3>1. TypeParts
      BY <2>0, <2>4, AgainTypes, RaisedTypes DEF AnswerLost
    <3> QED
      BY <2>4, <3>1 DEF AnswerLost, TypeOK, TypeParts, ig, tokens, auth
  <2>5. CASE AnswerRefused(c)
    BY <2>0, <2>5, RaisedTypes DEF AnswerRefused, TypeOK, TypeParts, ig, tokens, auth
  <2> QED
    BY <1>5, <2>1, <2>2, <2>3, <2>4, <2>5 DEF Answer
<1>6. ASSUME NEW f \in Frames, Login(f) PROVE TypeOK'
  <2>1. step' \in [Frames -> Steps]
    BY <1>6 DEF Login, TypeOK, Steps
  <2>2. /\ logins' \in Sessions /\ onSpread' \subseteq 1..logins' /\ cst' \in 0..logins'
        /\ cache \in [cst : 1..logins', account : Accounts] \cup {None}
    <3>1. logins \in Nat /\ MaxLogins \in Nat /\ 0..logins \subseteq 0..(logins + 1)
          /\ 1..logins \subseteq 1..(logins + 1) /\ logins + 1 \in 1..(logins + 1)
      BY BoundsAssumption DEF TypeOK, Sessions
    <3>2. CASE /\ logins < MaxLogins /\ logins' = logins + 1 /\ cst' = logins'
               /\ onSpread' = IF DefaultAccount = "SPREADBET" THEN onSpread \cup {logins'}
                                                              ELSE onSpread
      <4>1. cache \in [cst : 1..logins', account : Accounts] \cup {None}
        BY <3>1, <3>2 DEF TypeOK
      <4>2. logins' \in Sessions /\ onSpread' \subseteq 1..logins' /\ cst' \in 0..logins'
        BY <3>1, <3>2 DEF TypeOK, Sessions
      <4> QED
        BY <4>1, <4>2
    <3>3. CASE UNCHANGED <<ig, cst>>
      BY <3>3 DEF TypeOK, ig
    <3> QED
      BY <1>6, <3>2, <3>3 DEF Login
  <2> QED
    BY <1>6, <2>1, <2>2 DEF Login, TypeOK, auth, orders
<1>7. ASSUME NEW f \in Frames, LoginBody(f) PROVE TypeOK'
  <2>1. step' \in [Frames -> Steps]
    BY <1>7 DEF LoginBody, TypeOK, Steps
  <2>2. req' \in [Callers -> Requests] /\ tries' \in [Frames -> 1..SwitchTries]
    BY <1>0, <1>00, <1>7, RequestTypes DEF LoginBody, TypeOK
  <2> QED
    BY <1>7, <2>1, <2>2, BoundsAssumption DEF LoginBody, TypeOK, ig, auth, orders
<1>8. ASSUME NEW f \in Frames, Put(f) PROVE TypeOK'
  <2>1. step' \in [Frames -> Steps]
    BY <1>8 DEF Put, TypeOK, Steps
  <2>2. tries' \in [Frames -> 1..SwitchTries]
    <3>1. UNCHANGED tries \/ /\ tries[f] < SwitchTries
                             /\ tries' = [tries EXCEPT ![f] = @ + 1]
      BY <1>8 DEF Put
    <3>2. tries[f] < SwitchTries => tries[f] + 1 \in 1..SwitchTries
      BY <1>00 DEF TypeOK
    <3> QED
      BY <3>1, <3>2 DEF TypeOK
  <2>3. cst # 0
    BY <1>8 DEF Put, Control, Frames, Active
  <2>4. onSpread' \subseteq 1..logins
    <3>1. cst \in 1..logins
      BY <2>3, BoundsAssumption DEF TypeOK, Sessions
    <3> QED
      BY <1>8, <3>1 DEF Put, TypeOK
  <2> QED
    BY <1>8, <2>1, <2>2, <2>4 DEF Put, TypeOK, tokens, auth, orders
<1>9. ASSUME NEW f \in Frames, PutBody(f) PROVE TypeOK'
  <2>1. step' \in [Frames -> Steps]
    BY <1>9 DEF PutBody, TypeOK, Steps
  <2> QED
    BY <1>9, <2>1 DEF PutBody, TypeOK, Accounts, ig, auth, orders
<1>10. ASSUME save_tokens, cst # 0, account # None
       PROVE  cache' \in [cst : 1..logins, account : Accounts] \cup {None}
  BY <1>10, BoundsAssumption DEF save_tokens, TypeOK, Sessions
<1>11. CASE Acquire
  <2>1. /\ lock' \in Callers \cup {None} /\ waiting' \in Seq(Callers)
    BY <1>11 DEF Acquire, TypeOK
  <2>2. step' \in [Frames -> Steps]
    BY <1>11 DEF Acquire, TypeOK, Steps
  <2> QED
    BY <1>11, <2>1, <2>2 DEF Acquire, TypeOK, ig, tokens, orders
<1>12. Released \in [Frames -> Steps] /\ {"denied"} \subseteq Results
  BY DEF Released, TypeOK, Steps, Results
<1>13. CASE Refreshed
  <2>1. cst # 0 /\ account # None /\ lock \in Callers
    BY <1>13 DEF Refreshed, Control, Active, TypeOK
  <2>2. TypeParts
    <3>1. CASE req[lock].at = "direct"
      BY <1>12, <1>13, <2>1, <3>1, RequestTypes DEF Refreshed, TypeParts, TypeOK, orders
    <3>2. CASE req[lock].at # "direct"
      BY <1>12, <1>13, <2>1, <3>2, AgainTypes DEF Refreshed
    <3> QED
      BY <3>1, <3>2
  <2> QED
    BY <1>10, <1>13, <2>1, <2>2 DEF Refreshed, TypeOK, TypeParts, ig, tokens
<1>14. CASE RefreshFails
  <2>1. lock \in Callers
    BY <1>14 DEF RefreshFails, Control, Active, TypeOK
  <2>2. TypeParts
    <3>1. CASE req[lock].at = "direct"
      BY <1>12, <1>14, <2>1, <3>1, RequestTypes
         DEF RefreshFails, TypeParts, TypeOK, orders
    <3>2. CASE req[lock].at # "direct"
      BY <1>12, <1>14, <2>1, <3>2, RaisedTypes DEF RefreshFails
    <3> QED
      BY <3>1, <3>2
  <2> QED
    BY <1>14, <2>2 DEF RefreshFails, TypeOK, TypeParts, ig, tokens
<1>15. CASE Connect
  <2>1. step' \in [Frames -> Steps]
    BY <1>15 DEF Connect, TypeOK, Steps
  <2>2. req' \in [Callers -> Requests]
    BY <1>0, <1>15, RequestTypes DEF Connect, TypeOK
  <2>3. cst' \in 0..logins /\ account' \in Accounts \cup {None}
    BY <1>15, BoundsAssumption DEF Connect, load_cached_tokens, TypeOK, Sessions, tokens
  <2> QED
    BY <1>15, <2>1, <2>2, <2>3 DEF Connect, TypeOK, ig, auth, orders
<1>16. CASE Connected
  <2>1. cst # 0 /\ account # None
    BY <1>16 DEF Connected, Control
  <2>2. step' \in [Frames -> Steps]
    BY <1>16 DEF Connected, TypeOK, Steps
  <2> QED
    BY <1>10, <1>16, <2>1, <2>2 DEF Connected, TypeOK, ig, tokens, auth, orders
<1>17. ASSUME Cancelled
       PROVE  /\ lock' = None /\ waiting' \in Seq(Callers)
              /\ tries' \in [Frames -> 1..SwitchTries]
              /\ result' \in [Traders -> Results] /\ executed' \in [Traders -> 0..2]
  BY <1>17, BoundsAssumption DEF Cancelled, TypeOK, Results
<1>18. CASE Close
  <2>1. step' \in [Frames -> Steps] /\ req' \in [Callers -> Requests]
    BY <1>18, RequestTypes DEF Close, Steps
  <2> QED
    BY <1>17, <1>18, <2>1 DEF Close, Cancelled, TypeOK, ig, tokens
<1>19. CASE Exit
  <2>1. step' \in [Frames -> Steps] /\ req' \in [Callers -> Requests]
    BY <1>19, RequestTypes DEF Exit, Steps
  <2> QED
    BY <1>17, <1>19, <2>1, BoundsAssumption
       DEF Exit, Cancelled, TypeOK, Sessions, ig, tokens
<1> QED
  BY <1>1, <1>2, <1>3, <1>4, <1>5, <1>6, <1>7, <1>8, <1>9, <1>11, <1>13, <1>14,
     <1>15, <1>16, <1>18, <1>19 DEF Next, FrameStep

-----------------------------------------------------------------------------
(* How a request goes on, and what that does to the waiters and the tokens. *)

LEMMA Effects ==
    ASSUME TypeOK, NEW c \in Callers, NEW why, NEW base \in [Frames -> Steps],
           Again(c, why, base) \/ Raised(c, why, base)
    PROVE  /\ \A d \in Callers \ {c} : req'[d] = req[d]
           /\ req'[c].at \in {"idle", "ready"}
           /\ req'[c].at = "idle" => req'[c] = Idle
           /\ req'[c].sent \in {0, req[c].sent}
           /\ \/ req'[c].rejected = 0
              \/ ~Raised(c, why, base) /\ why # "denied" /\ req'[c].rejected = req[c].rejected
              \/ ~Raised(c, why, base) /\ why = "denied" /\ req'[c].rejected = req[c].sent
           /\ \A f \in Frames : step'[f] \in Active => base[f] \in Active
           /\ executed' = executed
<1>1. CASE Raised(c, why, base)
  <2>1. \E r \in {Idle, Ready} : req' = [req EXCEPT ![c] = r]
    BY <1>1 DEF Raised
  <2>2. Ready.at = "ready" /\ Ready.sent = 0 /\ Ready.rejected = 0
        /\ Idle.at = "idle" /\ Idle.sent = 0 /\ Idle.rejected = 0
    BY DEF Ready, Idle
  <2>3. \A f \in Frames : step'[f] \in Active => base[f] \in Active
    BY <1>1 DEF Raised, Upset, Active
  <2> QED
    BY <1>1, <2>1, <2>2, <2>3 DEF Raised, Settle, TypeOK
<1>2. CASE ~Raised(c, why, base)
  <2>1. /\ req' = [req EXCEPT ![c].at = "ready", ![c].attempt = @ + 1,
                              ![c].rejected = IF why = "denied" THEN req[c].sent ELSE @]
        /\ step' = base /\ executed' = executed
    BY <1>2 DEF Again, orders
  <2> QED
    BY <1>2, <2>1 DEF TypeOK, Requests
<1> QED
  BY <1>1, <1>2

LEMMA LoginCst ==
    ASSUME TypeOK, NEW f \in Frames, Login(f)
    PROVE  cst' # 0 \/ (cst' = cst /\ step'[f] = "failed")
<1>1. logins \in Nat /\ logins + 1 # 0
  BY BoundsAssumption DEF TypeOK, Sessions
<1>2. step' = [step EXCEPT ![f] = "failed"] => step'[f] = "failed"
  BY DEF TypeOK
<1>3. \/ logins' = logins + 1 /\ cst' = logins'
      \/ step' = [step EXCEPT ![f] = "failed"] /\ cst' = cst
  BY DEF Login
<1> QED
  BY <1>1, <1>2, <1>3

LEMMA AccountKnown ==
    ASSUME TypeOK, NEW f \in Frames, LoginBody(f) \/ PutBody(f)
    PROVE  account' # None \/ (account' = account /\ step'[f] = "failed")
<1>1. DefaultAccount # None /\ None # "SPREADBET"
  BY CallersAssumption, BoundsAssumption DEF Accounts
<1>2. step' = [step EXCEPT ![f] = "failed"] => step'[f] = "failed"
  BY DEF TypeOK
<1>3. \/ account' \in {DefaultAccount, "SPREADBET"}
      \/ step' = [step EXCEPT ![f] = "failed"] /\ account' = account
  BY DEF LoginBody, PutBody
<1> QED
  BY <1>1, <1>2, <1>3

LEMMA DeniedCases ==
    ASSUME NEW c, AnswerDenied(c)
    PROVE  /\ req[c].at = "sent" /\ cst' = cst
           /\ \/ Raised(c, "denied", step) /\ lock' = lock /\ waiting' = waiting
              \/ /\ Again(c, "denied", step) /\ Renewed(c)
                 /\ lock' = lock /\ waiting' = waiting
              \/ lock = None /\ req' = [req EXCEPT ![c].at = "refresh"] /\ SeekLock(c)
BY DEF AnswerDenied, refreshing, auth, tokens

LEMMA Settled ==
    ASSUME IInv, NEW c \in Callers,
           \A d \in Callers \ {c} : req'[d] = req[d],
           req'[c].at \in {"idle", "ready", "sent"},
           waiting' = waiting,
           \/ lock' = lock /\ req[c].at \notin InRefresh
           \/ lock' = None /\ lock = c
    PROVE  Waiters'
<1> USE CallersAssumption DEF IInv, TypeOK, Waiters, InRefresh, Callers, Frames, Tasks
<1>1. \A i \in 1..Len(waiting) : waiting[i] \in Callers /\ waiting[i] # c
  OBVIOUS
<1>2. lock' # None => lock' \in Callers /\ lock' # c
  OBVIOUS
<1> QED
  BY <1>1, <1>2

LEMMA Enqueued ==
    ASSUME IInv, NEW c \in Callers, c # Refresh, c # lock,
           \A i \in 1..Len(waiting) : waiting[i] # c,
           \A d \in Callers \ {c} : req'[d] = req[d],
           req'[c].at \in InRefresh, c \in Traders => req'[c].at # "direct",
           waiting' = Append(waiting, c), lock' = lock
    PROVE  Waiters'
<1> USE CallersAssumption DEF IInv, TypeOK, Waiters, InRefresh, Callers, Frames, Tasks
<1>1. /\ Len(waiting') = Len(waiting) + 1 /\ Len(waiting) \in Nat
      /\ \A i \in 1..Len(waiting) : waiting'[i] = waiting[i] /\ waiting[i] \in Callers
      /\ waiting'[Len(waiting) + 1] = c
  OBVIOUS
<1>2. \A i \in 1..Len(waiting') : \/ i \in 1..Len(waiting) /\ waiting'[i] = waiting[i]
                                  \/ i = Len(waiting) + 1 /\ waiting'[i] = c
  BY <1>1
<1>3. ASSUME NEW i \in 1..Len(waiting')
      PROVE  req'[waiting'[i]].at \in InRefresh /\ waiting'[i] # lock'
  <2>1. CASE i \in 1..Len(waiting) /\ waiting'[i] = waiting[i]
    <3>1. waiting[i] \in Callers \ {c} /\ req[waiting[i]].at \in InRefresh
          /\ waiting[i] # lock
      BY <2>1
    <3> QED
      BY <2>1, <3>1
  <2>2. CASE waiting'[i] = c
    BY <2>2
  <2> QED
    BY <1>2, <2>1, <2>2
<1>4. \A i, j \in 1..Len(waiting') : i # j => waiting'[i] # waiting'[j]
  BY <1>1, <1>2
<1>5. /\ lock' # None => req'[lock'].at \in InRefresh
      /\ req'[Refresh].at \notin InRefresh
      /\ \A t \in Traders : req'[t].at # "direct"
  OBVIOUS
<1> QED
  BY <1>3, <1>4, <1>5

Ordered(r) ==
    /\ r.sent <= cst
    /\ r.rejected # 0 => CASE r.at = "ready" -> r.rejected < cst
                           [] r.at \in {"sent", "executed"} -> r.rejected < r.sent
                           [] OTHER -> TRUE

LEMMA OneRequest ==
    ASSUME IInv, NEW c \in Callers, cst' = cst,
           \A d \in Callers \ {c} : req'[d] = req[d],
           Ordered(req'[c]),
           step'[Refresh] \in Active =>
               step[Refresh] \in Active /\ lock' = lock /\ req'[lock].sent = req[lock].sent
    PROVE  TokenOrder'
BY DEF IInv, TokenOrder, Ordered

LEMMA Answered ==
    ASSUME IInv, NEW c \in Callers, NEW why, NEW base \in [Frames -> Steps],
           base[Refresh] \in Active => step[Refresh] \in Active,
           Again(c, why, base) \/ Raised(c, why, base),
           why = "denied" => Raised(c, why, base) \/ req[c].sent < cst,
           \/ req[c].at \in {"sent", "executed"} /\ lock' = lock
           \/ base[Refresh] \notin Active,
           req[c].at \in {"sent", "executed"} \/ why = "denied",
           cst' = cst
    PROVE  TokenOrder'
<1> USE DEF IInv
<1>1. /\ req[c].sent \in Nat /\ req[c].rejected \in Nat /\ cst \in Nat
      /\ req[c].sent <= cst
  BY BoundsAssumption DEF TypeOK, TokenOrder, Requests, Sessions
<1>2. Ordered(req'[c])
  <2>1. CASE req'[c].rejected = 0
    BY <1>1, <2>1, Effects DEF Ordered
  <2>2. CASE why # "denied" /\ req'[c].rejected = req[c].rejected
    BY <1>1, <2>2, Effects DEF TokenOrder, Ordered
  <2>3. CASE why = "denied" /\ ~Raised(c, why, base) /\ req'[c].rejected = req[c].sent
    BY <1>1, <2>3, Effects DEF Ordered
  <2> QED
    BY <2>1, <2>2, <2>3, Effects
<1>3. step'[Refresh] \in Active =>
         step[Refresh] \in Active /\ lock' = lock /\ req'[lock].sent = req[lock].sent
  <2>1. SUFFICES ASSUME step'[Refresh] \in Active
                 PROVE  step[Refresh] \in Active /\ lock' = lock
                        /\ req'[lock].sent = req[lock].sent
    OBVIOUS
  <2>2. base[Refresh] \in Active /\ step[Refresh] \in Active
    BY <2>1, Effects DEF Frames
  <2>3. lock' = lock /\ req[c].at \in {"sent", "executed"}
    BY <2>2
  <2>4. lock \in Callers /\ req[lock].at \in InRefresh
    BY <2>2 DEF Control, Waiters, Active, TypeOK
  <2>5. req'[lock] = req[lock]
    BY <2>3, <2>4, Effects DEF InRefresh
  <2> QED
    BY <2>2, <2>3, <2>5
<1> QED
  BY <1>2, <1>3, Effects, OneRequest

-----------------------------------------------------------------------------
(* The parts of the invariant, one action after the other.                 *)

LEMMA ControlNext == ASSUME IInv, Next PROVE Control'
<1> USE DEF IInv, TypeOK, Control, Waiters, Active, InRefresh, Requests, Idle, Ready,
            Callers, Frames, Tasks, ig, tokens, auth, orders
<1>1. ASSUME NEW t \in Tasks, Call(t) PROVE Control'
  BY <1>1, CallersAssumption, SMTT(30) DEF Call
<1>2. ASSUME NEW t \in Traders, IGExecutes(t) PROVE Control'
  BY <1>2, CallersAssumption, SMTT(30) DEF IGExecutes
<1>3. ASSUME NEW t \in Pollers, RefreshCalled(t) PROVE Control'
  BY <1>3, CallersAssumption, SMTT(30) DEF RefreshCalled, SeekLock
<1>4. ASSUME NEW c \in Callers, Send(c) PROVE Control'
  BY <1>4, CallersAssumption, SMTT(30) DEF Send
<1>5. ASSUME NEW c \in Callers, AnswerOk(c) PROVE Control'
  BY <1>5, CallersAssumption, SMTT(30) DEF AnswerOk, Settle, Succeeded
<1>6. ASSUME NEW c \in Callers, AnswerDenied(c) PROVE Control'
  BY <1>6, CallersAssumption, SMTT(30)
     DEF AnswerDenied, Raised, Again, SeekLock, Settle, Upset, refreshing, Renewed
<1>7. ASSUME NEW c \in Callers, AnswerLater(c) PROVE Control'
  BY <1>7, CallersAssumption, SMTT(30) DEF AnswerLater, Again, Raised, Settle, Upset
<1>8. ASSUME NEW c \in Callers, AnswerLost(c) PROVE Control'
  BY <1>8, CallersAssumption, SMTT(30)
     DEF AnswerLost, Again, Raised, Settle, Upset, idempotent
<1>9. ASSUME NEW c \in Callers, AnswerRefused(c) PROVE Control'
  BY <1>9, CallersAssumption, SMTT(30) DEF AnswerRefused, Raised, Settle, Upset
<1>10. ASSUME NEW f \in Frames, Login(f) PROVE Control'
  <2>1. CASE f = Main
    BY <2>1, <1>10, LoginCst, CallersAssumption DEF Login
  <2>2. CASE f = Refresh
    BY <2>2, <1>10, LoginCst, CallersAssumption DEF Login
  <2> QED
    BY <2>1, <2>2
<1>11. ASSUME NEW f \in Frames, LoginBody(f) PROVE Control'
  <2>1. CASE f = Main
    BY <2>1, <1>11, AccountKnown, CallersAssumption DEF LoginBody
  <2>2. CASE f = Refresh
    BY <2>2, <1>11, AccountKnown, CallersAssumption DEF LoginBody
  <2> QED
    BY <2>1, <2>2
<1>12. ASSUME NEW f \in Frames, Put(f) PROVE Control'
  BY <1>12, CallersAssumption, SMTT(30) DEF Put
<1>13. ASSUME NEW f \in Frames, PutBody(f) PROVE Control'
  <2>1. CASE f = Main
    BY <2>1, <1>13, AccountKnown, CallersAssumption DEF PutBody
  <2>2. CASE f = Refresh
    BY <2>2, <1>13, AccountKnown, CallersAssumption DEF PutBody
  <2> QED
    BY <2>1, <2>2
<1>14. CASE Acquire
  BY <1>14, CallersAssumption, SMTT(30) DEF Acquire
<1>15. CASE Refreshed
  BY <1>15, CallersAssumption, SMTT(30)
     DEF Refreshed, Released, save_tokens, Again, Raised, Settle, Upset
<1>16. CASE RefreshFails
  BY <1>16, CallersAssumption, SMTT(30)
     DEF RefreshFails, Released, Raised, Settle, Upset
<1>17. CASE Connect
  <2>1. CASE load_cached_tokens /\ step' = [step EXCEPT ![Main] = "verify"]
              /\ req' = [req EXCEPT ![Main] = Ready]
    <3>1. cst' # 0 /\ account' # None
      BY <2>1, CallersAssumption DEF load_cached_tokens
    <3> QED
      BY <2>1, <3>1, <1>17, CallersAssumption DEF Connect
  <2>2. CASE step' = [step EXCEPT ![Main] = "login"] /\ UNCHANGED <<tokens, req>>
    BY <2>2, <1>17, CallersAssumption DEF Connect
  <2> QED
    BY <2>1, <2>2, <1>17 DEF Connect
<1>18. CASE Connected
  BY <1>18, CallersAssumption, SMTT(30) DEF Connected, save_tokens
<1>19. CASE Close
  BY <1>19, CallersAssumption, SMTT(30) DEF Close, Cancelled
<1>20. CASE Exit
  BY <1>20, CallersAssumption, SMTT(30) DEF Exit, Cancelled
<1> QED
  BY <1>1, <1>2, <1>3, <1>4, <1>5, <1>6, <1>7, <1>8, <1>9, <1>10, <1>11, <1>12, <1>13,
     <1>14, <1>15, <1>16, <1>17, <1>18, <1>19, <1>20
     DEF Next, Answer, FrameStep

LEMMA WaitersNext == ASSUME IInv, Next PROVE Waiters'
<1> USE DEF IInv, TypeOK, Control, Waiters, InRefresh, Requests, Idle, Ready, Callers,
            Frames, Tasks, ig, tokens, auth, orders
<1>1. ASSUME NEW t \in Tasks, Call(t) PROVE Waiters'
  BY <1>1, CallersAssumption, SMTT(30) DEF Call
<1>2. ASSUME NEW t \in Traders, IGExecutes(t) PROVE Waiters'
  BY <1>2, CallersAssumption, SMTT(30) DEF IGExecutes
<1>3. ASSUME NEW t \in Pollers, RefreshCalled(t) PROVE Waiters'
  <2>1. /\ req'[t].at = "direct" /\ \A d \in Callers \ {t} : req'[d] = req[d]
        /\ t # lock /\ t # Refresh /\ t \notin Traders /\ t \in Callers
        /\ \A i \in 1..Len(waiting) : waiting[i] # t
    BY <1>3, CallersAssumption DEF RefreshCalled
  <2>2. CASE lock = None /\ waiting = <<>>
    BY <1>3, <2>1, <2>2 DEF RefreshCalled, SeekLock
  <2>3. CASE ~(lock = None /\ waiting = <<>>)
    <3>1. waiting' = Append(waiting, t) /\ lock' = lock
      BY <1>3, <2>3 DEF RefreshCalled, SeekLock
    <3> QED
      BY <2>1, <3>1, Enqueued
  <2> QED
    BY <2>2, <2>3
<1>4. ASSUME NEW c \in Callers, Send(c) PROVE Waiters'
  <2>1. /\ req' = [req EXCEPT ![c].at = "sent", ![c].sent = cst]
        /\ req[c].at = "ready" /\ waiting' = waiting /\ lock' = lock
    BY <1>4 DEF Send
  <2>2. req'[c].at = "sent" /\ \A d \in Callers \ {c} : req'[d] = req[d]
    BY <2>1
  <2> QED
    BY <2>1, <2>2, Settled
<1>5. ASSUME NEW c \in Callers, AnswerOk(c) PROVE Waiters'
  BY <1>5, CallersAssumption, SMTT(30) DEF AnswerOk, Settle, Succeeded
<1>6. ASSUME NEW c \in Callers, AnswerDenied(c) PROVE Waiters'
  <2>1. req[c].at = "sent"
    BY <1>6, DeniedCases
  <2>2. CASE (Raised(c, "denied", step) \/ Again(c, "denied", step))
             /\ lock' = lock /\ waiting' = waiting
    BY <2>1, <2>2, Effects, Settled
  <2>3. CASE lock = None /\ req' = [req EXCEPT ![c].at = "refresh"] /\ SeekLock(c)
    <3>1. /\ req'[c].at = "refresh" /\ \A d \in Callers \ {c} : req'[d] = req[d]
          /\ c # lock /\ \A i \in 1..Len(waiting) : waiting[i] # c
      BY <2>1, <2>3, CallersAssumption
    <3>2. c # Refresh
      BY <2>1, <2>3
    <3>3. CASE waiting = <<>>
      BY <3>1, <3>2, <2>3, <3>3, CallersAssumption DEF SeekLock
    <3>4. CASE waiting # <<>>
      <4>1. waiting' = Append(waiting, c) /\ lock' = lock
        BY <2>3, <3>4 DEF SeekLock
      <4> QED
        BY <3>1, <3>2, <4>1, Enqueued
    <3> QED
      BY <3>3, <3>4
  <2> QED
    BY <1>6, <2>2, <2>3, DeniedCases
<1>7. ASSUME NEW c \in Callers, AnswerLater(c) PROVE Waiters'
  <2>1. /\ req[c].at \notin InRefresh /\ UNCHANGED auth
        /\ Again(c, "refused", step) \/ Raised(c, "refused", step)
    BY <1>7 DEF AnswerLater
  <2> QED
    BY <2>1, Effects, Settled
<1>8. ASSUME NEW c \in Callers, AnswerLost(c) PROVE Waiters'
  <2>1. /\ req[c].at \notin InRefresh /\ UNCHANGED auth
        /\ Again(c, "unknown", step) \/ Raised(c, "unknown", step)
    BY <1>8 DEF AnswerLost
  <2> QED
    BY <2>1, Effects, Settled
<1>9. ASSUME NEW c \in Callers, AnswerRefused(c) PROVE Waiters'
  <2>1. /\ req[c].at \notin InRefresh /\ UNCHANGED auth
        /\ Again(c, "refused", step) \/ Raised(c, "refused", step)
    BY <1>9 DEF AnswerRefused
  <2> QED
    BY <2>1, Effects, Settled
<1>10. ASSUME NEW f \in Frames, Login(f) PROVE Waiters'
  BY <1>10, CallersAssumption, SMTT(30) DEF Login
<1>11. ASSUME NEW f \in Frames, LoginBody(f) PROVE Waiters'
  BY <1>11, CallersAssumption, SMTT(30) DEF LoginBody
<1>12. ASSUME NEW f \in Frames, Put(f) PROVE Waiters'
  BY <1>12, CallersAssumption, SMTT(30) DEF Put
<1>13. ASSUME NEW f \in Frames, PutBody(f) PROVE Waiters'
  BY <1>13, CallersAssumption, SMTT(30) DEF PutBody
<1>14. CASE Acquire
  <2>1. /\ Len(waiting) \in Nat \ {0} /\ Len(waiting') = Len(waiting) - 1
        /\ lock' = waiting[1] /\ req' = req
        /\ \A i \in 1..Len(waiting') : waiting'[i] = waiting[i + 1] /\ i + 1 \in 1..Len(waiting)
        /\ \A i \in 1..Len(waiting) : waiting[i] \in Callers
    BY <1>14 DEF Acquire
  <2>2. ASSUME NEW i \in 1..Len(waiting')
        PROVE  /\ req[waiting'[i]].at \in InRefresh /\ waiting'[i] # lock'
               /\ \A j \in 1..Len(waiting') : i # j => waiting'[i] # waiting'[j]
    <3>1. 1 \in 1..Len(waiting) /\ i + 1 # 1
      BY <2>1
    <3>2. waiting'[i] = waiting[i + 1] /\ i + 1 \in 1..Len(waiting)
      BY <2>1
    <3>3. req[waiting'[i]].at \in InRefresh /\ waiting'[i] # lock'
      BY <2>1, <3>1, <3>2
    <3>4. ASSUME NEW j \in 1..Len(waiting'), i # j PROVE waiting'[i] # waiting'[j]
      <4>1. waiting'[j] = waiting[j + 1] /\ j + 1 \in 1..Len(waiting) /\ i + 1 # j + 1
        BY <2>1, <3>4
      <4> QED
        BY <3>2, <4>1
    <3> QED
      BY <3>3, <3>4
  <2>3. req[lock'].at \in InRefresh
    BY <2>1
  <2> QED
    BY <2>1, <2>2, <2>3
<1>15. CASE Refreshed
  <2>1. lock \in Callers /\ lock' = None /\ waiting' = waiting
    BY <1>15 DEF Refreshed
  <2>2. CASE req' = [req EXCEPT ![lock] = Idle]
    BY <2>1, <2>2, Settled
  <2>3. CASE Again(lock, "denied", Released) \/ Raised(lock, "denied", Released)
    <3>1. Released \in [Frames -> Steps]
      BY DEF Released, Steps
    <3> QED
      BY <2>1, <2>3, <3>1, Effects, Settled
  <2> QED
    BY <1>15, <2>2, <2>3 DEF Refreshed
<1>16. CASE RefreshFails
  <2>1. lock \in Callers /\ lock' = None /\ waiting' = waiting
    BY <1>16 DEF RefreshFails
  <2>2. CASE req' = [req EXCEPT ![lock] = Idle]
    BY <2>1, <2>2, Settled
  <2>3. CASE Again(lock, "denied", Released) \/ Raised(lock, "denied", Released)
    <3>1. Released \in [Frames -> Steps]
      BY DEF Released, Steps
    <3> QED
      BY <2>1, <2>3, <3>1, Effects, Settled
  <2> QED
    BY <1>16, <2>2, <2>3 DEF RefreshFails
<1>17. CASE Connect
  BY <1>17, CallersAssumption, SMTT(30) DEF Connect, load_cached_tokens
<1>18. CASE Connected
  BY <1>18, CallersAssumption, SMTT(30) DEF Connected, save_tokens
<1>19. CASE Close
  BY <1>19, CallersAssumption, SMTT(30) DEF Close, Cancelled
<1>20. CASE Exit
  BY <1>20, CallersAssumption, SMTT(30) DEF Exit, Cancelled
<1> QED
  BY <1>1, <1>2, <1>3, <1>4, <1>5, <1>6, <1>7, <1>8, <1>9, <1>10, <1>11, <1>12, <1>13,
     <1>14, <1>15, <1>16, <1>17, <1>18, <1>19, <1>20
     DEF Next, Answer, FrameStep

LEMMA TokenOrderNext == ASSUME IInv, Next PROVE TokenOrder'
<1> USE DEF IInv, TypeOK, Control, Waiters, TokenOrder, Active, InRefresh, Requests,
            Idle, Ready, Sessions, Callers, Frames, Tasks, ig, tokens, auth, orders
<1>1. ASSUME NEW t \in Tasks, Call(t) PROVE TokenOrder'
  BY <1>1, CallersAssumption, SMTT(30) DEF Call
<1>2. ASSUME NEW t \in Traders, IGExecutes(t) PROVE TokenOrder'
  BY <1>2, CallersAssumption, SMTT(30) DEF IGExecutes
<1>3. ASSUME NEW t \in Pollers, RefreshCalled(t) PROVE TokenOrder'
  BY <1>3, CallersAssumption, SMTT(30) DEF RefreshCalled, SeekLock
<1>4. ASSUME NEW c \in Callers, Send(c) PROVE TokenOrder'
  BY <1>4, CallersAssumption, SMTT(30) DEF Send
<1>5. ASSUME NEW c \in Callers, AnswerOk(c) PROVE TokenOrder'
  BY <1>5, CallersAssumption, SMTT(30) DEF AnswerOk, Settle, Succeeded
<1>6. ASSUME NEW c \in Callers, AnswerDenied(c) PROVE TokenOrder'
  <2>1. req[c].at = "sent" /\ cst' = cst /\ step \in [Frames -> Steps]
    BY <1>6, DeniedCases
  <2>2. CASE Raised(c, "denied", step) /\ lock' = lock
    BY <2>1, <2>2, Answered
  <2>3. CASE Again(c, "denied", step) /\ Renewed(c) /\ lock' = lock
    <3>1. req[c].sent < cst
      BY <2>3, BoundsAssumption DEF Renewed
    <3> QED
      BY <2>1, <2>3, <3>1, Answered
  <2>4. CASE lock = None /\ req' = [req EXCEPT ![c].at = "refresh"] /\ SeekLock(c)
    <3>1. Ordered(req'[c])
      BY <2>1, <2>4 DEF Ordered
    <3>2. step'[Refresh] \notin Active
      BY <2>4 DEF SeekLock
    <3> QED
      BY <2>1, <2>4, <3>1, <3>2, OneRequest
  <2> QED
    BY <1>6, <2>2, <2>3, <2>4, DeniedCases
<1>7. ASSUME NEW c \in Callers, AnswerLater(c) PROVE TokenOrder'
  <2>1. /\ req[c].at \in {"sent", "executed"} /\ lock' = lock /\ cst' = cst
        /\ Again(c, "refused", step) \/ Raised(c, "refused", step)
    BY <1>7 DEF AnswerLater
  <2> QED
    BY <2>1, Answered
<1>8. ASSUME NEW c \in Callers, AnswerLost(c) PROVE TokenOrder'
  <2>1. /\ req[c].at \in {"sent", "executed"} /\ lock' = lock /\ cst' = cst
        /\ Again(c, "unknown", step) \/ Raised(c, "unknown", step)
    BY <1>8 DEF AnswerLost
  <2> QED
    BY <2>1, Answered
<1>9. ASSUME NEW c \in Callers, AnswerRefused(c) PROVE TokenOrder'
  <2>1. /\ req[c].at \in {"sent", "executed"} /\ lock' = lock /\ cst' = cst
        /\ Again(c, "refused", step) \/ Raised(c, "refused", step)
    BY <1>9 DEF AnswerRefused
  <2> QED
    BY <2>1, Answered
<1>10. ASSUME NEW f \in Frames, Login(f) PROVE TokenOrder'
  BY <1>10, CallersAssumption, SMTT(30) DEF Login
<1>11. ASSUME NEW f \in Frames, LoginBody(f) PROVE TokenOrder'
  <2>1. cst' = cst /\ lock' = lock /\ req' \in {req, [req EXCEPT ![f] = Ready]}
    BY <1>11 DEF LoginBody
  <2>2. step'[Refresh] \in Active => step[Refresh] \in Active
    BY <1>11 DEF LoginBody
  <2>3. Ordered(req'[f])
    <3>1. CASE req' = req
      BY <3>1 DEF Ordered
    <3>2. CASE req' = [req EXCEPT ![f] = Ready]
      <4>1. req'[f].sent = 0 /\ req'[f].rejected = 0
        BY <3>2
      <4>2. 0 <= cst
        BY BoundsAssumption
      <4> QED
        BY <4>1, <4>2 DEF Ordered
    <3> QED
      BY <2>1, <3>1, <3>2
  <2>4. step[Refresh] \in Active => lock # f
    <3>1. CASE f = Refresh
      BY <3>1
    <3>2. CASE f = Main
      BY <3>2, <1>11, CallersAssumption DEF LoginBody
    <3> QED
      BY <3>1, <3>2
  <2> QED
    BY <2>1, <2>2, <2>3, <2>4, OneRequest
<1>12. ASSUME NEW f \in Frames, Put(f) PROVE TokenOrder'
  BY <1>12, CallersAssumption, SMTT(30) DEF Put
<1>13. ASSUME NEW f \in Frames, PutBody(f) PROVE TokenOrder'
  BY <1>13, CallersAssumption, SMTT(30) DEF PutBody
<1>14. CASE Acquire
  BY <1>14, CallersAssumption, SMTT(30) DEF Acquire
<1>15. CASE Refreshed
  <2>1. lock \in Callers /\ cst' = cst /\ Released[Refresh] \notin Active
        /\ Released \in [Frames -> Steps]
    BY <1>15 DEF Refreshed, Released, Steps
  <2>2. CASE req' = [req EXCEPT ![lock] = Idle] /\ step' = Released
    <3>1. Ordered(req'[lock])
      BY <2>1, <2>2, BoundsAssumption DEF Ordered
    <3> QED
      BY <2>1, <2>2, <3>1, OneRequest
  <2>3. CASE Again(lock, "denied", Released)
    <3>1. req[lock].sent < cst
      BY <1>15 DEF Refreshed
    <3>2. Raised(lock, "denied", Released) \/ ~Raised(lock, "denied", Released)
      OBVIOUS
    <3> QED
      BY <2>1, <2>3, <3>1, <3>2, Answered
  <2> QED
    BY <1>15, <2>2, <2>3 DEF Refreshed
<1>16. CASE RefreshFails
  <2>1. lock \in Callers /\ cst' = cst /\ Released[Refresh] \notin Active
        /\ Released \in [Frames -> Steps]
    BY <1>16 DEF RefreshFails, Released, Steps
  <2>2. CASE req' = [req EXCEPT ![lock] = Idle] /\ step' = Released
    <3>1. Ordered(req'[lock])
      BY <2>1, <2>2, BoundsAssumption DEF Ordered
    <3> QED
      BY <2>1, <2>2, <3>1, OneRequest
  <2>3. CASE Raised(lock, "denied", Released)
    BY <2>1, <2>3, Answered
  <2> QED
    BY <1>16, <2>2, <2>3 DEF RefreshFails
<1>17. CASE Connect
  BY <1>17, CallersAssumption, SMTT(30) DEF Connect, load_cached_tokens
<1>18. CASE Connected
  BY <1>18, CallersAssumption, SMTT(30) DEF Connected, save_tokens
<1>19. CASE Close
  BY <1>19, CallersAssumption, SMTT(30) DEF Close, Cancelled
<1>20. CASE Exit
  BY <1>20, CallersAssumption, SMTT(30) DEF Exit, Cancelled
<1> QED
  BY <1>1, <1>2, <1>3, <1>4, <1>5, <1>6, <1>7, <1>8, <1>9, <1>10, <1>11, <1>12, <1>13,
     <1>14, <1>15, <1>16, <1>17, <1>18, <1>19, <1>20
     DEF Next, Answer, FrameStep

LEMMA OnSpreadNext == ASSUME IInv, Next PROVE OnSpread'
<1> USE DEF IInv, TypeOK, Control, OnSpread, Accounts, Callers, Frames, Tasks, ig,
            tokens, auth, orders
<1>1. ASSUME NEW t \in Tasks, Call(t) PROVE OnSpread'
  BY <1>1, CallersAssumption, SMTT(30) DEF Call
<1>2. ASSUME NEW t \in Traders, IGExecutes(t) PROVE OnSpread'
  BY <1>2, CallersAssumption, SMTT(30) DEF IGExecutes
<1>3. ASSUME NEW t \in Pollers, RefreshCalled(t) PROVE OnSpread'
  BY <1>3, CallersAssumption, SMTT(30) DEF RefreshCalled, SeekLock
<1>4. ASSUME NEW c \in Callers, Send(c) PROVE OnSpread'
  BY <1>4, CallersAssumption, SMTT(30) DEF Send
<1>5. ASSUME NEW c \in Callers, AnswerOk(c) PROVE OnSpread'
  BY <1>5, CallersAssumption, SMTT(30) DEF AnswerOk, Settle, Succeeded
<1>6. ASSUME NEW c \in Callers, AnswerDenied(c) PROVE OnSpread'
  BY <1>6, CallersAssumption, SMTT(30)
     DEF AnswerDenied, Raised, Again, SeekLock, Settle, Upset, refreshing, Renewed
<1>7. ASSUME NEW c \in Callers, AnswerLater(c) PROVE OnSpread'
  BY <1>7, CallersAssumption, SMTT(30) DEF AnswerLater, Again, Raised, Settle, Upset
<1>8. ASSUME NEW c \in Callers, AnswerLost(c) PROVE OnSpread'
  BY <1>8, CallersAssumption, SMTT(30)
     DEF AnswerLost, Again, Raised, Settle, Upset, idempotent
<1>9. ASSUME NEW c \in Callers, AnswerRefused(c) PROVE OnSpread'
  BY <1>9, CallersAssumption, SMTT(30) DEF AnswerRefused, Raised, Settle, Upset
<1>10. ASSUME NEW f \in Frames, Login(f) PROVE OnSpread'
  <2>1. logins \in Nat /\ 1..(logins + 1) = (1..logins) \cup {logins + 1}
    BY BoundsAssumption DEF Sessions
  <2>2. CASE f = Main
    BY <2>1, <2>2, <1>10, CallersAssumption DEF Login
  <2>3. CASE f = Refresh
    BY <2>1, <2>3, <1>10, CallersAssumption DEF Login
  <2> QED
    BY <2>2, <2>3
<1>11. ASSUME NEW f \in Frames, LoginBody(f) PROVE OnSpread'
  BY <1>11, CallersAssumption, SMTT(30) DEF LoginBody
<1>12. ASSUME NEW f \in Frames, Put(f) PROVE OnSpread'
  BY <1>12, CallersAssumption, SMTT(30) DEF Put
<1>13. ASSUME NEW f \in Frames, PutBody(f) PROVE OnSpread'
  BY <1>13, CallersAssumption, SMTT(30) DEF PutBody
<1>14. CASE Acquire
  BY <1>14, CallersAssumption, SMTT(30) DEF Acquire
<1>15. CASE Refreshed
  BY <1>15, CallersAssumption, SMTT(30)
     DEF Refreshed, Released, save_tokens, Again, Raised, Settle, Upset
<1>16. CASE RefreshFails
  BY <1>16, CallersAssumption, SMTT(30)
     DEF RefreshFails, Released, Raised, Settle, Upset
<1>17. CASE Connect
  BY <1>17, CallersAssumption, SMTT(30) DEF Connect, load_cached_tokens
<1>18. CASE Connected
  BY <1>18, CallersAssumption, SMTT(30) DEF Connected, save_tokens
<1>19. CASE Close
  BY <1>19, CallersAssumption, SMTT(30) DEF Close, Cancelled
<1>20. CASE Exit
  BY <1>20, CallersAssumption, SMTT(30) DEF Exit, Cancelled
<1> QED
  BY <1>1, <1>2, <1>3, <1>4, <1>5, <1>6, <1>7, <1>8, <1>9, <1>10, <1>11, <1>12, <1>13,
     <1>14, <1>15, <1>16, <1>17, <1>18, <1>19, <1>20
     DEF Next, Answer, FrameStep

LEMMA OrdersNext == ASSUME IInv, Next PROVE Orders'
<1> USE DEF IInv, TypeOK, Control, Waiters, Orders, InRefresh, Requests, Idle, Ready,
            Callers, Frames, Tasks, ig, tokens, auth, orders
<1>1. ASSUME NEW t \in Tasks, Call(t) PROVE Orders'
  BY <1>1, CallersAssumption, SMTT(30) DEF Call
<1>2. ASSUME NEW t \in Traders, IGExecutes(t) PROVE Orders'
  BY <1>2, CallersAssumption, SMTT(30) DEF IGExecutes
<1>3. ASSUME NEW t \in Pollers, RefreshCalled(t) PROVE Orders'
  BY <1>3, CallersAssumption, SMTT(30) DEF RefreshCalled, SeekLock
<1>4. ASSUME NEW c \in Callers, Send(c) PROVE Orders'
  BY <1>4, CallersAssumption, SMTT(30) DEF Send
<1>5. ASSUME NEW c \in Callers, AnswerOk(c) PROVE Orders'
  BY <1>5, CallersAssumption, SMTT(30) DEF AnswerOk, Settle, Succeeded
<1>6. ASSUME NEW c \in Callers, AnswerDenied(c) PROVE Orders'
  BY <1>6, CallersAssumption, SMTT(30)
     DEF AnswerDenied, Raised, Again, SeekLock, Settle, Upset, refreshing, Renewed
<1>7. ASSUME NEW c \in Callers, AnswerLater(c) PROVE Orders'
  BY <1>7, CallersAssumption, SMTT(30) DEF AnswerLater, Again, Raised, Settle, Upset
<1>8. ASSUME NEW c \in Callers, AnswerLost(c) PROVE Orders'
  BY <1>8, CallersAssumption, SMTT(30)
     DEF AnswerLost, Again, Raised, Settle, Upset, idempotent
<1>9. ASSUME NEW c \in Callers, AnswerRefused(c) PROVE Orders'
  BY <1>9, CallersAssumption, SMTT(30) DEF AnswerRefused, Raised, Settle, Upset
<1>10. ASSUME NEW f \in Frames, Login(f) PROVE Orders'
  BY <1>10, CallersAssumption, SMTT(30) DEF Login
<1>11. ASSUME NEW f \in Frames, LoginBody(f) PROVE Orders'
  BY <1>11, CallersAssumption, SMTT(30) DEF LoginBody
<1>12. ASSUME NEW f \in Frames, Put(f) PROVE Orders'
  BY <1>12, CallersAssumption, SMTT(30) DEF Put
<1>13. ASSUME NEW f \in Frames, PutBody(f) PROVE Orders'
  BY <1>13, CallersAssumption, SMTT(30) DEF PutBody
<1>14. CASE Acquire
  BY <1>14, CallersAssumption, SMTT(30) DEF Acquire
<1>15. CASE Refreshed
  BY <1>15, CallersAssumption, SMTT(30)
     DEF Refreshed, Released, save_tokens, Again, Raised, Settle, Upset
<1>16. CASE RefreshFails
  BY <1>16, CallersAssumption, SMTT(30)
     DEF RefreshFails, Released, Raised, Settle, Upset
<1>17. CASE Connect
  BY <1>17, CallersAssumption, SMTT(30) DEF Connect, load_cached_tokens
<1>18. CASE Connected
  BY <1>18, CallersAssumption, SMTT(30) DEF Connected, save_tokens
<1>19. CASE Close
  BY <1>19, CallersAssumption, SMTT(30) DEF Close, Cancelled
<1>20. CASE Exit
  BY <1>20, CallersAssumption, SMTT(30) DEF Exit, Cancelled
<1> QED
  BY <1>1, <1>2, <1>3, <1>4, <1>5, <1>6, <1>7, <1>8, <1>9, <1>10, <1>11, <1>12, <1>13,
     <1>14, <1>15, <1>16, <1>17, <1>18, <1>19, <1>20
     DEF Next, Answer, FrameStep

-----------------------------------------------------------------------------
(* The invariant, and the theorems.                                        *)

LEMMA InitIInv == Init => IInv
<1> SUFFICES ASSUME Init PROVE IInv
  OBVIOUS
<1>1. TypeOK
  <2>1. 1 \in 1..SwitchTries /\ 0 \in Sessions /\ <<>> \in Seq(Callers)
        /\ 0 \in 0..0 /\ 0 \in 0..2 /\ "down" \in Steps /\ "none" \in Results
    BY BoundsAssumption DEF Sessions, Steps, Results
  <2>2. req \in [Callers -> Requests]
    BY RequestTypes DEF Init
  <2> QED
    BY <2>1, <2>2 DEF Init, TypeOK
<1>2. Control
  BY CallersAssumption DEF Init, Control, Active, Callers, Tasks, Frames
<1>3. Waiters
  BY CallersAssumption DEF Init, Waiters, InRefresh, Idle, Callers, Tasks, Frames
<1>4. TokenOrder
  BY CallersAssumption DEF Init, TokenOrder, Active, Idle, Callers, Tasks, Frames
<1>5. OnSpread
  BY CallersAssumption DEF Init, OnSpread, Frames
<1>6. Orders
  BY CallersAssumption DEF Init, Orders, Idle, Callers, Tasks, Frames
<1> QED
  BY <1>1, <1>2, <1>3, <1>4, <1>5, <1>6 DEF IInv

LEMMA StepIInv == IInv /\ [Next]_vars => IInv'
<1>1. ASSUME IInv, Next PROVE IInv'
  BY <1>1, TypeNext, ControlNext, WaitersNext, TokenOrderNext, OnSpreadNext, OrdersNext
     DEF IInv
<1>2. ASSUME IInv, UNCHANGED vars PROVE IInv'
  BY <1>2 DEF IInv, TypeOK, Control, Waiters, TokenOrder, OnSpread, Orders,
              vars, ig, tokens, auth, orders
<1> QED
  BY <1>1, <1>2

LEMMA Invariant == Spec => []IInv
BY InitIInv, StepIInv, PTL DEF Spec

\* The types of the session, its lock and the callers' requests, for any number
\* of tasks and any bounds.
THEOREM TypeCorrect == Spec => []TypeOK
<1>1. IInv => TypeOK
  BY DEF IInv
<1> QED
  BY <1>1, Invariant, PTL

\* refresh_session leaves the lock with the client, and IG, on the SPREADBET
\* account, whatever the other tasks do meanwhile.
THEOREM RefreshEndsOnSpreadbet == Spec => []RefreshedOnSpreadbet
<1>1. IInv => RefreshedOnSpreadbet
  BY DEF IInv, OnSpread, RefreshedOnSpreadbet
<1> QED
  BY <1>1, Invariant, PTL

\* A denied request is sent again only with tokens newer than those IG rejected.
THEOREM RetriesWithNewToken == Spec => []RetriedWithNewToken
<1>1. IInv => RetriedWithNewToken
  BY BoundsAssumption
     DEF IInv, TypeOK, Requests, Sessions, TokenOrder, RetriedWithNewToken
<1> QED
  BY <1>1, Invariant, PTL

-----------------------------------------------------------------------------
(* The refinement: IGClient.place_order implements DealCall.               *)

LEMMA OrderInit == Init => Order!Init
BY DEF Init, Order!Init

\* What a settled answer is to DealCall.
LEMMA OrderSettled ==
    ASSUME IInv, NEW c \in Callers, NEW why \in {"denied", "refused", "unknown"},
           req[c].at # "idle", why # "unknown" => req[c].at \in {"sent", "refresh"},
           Settle(c, why)
    PROVE  [Order!Next]_<<result, executed>>
<1>1. CASE c \notin Traders
  BY <1>1 DEF Settle
<1>2. CASE c \in Traders
  <2>1. result[c] = "pending" /\ (why # "unknown" => executed[c] = 0)
    BY <1>2 DEF IInv, Orders
  <2>2. Order!Resolve(c)
    BY <1>2, <2>1 DEF Settle, Order!Resolve
  <2> QED
    BY <1>2, <2>2 DEF Order!Next
<1> QED
  BY <1>1, <1>2

LEMMA OrderAgain ==
    ASSUME IInv, NEW c \in Callers, NEW why \in {"denied", "refused", "unknown"},
           req[c].at # "idle", why # "unknown" => req[c].at \in {"sent", "refresh"},
           NEW base, Again(c, why, base) \/ Raised(c, why, base)
    PROVE  [Order!Next]_<<result, executed>>
<1>1. Settle(c, why) \/ UNCHANGED orders
  BY DEF Again, Raised
<1> QED
  BY <1>1, OrderSettled DEF orders

LEMMA OrderCancelled ==
    ASSUME Cancelled PROVE [Order!Next]_<<result, executed>>
BY DEF Cancelled, Order!Next, Order!Interrupt

LEMMA OrderStep == ASSUME IInv, Next PROVE [Order!Next]_<<result, executed>>
<1>1. ASSUME NEW t \in Tasks, Call(t) PROVE [Order!Next]_<<result, executed>>
  <2>1. CASE t \in Traders
    <3>1. result[t] # "pending"
      BY <1>1, <2>1 DEF IInv, Orders, Call
    <3>2. Order!Place(t)
      BY <1>1, <2>1, <3>1 DEF Call, Order!Place
    <3> QED
      BY <2>1, <3>2 DEF Order!Next
  <2>2. CASE t \notin Traders
    BY <1>1, <2>2 DEF Call, orders
  <2> QED
    BY <2>1, <2>2
<1>2. ASSUME NEW t \in Traders, IGExecutes(t) PROVE [Order!Next]_<<result, executed>>
  <2>1. result[t] = "pending" /\ executed[t] = 0
    BY <1>2 DEF IInv, Orders, IGExecutes
  <2>2. executed' = [executed EXCEPT ![t] = 1]
    BY <1>2, <2>1 DEF IGExecutes
  <2>3. Order!Execute(t)
    BY <1>2, <2>1, <2>2 DEF IGExecutes, Order!Execute
  <2> QED
    BY <2>3 DEF Order!Next
<1>3. ASSUME NEW c \in Callers, Answer(c) PROVE [Order!Next]_<<result, executed>>
  <2>1. CASE AnswerOk(c)
    <3>1. CASE c \in Traders
      <4>1. result[c] = "pending" /\ executed[c] = 1
        BY <2>1, <3>1 DEF IInv, Orders, AnswerOk
      <4>2. Order!Resolve(c)
        BY <2>1, <3>1, <4>1 DEF AnswerOk, Settle, Order!Resolve
      <4> QED
        BY <3>1, <4>2 DEF Order!Next
    <3>2. CASE c \notin Traders
      BY <2>1, <3>2 DEF AnswerOk, Settle
    <3> QED
      BY <3>1, <3>2
  <2>2. CASE AnswerDenied(c)
    <3>1. \/ Again(c, "denied", step) \/ Raised(c, "denied", step)
          \/ UNCHANGED orders
      BY <2>2 DEF AnswerDenied
    <3>2. req[c].at = "sent"
      BY <2>2 DEF AnswerDenied
    <3> QED
      BY <3>1, <3>2, OrderAgain DEF orders
  <2>3. CASE AnswerLater(c) \/ AnswerRefused(c)
    BY <2>3, OrderAgain DEF AnswerLater, AnswerRefused
  <2>4. CASE AnswerLost(c)
    BY <2>4, OrderAgain DEF AnswerLost
  <2> QED
    BY <1>3, <2>1, <2>2, <2>3, <2>4 DEF Answer
<1>4. CASE Refreshed \/ RefreshFails
  <2>1. lock \in Callers /\ (req[lock].at # "direct" => req[lock].at = "refresh")
    BY <1>4 DEF IInv, TypeOK, Control, Waiters, InRefresh, Refreshed, RefreshFails
  <2>2. CASE req[lock].at = "direct"
    BY <1>4, <2>2 DEF Refreshed, RefreshFails, orders
  <2>3. CASE req[lock].at # "direct"
    BY <1>4, <2>1, <2>3, OrderAgain DEF Refreshed, RefreshFails
  <2> QED
    BY <2>2, <2>3
<1>5. CASE Close \/ Exit
  BY <1>5, OrderCancelled DEF Close, Exit
<1>6. ASSUME NEW c \in Callers, Send(c) PROVE UNCHANGED <<result, executed>>
  BY <1>6 DEF Send, orders
<1>7. ASSUME NEW t \in Pollers, RefreshCalled(t) PROVE UNCHANGED <<result, executed>>
  BY <1>7 DEF RefreshCalled, orders
<1>8. ASSUME NEW f \in Frames, FrameStep(f) PROVE UNCHANGED <<result, executed>>
  BY <1>8 DEF FrameStep, Login, LoginBody, Put, PutBody, orders
<1>9. CASE Acquire \/ Connect \/ Connected
  BY <1>9 DEF Acquire, Connect, Connected, orders
<1> QED
  BY <1>1, <1>2, <1>3, <1>4, <1>5, <1>6, <1>7, <1>8, <1>9 DEF Next

\* Whatever is retried, re-authenticated, lost or cancelled on the way, IG
\* executes an order at most once, and only "unknown" leaves that open.
THEOREM OrdersPlacedOnce == Spec => PlacedOnce
<1>1. IInv /\ [Next]_vars => [Order!Next]_<<result, executed>>
  <2>1. UNCHANGED vars => UNCHANGED <<result, executed>>
    BY DEF vars, orders
  <2> QED
    BY <2>1, OrderStep
<1> QED
  BY <1>1, OrderInit, Invariant, PTL DEF Spec, PlacedOnce, Order!Spec
=============================================================================
