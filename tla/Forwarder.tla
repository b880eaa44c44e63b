------------------------------ MODULE Forwarder ------------------------------
(***************************************************************************)
(* The forwarding proxy of the Manager process: ServeHTTP                  *)
(* (internal/proxy/handler.go), the balancer it picks accounts with        *)
(* (internal/proxy/pick.go) and the usage refresh it starts after a 429    *)
(* (internal/usage/sync.go).                                               *)
(*                                                                         *)
(* A request reads the pool once, then asks one account after the other.   *)
(* The balancer's maps are shared by all requests under one mutex, so each *)
(* critical section is one action; what happens between two of them        *)
(* (the upstream, the writes to the store) is not protected by anything.   *)
(*                                                                         *)
(* Time is relative: every deadline is the number of ticks left, every     *)
(* entry of a window the number of ticks since it was made.                *)
(***************************************************************************)
EXTENDS Integers, Sequences, FiniteSets

CONSTANTS Accounts,       \* the paid accounts that have an API key
          Requests,       \* the POST requests
          None,           \* no account
          Replies,        \* how an upstream call may end
          HoldTimes,      \* durations a 429 body may announce, in ticks
          AuthHold,       \* the hour after a 401
          BlindHold,      \* the pause after a 429 while the cookie is stale
          Longest,        \* bound on all of them
          Window,         \* rpmWindow, in ticks
          RetryChoices,   \* settings: max_retries
          RPMChoices,     \* settings: account_rpm
          MaxRestarts     \* bound on the restarts of the process

(* ok: a response below 400; timeout: no response headers in time; broken: *)
(* any other transport error; fatal: a permanent model error or a status   *)
(* that is not retried; html: a rate limit page of the edge; auth: 401;    *)
(* monthly: 429 for the month; quota: 429 for the week or the 5 hours;     *)
(* limited: any other 429; retryable: 402, 408, 409 and 5xx.               *)
AllReplies == {"ok", "timeout", "broken", "fatal", "html", "auth", "monthly",
               "quota", "limited", "retryable"}

ASSUME ForwarderAssumption ==
    /\ None \notin Accounts
    /\ Replies \subseteq AllReplies
    /\ Longest \in Nat \ {0}
    /\ HoldTimes \subseteq 1..Longest /\ HoldTimes # {}
    /\ AuthHold \in 1..Longest
    /\ BlindHold \in 1..Longest
    /\ Window \in Nat \ {0}
    /\ RetryChoices \subseteq Nat
    /\ RPMChoices \subseteq Nat \ {0}
    /\ MaxRestarts \in Nat

VARIABLES row,         \* accounts with their account_usage row
          settings,    \* max_retries and account_rpm
          cool,        \* balancer.cool: ticks left
          inflight,    \* balancer.inflight
          older,       \* balancer.lastPick: pairs whose first was picked earlier
          refreshing,  \* balancer.refreshing
          picks,       \* balancer.picks: the age of each pick, oldest first
          phase,       \* position of each request in ServeHTTP
          seen,        \* the pool each request has read
          tried,       \* the accounts each request has asked
          at,          \* the account each request is asking
          reply,       \* how the last upstream call of each request ended
          pause,       \* the duration cooldownFor returned
          task,        \* the goroutines of refreshAfter429, by request and account
          prev,        \* the row each of them read before its fetch
          restarts

balancer == <<cool, inflight, older, refreshing, picks>>
local    == <<phase, seen, tried, at, reply, pause>>
tasks    == <<task, prev>>
vars     == <<row, settings, cool, inflight, older, refreshing, picks, phase, seen,
              tried, at, reply, pause, task, prev, restarts>>

-----------------------------------------------------------------------------
(* spent: MonthlyDone; hold: ticks left of HoldUntil; stale: CookieStale.  *)
Row == [state : {"paid", "unpaid", "gone"}, spent : BOOLEAN, hold : 0..Longest,
        stale : BOOLEAN]

Phases == {"idle", "reading", "picking", "upstream", "again", "copying", "ended",
           "cooling", "holding", "done", "lost"}

Tasks == {"none", "called", "waiting", "fetching", "leaving"}

NoRow == [state |-> "gone", spent |-> FALSE, hold |-> 0, stale |-> FALSE]

(* The request is between reserve and end.                                 *)
Asking == {"upstream", "again", "copying"}

TypeOK ==
    /\ row \in [Accounts -> Row]
    /\ settings \in [retries : RetryChoices, rpm : RPMChoices]
    /\ cool \in [Accounts -> 0..Longest]
    /\ inflight \in [Accounts -> Nat]
    /\ older \in SUBSET (Accounts \X Accounts)
    /\ refreshing \in [Accounts -> Nat]
    /\ picks \in [Accounts -> Seq(0..Window)]
    /\ phase \in [Requests -> Phases]
    /\ seen \in [Requests -> [Accounts -> Row]]
    /\ tried \in [Requests -> SUBSET Accounts]
    /\ at \in [Requests -> Accounts \cup {None}]
    /\ reply \in [Requests -> AllReplies \cup {"none"}]
    /\ pause \in [Requests -> 0..Longest]
    /\ task \in [Requests -> [Accounts -> Tasks]]
    /\ prev \in [Requests -> [Accounts -> Row]]
    /\ restarts \in 0..MaxRestarts

NoRows == [a \in Accounts |-> NoRow]

ResetBalancer ==
    /\ cool' = [a \in Accounts |-> 0]
    /\ inflight' = [a \in Accounts |-> 0]
    /\ older' = {}
    /\ refreshing' = [a \in Accounts |-> 0]
    /\ picks' = [a \in Accounts |-> <<>>]

Init ==
    /\ row \in [Accounts -> [state : {"paid"}, spent : {FALSE}, hold : {0},
                             stale : BOOLEAN]]
    /\ settings \in [retries : RetryChoices, rpm : RPMChoices]
    /\ cool = [a \in Accounts |-> 0]
    /\ inflight = [a \in Accounts |-> 0]
    /\ older = {}
    /\ refreshing = [a \in Accounts |-> 0]
    /\ picks = [a \in Accounts |-> <<>>]
    /\ phase = [r \in Requests |-> "idle"]
    /\ seen = [r \in Requests |-> NoRows]
    /\ tried = [r \in Requests |-> {}]
    /\ at = [r \in Requests |-> None]
    /\ reply = [r \in Requests |-> "none"]
    /\ pause = [r \in Requests |-> 0]
    /\ task = [r \in Requests |-> [a \in Accounts |-> "none"]]
    /\ prev = [r \in Requests |-> NoRows]
    /\ restarts = 0

-----------------------------------------------------------------------------
Goto(r, from, to) == phase[r] = from /\ phase' = [phase EXCEPT ![r] = to]

(* ServeHTTP returns: its variables are gone.                              *)
Return(r) ==
    /\ phase' = [phase EXCEPT ![r] = "done"]
    /\ seen' = [seen EXCEPT ![r] = NoRows]
    /\ tried' = [tried EXCEPT ![r] = {}]
    /\ at' = [at EXCEPT ![r] = None]
    /\ reply' = [reply EXCEPT ![r] = "none"]
    /\ pause' = [pause EXCEPT ![r] = 0]

Receive(r) ==
    /\ Goto(r, "idle", "reading")
    /\ UNCHANGED <<row, settings, balancer, seen, tried, at, reply, pause, tasks, restarts>>

(* pool: deletes the accounts whose month is spent and lists the others.   *)
ReadPool(r) ==
    LET Kept(a) == IF row[a].state = "paid" /\ row[a].spent
                   THEN [row[a] EXCEPT !.state = "gone"] ELSE row[a]
    IN /\ Goto(r, "reading", "picking")
       /\ row' = [a \in Accounts |-> Kept(a)]
       /\ seen' = [seen EXCEPT ![r] = row']
       /\ UNCHANGED <<settings, balancer, tried, at, reply, pause, tasks, restarts>>

ReadPoolError(r) ==
    /\ phase[r] = "reading"
    /\ Return(r)
    /\ UNCHANGED <<row, settings, balancer, tasks, restarts>>

(* prunePicksLocked: the entries that have left the window are dropped.    *)
Prune(s) == SubSeq(s, Cardinality({i \in DOMAIN s : s[i] >= Window}) + 1, Len(s))

(* Mutant: one pick too many.                                              *)
MutRpmFull(a) == Len(Prune(picks[a])) > settings.rpm

RpmFull(a) == Len(Prune(picks[a])) >= settings.rpm

(* canServeQuota, on the row the request has read.                         *)
CanServe(s) == s.state = "paid" /\ ~s.spent /\ s.hold = 0

(* Mutant: a refresh in progress does not keep the account out.            *)
MutEligible(r) == {a \in Accounts : /\ a \notin tried[r]
                                    /\ cool[a] = 0
                                    /\ CanServe(seen[r][a])
                                    /\ ~RpmFull(a)}

Eligible(r) == {a \in Accounts : /\ a \notin tried[r]
                                 /\ cool[a] = 0
                                 /\ refreshing[a] = 0
                                 /\ CanServe(seen[r][a])
                                 /\ ~RpmFull(a)}

(* Mutant: least recently picked first, whatever is in flight.             *)
MutRanksFirst(a, S) == \A b \in S : <<b, a>> \notin older

(* rankLocked: fewest requests in flight, then least recently picked; the  *)
(* order of e-mail addresses among the rest is any order.                  *)
RanksFirst(a, S) ==
    \A b \in S : \/ inflight[a] < inflight[b]
                 \/ inflight[a] = inflight[b] /\ <<b, a>> \notin older

(* i counts the accounts that were asked: each turn of the loop asks one.  *)
AttemptsLeft(r) == Cardinality(tried[r]) < settings.retries + 1

(* reserveWithRPM: ranks and takes the first in one critical section.      *)
Reserve(r) ==
    /\ Goto(r, "picking", "upstream")
    /\ AttemptsLeft(r)
    /\ \E a \in Eligible(r) :
          /\ RanksFirst(a, Eligible(r))
          /\ inflight' = [inflight EXCEPT ![a] = @ + 1]
          /\ older' = {p \in older : a \notin {p[1], p[2]}} \cup ((Accounts \ {a}) \X {a})
          /\ picks' = [picks EXCEPT ![a] = Append(Prune(@), 0)]
          /\ tried' = [tried EXCEPT ![r] = @ \cup {a}]
          /\ at' = [at EXCEPT ![r] = a]
    /\ UNCHANGED <<row, settings, cool, refreshing, seen, reply, pause, tasks, restarts>>

(* No attempt or no account is left: the last answer is relayed, or 503.   *)
GiveUp(r) ==
    /\ phase[r] = "picking"
    /\ ~AttemptsLeft(r) \/ Eligible(r) = {}
    /\ Return(r)
    /\ UNCHANGED <<row, settings, balancer, tasks, restarts>>

-----------------------------------------------------------------------------
(* Mutant: begin without end when the upstream connection breaks.          *)
MutRelease(r, v) ==
    inflight' = IF v \in {"broken", "timeout"} THEN inflight
                ELSE [inflight EXCEPT ![at[r]] = IF @ > 0 THEN @ - 1 ELSE 0]

(* end, whatever the answer v was.                                         *)
Release(r, v) ==
    inflight' = [inflight EXCEPT ![at[r]] = IF @ > 0 THEN @ - 1 ELSE 0]

(* Mutant: the announced duration is not capped.                           *)
MutCooldownFor(v, stale) ==
    CASE v = "auth"              -> {AuthHold}
      [] v = "quota"             -> HoldTimes \cup {Longest + 1}
      [] v = "limited" /\ stale  -> {BlindHold}
      [] OTHER                   -> {0}

(* The durations cooldownFor may return for an answer.                     *)
CooldownFor(v, stale) ==
    CASE v = "auth"              -> {AuthHold}
      [] v = "quota"             -> HoldTimes
      [] v = "limited" /\ stale  -> {BlindHold}
      [] OTHER                   -> {0}

(* Where the loop goes after an answer that released the account.          *)
AfterAnswer(v, stale) ==
    CASE v \in {"auth", "monthly", "quota"} -> "ended"
      [] v = "limited"                      -> IF stale THEN "cooling" ELSE "holding"
      [] v \in {"broken", "retryable"}      -> "picking"

(* Mutant: the second call is not the last, a timeout starts over.         *)
MutAskAgain(r) ==
    /\ "timeout" \in Replies
    /\ Goto(r, "upstream", "again") \/ Goto(r, "again", "upstream")
    /\ UNCHANGED <<row, settings, balancer, seen, tried, at, reply, pause, tasks, restarts>>

(* The first timeout in waiting for headers: once more on a new connection.*)
AskAgain(r) ==
    /\ "timeout" \in Replies
    /\ Goto(r, "upstream", "again")
    /\ UNCHANGED <<row, settings, balancer, seen, tried, at, reply, pause, tasks, restarts>>

(* The upstream answered below 400: the body is being copied.              *)
AnswerOK(r) ==
    /\ "ok" \in Replies
    /\ phase[r] \in {"upstream", "again"}
    /\ phase' = [phase EXCEPT ![r] = "copying"]
    /\ UNCHANGED <<row, settings, balancer, seen, tried, at, reply, pause, tasks, restarts>>

(* copyAndParse returned, with or without an error.                        *)
EndCopy(r) ==
    /\ phase[r] = "copying"
    /\ Release(r, "ok")
    /\ Return(r)
    /\ UNCHANGED <<row, settings, cool, older, refreshing, picks, tasks, restarts>>

(* An answer that ends the request: nobody else is asked.                  *)
AnswerFinal(r) ==
    /\ \E v \in Replies \cap {"timeout", "fatal", "html"} :
          /\ phase[r] \in (IF v = "timeout" THEN {"again"} ELSE {"upstream", "again"})
          /\ Release(r, v)
    /\ Return(r)
    /\ UNCHANGED <<row, settings, cool, older, refreshing, picks, tasks, restarts>>

(* An answer after which another account is asked.                         *)
AnswerRetry(r) ==
    /\ phase[r] \in {"upstream", "again"}
    /\ \E v \in Replies \ {"ok", "timeout", "fatal", "html"} :
          LET stale == seen[r][at[r]].stale
          IN /\ Release(r, v)
             /\ reply' = [reply EXCEPT ![r] = v]
             /\ \E d \in CooldownFor(v, stale) : pause' = [pause EXCEPT ![r] = d]
             /\ phase' = [phase EXCEPT ![r] = AfterAnswer(v, stale)]
    /\ UNCHANGED <<row, settings, cool, older, refreshing, picks, seen, tried, at,
                   tasks, restarts>>

(* Delete for the month, SetUsageHold otherwise.                           *)
SaveHold(r) ==
    LET a == at[r]
    IN /\ Goto(r, "ended", IF reply[r] = "monthly" THEN "picking" ELSE "cooling")
       /\ row' = IF row[a].state = "gone" THEN row
                 ELSE IF reply[r] = "monthly" THEN [row EXCEPT ![a].state = "gone"]
                 ELSE [row EXCEPT ![a].hold = pause[r]]
       /\ UNCHANGED <<settings, balancer, seen, tried, at, reply, pause, tasks, restarts>>

(* balancer.cooldown: a later deadline is overwritten by an earlier one.   *)
Cooldown(r) ==
    /\ Goto(r, "cooling",
            IF reply[r] # "auth" /\ ~seen[r][at[r]].stale THEN "holding" ELSE "picking")
    /\ cool' = [cool EXCEPT ![at[r]] = pause[r]]
    /\ UNCHANGED <<row, settings, inflight, older, refreshing, picks, seen, tried, at,
                   reply, pause, tasks, restarts>>

(* hold, and a goroutine that refreshes the usage of the account.          *)
RefreshAfter429(r) ==
    /\ Goto(r, "holding", "picking")
    /\ refreshing' = [refreshing EXCEPT ![at[r]] = @ + 1]
    /\ task' = [task EXCEPT ![r][at[r]] = "called"]
    /\ UNCHANGED <<row, settings, cool, inflight, older, picks, seen, tried, at, reply,
                   pause, prev, restarts>>

RequestStep(r) ==
    \/ ReadPool(r) \/ ReadPoolError(r) \/ Reserve(r) \/ GiveUp(r)
    \/ AskAgain(r) \/ AnswerOK(r) \/ EndCopy(r) \/ AnswerFinal(r) \/ AnswerRetry(r)
    \/ SaveHold(r) \/ Cooldown(r) \/ RefreshAfter429(r)

-----------------------------------------------------------------------------
(* The goroutine of refreshAfter429: Syncer.Refresh runs once per account  *)
(* at a time (kicking); who comes later waits for that run to end.         *)
Kicking(a) == \E r \in Requests : task[r][a] = "fetching"

RefreshWait(r, a) ==
    /\ task[r][a] = "called"
    /\ Kicking(a)
    /\ task' = [task EXCEPT ![r][a] = "waiting"]
    /\ UNCHANGED <<row, settings, balancer, local, prev, restarts>>

(* syncOne reads the row; an account whose month is spent is deleted, one  *)
(* whose cookie is stale is left alone.                                    *)
RefreshBegin(r, a) ==
    /\ task[r][a] = "called"
    /\ ~Kicking(a)
    /\ IF row[a].state # "gone" /\ ~row[a].spent /\ ~row[a].stale
       THEN /\ task' = [task EXCEPT ![r][a] = "fetching"]
            /\ prev' = [prev EXCEPT ![r][a] = row[a]]
            /\ UNCHANGED row
       ELSE /\ task' = [task EXCEPT ![r][a] = "leaving"]
            /\ row' = IF row[a].spent THEN [row EXCEPT ![a].state = "gone"] ELSE row
            /\ UNCHANGED prev
    /\ UNCHANGED <<settings, balancer, local, restarts>>

(* What syncOne writes: fresh usage with the hold it had read, or the row  *)
(* it had read with the error.                                             *)
Fetched(old) ==
    {new \in Row : new.state # "gone" /\ new.hold = old.hold /\ ~new.stale}

FetchFailed(a, old) == {[old EXCEPT !.state = row[a].state, !.stale = e] : e \in BOOLEAN}

(* Mutant: the goroutines that wait are not woken.                         *)
MutWake(a, t) == t

(* delete(kicking) and wg.Done: everybody who waited for this run returns. *)
Wake(a, t) == [b \in Accounts |-> IF b = a /\ t[b] = "waiting" THEN "leaving" ELSE t[b]]

(* The fetch took its time; a row that is gone by now stays gone.          *)
RefreshEnd(r, a) ==
    /\ task[r][a] = "fetching"
    /\ task' = [q \in Requests |-> Wake(a, IF q = r THEN [task[r] EXCEPT ![a] = "leaving"]
                                           ELSE task[q])]
    /\ IF row[a].state = "gone"
       THEN UNCHANGED row
       ELSE \E new \in Fetched(prev[r][a]) \cup FetchFailed(a, prev[r][a]) :
               row' = [row EXCEPT ![a] = new]
    /\ prev' = [prev EXCEPT ![r][a] = NoRow]
    /\ UNCHANGED <<settings, balancer, local, restarts>>

(* Mutant: the entry is deleted although others still hold the account.    *)
MutUnhold(a) == refreshing' = [refreshing EXCEPT ![a] = 0]

Unhold(a) == refreshing' = [refreshing EXCEPT ![a] = IF @ > 0 THEN @ - 1 ELSE 0]

RefreshLeave(r, a) ==
    /\ task[r][a] = "leaving"
    /\ task' = [task EXCEPT ![r][a] = "none"]
    /\ Unhold(a)
    /\ UNCHANGED <<row, settings, cool, inflight, older, picks, local, prev, restarts>>

TaskStep(r, a) ==
    RefreshWait(r, a) \/ RefreshBegin(r, a) \/ RefreshEnd(r, a) \/ RefreshLeave(r, a)

-----------------------------------------------------------------------------
Less(n) == IF n = 0 THEN 0 ELSE n - 1

Older(n) == IF n = Window THEN n ELSE n + 1

Later(rows) == [a \in Accounts |-> [rows[a] EXCEPT !.hold = Less(@)]]

(* One tick: deadlines come nearer, also those in rows read earlier.       *)
Tick ==
    /\ row' = Later(row)
    /\ seen' = [r \in Requests |-> Later(seen[r])]
    /\ prev' = [r \in Requests |-> Later(prev[r])]
    /\ cool' = [a \in Accounts |-> Less(cool[a])]
    /\ picks' = [a \in Accounts |-> [i \in DOMAIN picks[a] |-> Older(picks[a][i])]]
    /\ UNCHANGED <<settings, inflight, older, refreshing, phase, tried, at, reply, pause,
                   task, restarts>>

(* The reset time of the month passes, for whoever has read the row.       *)
MonthEnds(a) ==
    /\ row[a].state # "gone"
    /\ row' = [row EXCEPT ![a].spent = TRUE]
    /\ seen' = [r \in Requests |-> [seen[r] EXCEPT ![a].spent = TRUE]]
    /\ UNCHANGED <<settings, balancer, phase, tried, at, reply, pause, tasks, restarts>>

(* The account is deleted or its cookie marked from the accounts page.     *)
EditAccount(a) ==
    /\ row[a].state # "gone"
    /\ \/ row' = [row EXCEPT ![a].state = "gone"]
       \/ row' = [row EXCEPT ![a].stale = ~@]
    /\ UNCHANGED <<settings, balancer, local, tasks, restarts>>

SaveSettings ==
    /\ settings' \in [retries : RetryChoices, rpm : RPMChoices]
    /\ settings' # settings
    /\ UNCHANGED <<row, balancer, local, tasks, restarts>>

(* The balancer, the requests and their goroutines live in memory.         *)
Restart ==
    /\ restarts < MaxRestarts
    /\ restarts' = restarts + 1
    /\ ResetBalancer
    /\ phase' = [r \in Requests |-> IF phase[r] = "idle" THEN "idle" ELSE "lost"]
    /\ seen' = [r \in Requests |-> NoRows]
    /\ tried' = [r \in Requests |-> {}]
    /\ at' = [r \in Requests |-> None]
    /\ reply' = [r \in Requests |-> "none"]
    /\ pause' = [r \in Requests |-> 0]
    /\ task' = [r \in Requests |-> [a \in Accounts |-> "none"]]
    /\ prev' = [r \in Requests |-> NoRows]
    /\ UNCHANGED <<row, settings>>

ProxyNext ==
    \/ \E r \in Requests : Receive(r) \/ RequestStep(r)
    \/ \E r \in Requests, a \in Accounts : TaskStep(r, a)
    \/ Tick

OutsideNext ==
    \/ \E a \in Accounts : MonthEnds(a) \/ EditAccount(a)
    \/ SaveSettings
    \/ Restart

Next == ProxyNext \/ OutsideNext

Spec == Init /\ [][Next]_vars

(* A handler and a goroutine that can run do run; an upstream call ends,   *)
(* by the transport's timeouts, and so does the copying of a body.         *)
Fairness ==
    /\ \A r \in Requests : WF_vars(RequestStep(r))
    /\ \A r \in Requests, a \in Accounts : WF_vars(TaskStep(r, a))

-----------------------------------------------------------------------------
Users(a) == {r \in Requests : phase[r] \in Asking /\ at[r] = a}

Refreshers(a) == {r \in Requests : task[r][a] # "none"}

(* inflight counts the requests that are using the account, on every path  *)
(* through ServeHTTP: the number ranks the accounts and is shown as 在途.   *)
InflightIsExact == \A a \in Accounts : inflight[a] = Cardinality(Users(a))

(* An account is kept out exactly as long as one of its refresh goroutines *)
(* exists, however many 429s started one.                                  *)
HoldIsExact == \A a \in Accounts : refreshing[a] = Cardinality(Refreshers(a))

Picked(r, a) == a \notin tried[r] /\ a \in tried'[r]

(* No request is sent to an account whose usage is being read after a 429. *)
RefreshKeepsOut ==
    [][\A r \in Requests, a \in Accounts :
          Picked(r, a) => \A q \in Requests : task[q][a] = "none"]_vars

(* A request shares an account only when every account it could use is in  *)
(* use by at least as many requests.                                       *)
LeastBusyFirst ==
    [][\A r \in Requests, a \in Accounts :
          Picked(r, a) => \A b \in Eligible(r) : Cardinality(Users(a)) <= Cardinality(Users(b))]_vars

(* Every request is answered.                                              *)
EveryRequestIsAnswered ==
    \A r \in Requests : phase[r] # "idle" ~> phase[r] \in {"done", "lost"}

(* An account that is kept out for a refresh comes back.                   *)
HeldAccountReturns == \A a \in Accounts : refreshing[a] > 0 ~> refreshing[a] = 0
=============================================================================
