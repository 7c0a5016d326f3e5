------------------------------ MODULE Auditing ------------------------------
(***************************************************************************)
(* Audit events, from the request to the webhook.                          *)
(*                                                                         *)
(* Front: the filter WithAuditing (pkg/apiserver/filters/auditing.go)      *)
(* makes an event of every request and, once the handler has answered,     *)
(* completes and caches it in a goroutine of its own (LogRequestObject and *)
(* LogResponseObject of pkg/apiserver/auditing/types.go).  Logins and      *)
(* logouts go through variables of the package that all requests share     *)
(* without a lock; every statement that uses such a variable, or an event  *)
(* that another request may hold, is a step.  cacheEvent copies an event   *)
(* but not what its pointers point to: the Reason of a copy is the one of  *)
(* the status it shares with the event.                                    *)
(*                                                                         *)
(* Back: the worker of pkg/apiserver/auditing/backend.go collects events   *)
(* into batches; for every batch sendEvents starts send, which takes one   *)
(* of a limited number of sender slots, posts the batch and reports back.  *)
(***************************************************************************)
EXTENDS Integers, SequencesExt, FiniteSetsExt

CONSTANTS
  Requests,     \* HTTP requests
  User,         \* User[r]: the user r names or is made by
  CacheSize,    \* DefaultCacheCapacity
  BatchSize,    \* eventBatchSize
  SendersNum,   \* capacity of senderCh
  Workloads     \* bound: what the requests may be and how many batches there may be

\* Password and refresh grants at /oauth/token, /oauth/logout, a request with an
\* expired token, any other request.
RequestKinds == {"login", "refresh", "logout", "expired", "other"}

\* A nil event, and the name of the user of an event while it is not known.
None == "none"
Unnamed == "waitforchange"

\* The status a request allocates in LogRequestObject, the one it allocates in
\* LogResponseObject, and the nil pointer.
RequestStatus(r) == <<r, "request">>
ResponseStatus(r) == <<r, "response">>
Statuses == Requests \X {"request", "response"}
Nil == <<None, "nil">>

ASSUME AuditAssumption ==
  /\ Workloads \subseteq [kinds : [Requests -> SUBSET RequestKinds], batches : Nat]
  /\ \A r \in Requests : User[r] # Unnamed
  /\ None \notin Requests
  /\ {CacheSize, BatchSize, SendersNum} \subseteq Nat \ {0}

VARIABLES
  load,           \* the workload: a member of Workloads
  req,            \* req[r]: the local state of request r
  event,          \* event[r]: the event object that request r makes
  reason,         \* reason[p]: the Reason of status p
  loginevent,     \* the request whose event the variable loginevent points to
  loginUserName, loginerr, islogin,
  cache,          \* the channel of events
  items,          \* the events getEvents has collected
  stopped,        \* stopCh was closed and the worker has ended
  batches,        \* batches[n]: the n-th batch and its two goroutines
  slots,          \* the number of elements in senderCh
  accepted,       \* history: the events that entered the cache
  dropped,        \* history: the events the worker had collected when it ended
  alone           \* history: the requests that met no other login or logout

heap == <<event, reason>>
loginVars == <<loginevent, loginUserName, loginerr, islogin>>
backVars == <<items, stopped, batches, slots, dropped>>
vars == <<load, req, heap, loginVars, cache, backVars, accepted, alone>>

-----------------------------------------------------------------------------
(* The front.  kind says what a request is, ok how a login ends, e the event *)
(* it has in hand (nil, its own, or another's that loginevent pointed to),   *)
(* out the copy cacheEvent puts into the channel and then what comes after   *)
(* that.  A request whose own goroutine panics is given up by net/http       *)
(* ("panic"); a panic of the goroutine of LogResponseObject ends the process *)
(* ("crash").                                                                *)

\* An event as it is allocated: without a status.
Object(user, ips) == [user |-> user, ips |-> ips, status |-> Nil]

\* *e, as request r copies it: the user is copied, the status is shared.
Copy(r, o, user, status) == [by |-> r, req |-> o, user |-> user, status |-> status]

Init ==
  /\ load \in Workloads
  /\ req = [r \in Requests |->
              [pc |-> "new", kind |-> "other", ok |-> FALSE, e |-> None,
               out |-> Copy(r, r, "", Nil), then |-> "done"]]
  /\ event = [r \in Requests |-> Object("", FALSE)]
  /\ reason = [p \in Statuses |-> ""]
  /\ loginevent = None /\ loginUserName = "" /\ loginerr = TRUE /\ islogin = FALSE
  /\ cache = <<>> /\ items = <<>> /\ stopped = FALSE
  /\ batches = <<>> /\ slots = 0
  /\ accepted = <<>> /\ dropped = <<>> /\ alone = {}

At(r, pc) == req[r].pc = pc
Goto(r, pc) == req' = [req EXCEPT ![r].pc = pc]

\* The requests that are using the login variables.
InFlight ==
  {r \in Requests : req[r].kind # "other" /\ req[r].pc \notin {"new", "done", "panic"}}

\* History: request r, which is of kind k, starts, alone or not.
Starts(r, k) ==
  alone' = IF k = "other" THEN alone
           ELSE IF InFlight = {} THEN alone \cup {r} ELSE alone \ InFlight

\* cacheEvent(*o) is called.
CacheEvent(r, o) ==
  req' = [req EXCEPT ![r].pc = "cache", ![r].then = "done",
                     ![r].out = Copy(r, o, event[o].user, event[o].status)]

\* The Reason of event o is written through its status; without one that is a
\* panic.
SetReason(r, o, text, pc, panic) ==
  LET p == event[o].status IN
  IF p = Nil THEN Goto(r, panic) /\ UNCHANGED reason
  ELSE Goto(r, pc) /\ reason' = [reason EXCEPT ![p] = text]

SetUser(o, user) == event' = [event EXCEPT ![o].user = user]
SetStatus(o, p) == event' = [event EXCEPT ![o].status = p]

\* LogRequestObject while auditing is disabled: no event.
LogNothing(r) ==
  /\ At(r, "new")
  /\ \E k \in load.kinds[r] \ {"expired"} :
       /\ Starts(r, k)
       /\ req' = [req EXCEPT ![r].kind = k,
                             ![r].pc = IF k = "login" THEN "handle" ELSE "done"]
  /\ UNCHANGED <<heap, loginVars, cache, backVars, accepted>>

\* LogRequestObject of a token request makes loginevent point to a new event ...
LogToken(r) ==
  /\ At(r, "new")
  /\ \E k \in load.kinds[r] \cap {"login", "refresh"} :
       /\ Starts(r, k)
       /\ req' = [req EXCEPT ![r].kind = k, ![r].pc = "mark"]
  /\ loginevent' = r
  /\ UNCHANGED <<heap, loginUserName, loginerr, islogin, cache, backVars, accepted>>

\* ... whose user is to be filled in later ...
TokenUser(r) ==
  /\ At(r, "mark")
  /\ SetUser(loginevent, Unnamed)
  /\ Goto(r, "source")
  /\ UNCHANGED <<reason, loginVars, cache, backVars, accepted, alone>>

\* Mutant of TokenSource: nothing is set when getloginip gives no address.
TokenSourceMaybe(r) ==
  /\ At(r, "source")
  /\ \E got \in BOOLEAN : event' = [event EXCEPT ![loginevent].ips = got]
  /\ Goto(r, "status")
  /\ UNCHANGED <<reason, loginVars, cache, backVars, accepted, alone>>

\* ... and completes it through the variable: the address, once getloginip has
\* got it from its service, ...
TokenSource(r) ==
  /\ At(r, "source")
  /\ event' = [event EXCEPT ![loginevent].ips = TRUE]
  /\ Goto(r, "status")
  /\ UNCHANGED <<reason, loginVars, cache, backVars, accepted, alone>>

\* ... a status ...
TokenStatus(r) ==
  /\ At(r, "status")
  /\ SetStatus(loginevent, RequestStatus(r))
  /\ Goto(r, "reason")
  /\ UNCHANGED <<reason, loginVars, cache, backVars, accepted, alone>>

\* ... and the Reason in it.
TokenReason(r) ==
  /\ At(r, "reason")
  /\ SetReason(r, loginevent, "Login successfully", "return", "panic")
  /\ UNCHANGED <<event, loginVars, cache, backVars, accepted, alone>>

\* The event that loginevent points to by now is what LogRequestObject returns.
TokenReturn(r) ==
  /\ At(r, "return")
  /\ req' = [req EXCEPT ![r].e = loginevent,
                        ![r].pc = IF req[r].kind = "login" THEN "handle" ELSE "respond"]
  /\ UNCHANGED <<heap, loginVars, cache, backVars, accepted, alone>>

\* LogRequestObject of a logout: a copy is recorded at once, with a status that
\* the event which is returned does not have, ...
LogLogout(r) ==
  /\ At(r, "new") /\ "logout" \in load.kinds[r]
  /\ Starts(r, "logout")
  /\ islogin' = FALSE
  /\ event' = [event EXCEPT ![r] = Object(User[r], TRUE)]
  /\ reason' = [reason EXCEPT ![RequestStatus(r)] = "Logout successfully"]
  /\ req' = [req EXCEPT ![r] =
               [@ EXCEPT !.kind = "logout", !.e = r, !.pc = "cache",
                         !.out = Copy(r, r, User[r], RequestStatus(r)),
                         !.then = "respond"]]
  /\ UNCHANGED <<loginevent, loginUserName, loginerr, cache, backVars, accepted>>

\* ... and of any other request.
LogOther(r) ==
  /\ At(r, "new") /\ "other" \in load.kinds[r]
  /\ event' = [event EXCEPT ![r] = Object(User[r], TRUE)]
  /\ req' = [req EXCEPT ![r].e = r, ![r].pc = "respond"]
  /\ UNCHANGED <<reason, loginVars, cache, backVars, accepted, alone>>

\* passwordGrant, which ends with SetLoginUserName: first the outcome ...
SetLoginErr(r) ==
  /\ At(r, "handle")
  /\ \E ok \in BOOLEAN :
       /\ loginerr' = ~ok
       /\ req' = [req EXCEPT ![r].pc = "name", ![r].ok = ok]
  /\ UNCHANGED <<heap, loginevent, loginUserName, islogin, cache, backVars, accepted,
                 alone>>

\* ... then the name.
SetLoginUserName(r) ==
  /\ At(r, "name")
  /\ loginUserName' = User[r]
  /\ Goto(r, IF req[r].e = None THEN "done" ELSE "respond")
  /\ UNCHANGED <<heap, loginevent, loginerr, islogin, cache, backVars, accepted, alone>>

\* LogResponseObject: an event that waits for its user is a login's ...
LogResponseObject(r) ==
  /\ At(r, "respond")
  /\ Goto(r, IF event[req[r].e].user = Unnamed THEN "login" ELSE "code")
  /\ UNCHANGED <<heap, loginVars, cache, backVars, accepted, alone>>

\* ... and is recorded unless one is recorded already ...
LogLogin(r) ==
  /\ At(r, "login")
  /\ Goto(r, IF islogin THEN "done" ELSE "outcome")
  /\ UNCHANGED <<heap, loginVars, cache, backVars, accepted, alone>>

\* Mutant of LogOutcome: the outcome is not looked at.
LogOutcomeAlways(r) ==
  /\ At(r, "outcome")
  /\ Goto(r, "succeeded")
  /\ UNCHANGED <<heap, loginVars, cache, backVars, accepted, alone>>

\* ... with its outcome ...
LogOutcome(r) ==
  /\ At(r, "outcome")
  /\ Goto(r, IF loginerr THEN "failed" ELSE "succeeded")
  /\ UNCHANGED <<heap, loginVars, cache, backVars, accepted, alone>>

LogFailed(r) ==
  /\ At(r, "failed")
  /\ SetReason(r, req[r].e, "Login failed", "label", "crash")
  /\ UNCHANGED <<event, loginVars, cache, backVars, accepted, alone>>

LogSucceeded(r) ==
  /\ At(r, "succeeded")
  /\ islogin' = TRUE
  /\ Goto(r, "address")
  /\ UNCHANGED <<heap, loginevent, loginUserName, loginerr, cache, backVars, accepted,
                 alone>>

\* ... (loginip is read from the event, which is a panic if it has none) ...
LogAddress(r) ==
  /\ At(r, "address")
  /\ Goto(r, IF event[req[r].e].ips THEN "label" ELSE "crash")
  /\ UNCHANGED <<heap, loginVars, cache, backVars, accepted, alone>>

\* ... and its name.
LogUserName(r) ==
  /\ At(r, "label")
  /\ SetUser(req[r].e, loginUserName)
  /\ Goto(r, "copy")
  /\ UNCHANGED <<reason, loginVars, cache, backVars, accepted, alone>>

\* LogResponseObject of any other event: a new status with the response's code.
LogCode(r) ==
  /\ At(r, "code")
  /\ SetStatus(req[r].e, ResponseStatus(r))
  /\ reason' = [reason EXCEPT ![ResponseStatus(r)] = "code"]
  /\ Goto(r, "copy")
  /\ UNCHANGED <<loginVars, cache, backVars, accepted, alone>>

\* Either way the event is cached as it is by now.
LogCopy(r) ==
  /\ At(r, "copy")
  /\ CacheEvent(r, req[r].e)
  /\ UNCHANGED <<heap, loginVars, cache, backVars, accepted, alone>>

\* Verify finds an expired token and calls SendLogout, which does nothing unless
\* a login is recorded.
Verify(r) ==
  /\ At(r, "new") /\ "expired" \in load.kinds[r]
  /\ Starts(r, "expired")
  /\ req' = [req EXCEPT ![r].kind = "expired",
                        ![r].pc = IF islogin THEN "logout" ELSE "done"]
  /\ UNCHANGED <<heap, loginVars, cache, backVars, accepted>>

\* SendLogout turns the event loginevent points to, whosever it is, into a
\* logout, step by step, and caches a copy.
LogoutBegin(r) ==
  /\ At(r, "logout")
  /\ islogin' = FALSE
  /\ Goto(r, "logout address")
  /\ UNCHANGED <<heap, loginevent, loginUserName, loginerr, cache, backVars, accepted,
                 alone>>

LogoutAddress(r) ==
  /\ At(r, "logout address")
  /\ Goto(r, IF event[loginevent].ips THEN "logout name" ELSE "panic")
  /\ UNCHANGED <<heap, loginVars, cache, backVars, accepted, alone>>

LogoutName(r) ==
  /\ At(r, "logout name")
  /\ SetUser(loginevent, loginUserName)
  /\ Goto(r, "logout reason")
  /\ UNCHANGED <<reason, loginVars, cache, backVars, accepted, alone>>

LogoutReason(r) ==
  /\ At(r, "logout reason")
  /\ SetReason(r, loginevent, "Logout successfully", "logout copy", "panic")
  /\ UNCHANGED <<event, loginVars, cache, backVars, accepted, alone>>

SendLogout(r) ==
  /\ At(r, "logout copy")
  /\ CacheEvent(r, loginevent)
  /\ UNCHANGED <<heap, loginVars, cache, backVars, accepted, alone>>

\* cacheEvent: the event enters the channel ...
Enqueue(r) ==
  /\ At(r, "cache") /\ Len(cache) < CacheSize
  /\ cache' = Append(cache, req[r].out)
  /\ accepted' = Append(accepted, req[r].out)
  /\ Goto(r, req[r].then)
  /\ UNCHANGED <<heap, loginVars, backVars, alone>>

\* ... or the channel stays full for CacheTimeout and the event is dropped.
CacheTimeout(r) ==
  /\ At(r, "cache") /\ Len(cache) = CacheSize
  /\ Goto(r, req[r].then)
  /\ UNCHANGED <<heap, loginVars, cache, backVars, accepted, alone>>

-----------------------------------------------------------------------------
(* The worker.                                                               *)

\* A batch: its events, where sendEvents (se) and send (sn) are, and whether
\* sendEvents gave up waiting.
Batch(es) == [events |-> es, se |-> "wait", sn |-> "acquire", late |-> FALSE]

\* getEvents returns es and the worker starts sendEvents.
Dispatch(es) ==
  /\ Len(batches) < load.batches
  /\ batches' = Append(batches, Batch(es))
  /\ items' = <<>>

\* Mutant of Collect: a batch keeps the event that filled it for the next one.
CollectTwice ==
  LET es == Append(items, Head(cache)) IN
  /\ ~stopped /\ cache # <<>>
  /\ cache' = Tail(cache)
  /\ IF Len(es) >= BatchSize
     THEN /\ Len(batches) < load.batches
          /\ batches' = Append(batches, Batch(es)) /\ items' = <<Head(cache)>>
     ELSE items' = es /\ UNCHANGED batches
  /\ UNCHANGED <<req, heap, loginVars, stopped, slots, accepted, dropped, alone>>

\* Mutant of Collect: getEvents waits for one event more.
CollectOver ==
  LET es == Append(items, Head(cache)) IN
  /\ ~stopped /\ cache # <<>>
  /\ cache' = Tail(cache)
  /\ IF Len(es) > BatchSize THEN Dispatch(es)
     ELSE items' = es /\ UNCHANGED batches
  /\ UNCHANGED <<req, heap, loginVars, stopped, slots, accepted, dropped, alone>>

\* getEvents takes an event and returns when the batch is full.
Collect ==
  LET es == Append(items, Head(cache)) IN
  /\ ~stopped /\ cache # <<>>
  /\ cache' = Tail(cache)
  /\ IF Len(es) >= BatchSize THEN Dispatch(es)
     ELSE items' = es /\ UNCHANGED batches
  /\ UNCHANGED <<req, heap, loginVars, stopped, slots, accepted, dropped, alone>>

\* getEvents returns what it has after eventBatchInterval.
IntervalOver ==
  /\ ~stopped /\ items # <<>>
  /\ Dispatch(items)
  /\ UNCHANGED <<req, heap, loginVars, cache, stopped, slots, accepted, dropped, alone>>

\* stopCh is closed: getEvents returns nil, whatever it has collected, and the
\* worker ends.
Stop ==
  /\ ~stopped
  /\ stopped' = TRUE
  /\ items' = <<>> /\ dropped' = items
  /\ UNCHANGED <<req, heap, loginVars, cache, batches, slots, accepted, alone>>

-----------------------------------------------------------------------------
(* sendEvents and send, for batch n.                                         *)

Send(n, sn) == batches' = [batches EXCEPT ![n].sn = sn]
frontVars == <<req, heap, loginVars, cache, items, stopped, accepted, dropped, alone>>

\* send gets a slot ...
Acquire(n) ==
  /\ batches[n].sn = "acquire" /\ slots < SendersNum
  /\ slots' = slots + 1
  /\ Send(n, "post")
  /\ UNCHANGED frontVars

\* ... or none becomes free within getSenderTimeout.
AcquireTimeout(n) ==
  /\ batches[n].sn = "acquire" /\ slots = SendersNum
  /\ Send(n, "gone")
  /\ UNCHANGED <<frontVars, slots>>

\* Mutant of Posted: the slot is given back here, as well as by sendEvents.
PostedReleasing(n) ==
  /\ batches[n].sn = "post"
  /\ slots' = slots - 1
  /\ Send(n, "report")
  /\ UNCHANGED frontVars

\* The webhook answers, or does not within the client's timeout.
Posted(n) ==
  /\ batches[n].sn = "post"
  /\ Send(n, "report")
  /\ UNCHANGED <<frontVars, slots>>

\* send writes to stopCh, which is not buffered: sendEvents must be waiting.
Report(n) ==
  /\ batches[n].sn = "report" /\ batches[n].se = "wait"
  /\ batches' = [batches EXCEPT ![n].sn = "done", ![n].se = "release"]
  /\ UNCHANGED <<frontVars, slots>>

\* sendTimeout passes.  It is longer than getSenderTimeout, so that send has a
\* slot, or has given up, by then.
SendTimeout(n) ==
  /\ batches[n].se = "wait" /\ batches[n].sn # "acquire"
  /\ batches' = [batches EXCEPT ![n].se = "release", ![n].late = TRUE]
  /\ UNCHANGED <<frontVars, slots>>

\* The deferred function of sendEvents takes an element out of senderCh.
ReleaseSlot(n) ==
  /\ batches[n].se = "release" /\ slots > 0
  /\ slots' = slots - 1
  /\ batches' = [batches EXCEPT ![n].se = "done"]
  /\ UNCHANGED frontVars

-----------------------------------------------------------------------------
TokenStep(r) ==
  \/ LogToken(r) \/ TokenUser(r) \/ TokenSource(r) \/ TokenStatus(r)
  \/ TokenReason(r) \/ TokenReturn(r)

ResponseStep(r) ==
  \/ LogResponseObject(r) \/ LogLogin(r) \/ LogOutcome(r) \/ LogFailed(r)
  \/ LogSucceeded(r) \/ LogAddress(r) \/ LogUserName(r) \/ LogCode(r) \/ LogCopy(r)

LogoutStep(r) ==
  \/ Verify(r) \/ LogoutBegin(r) \/ LogoutAddress(r) \/ LogoutName(r)
  \/ LogoutReason(r) \/ SendLogout(r)

RequestStep(r) ==
  \/ LogNothing(r) \/ TokenStep(r) \/ LogLogout(r) \/ LogOther(r) \/ SetLoginErr(r)
  \/ SetLoginUserName(r) \/ ResponseStep(r) \/ LogoutStep(r) \/ Enqueue(r)
  \/ CacheTimeout(r)

SenderStep(n) ==
  \/ Acquire(n) \/ AcquireTimeout(n) \/ Posted(n) \/ Report(n)
  \/ SendTimeout(n) \/ ReleaseSlot(n)

\* The process runs.
Running == \A r \in Requests : ~At(r, "crash")

Next ==
  /\ Running /\ UNCHANGED load
  /\ \/ \E r \in Requests : RequestStep(r)
     \/ Collect \/ IntervalOver \/ Stop
     \/ \E n \in DOMAIN batches : SenderStep(n)

Spec == Init /\ [][Next]_vars

-----------------------------------------------------------------------------
Names == {User[r] : r \in Requests} \cup {"", Unnamed}
Reasons == {"", "code", "Login successfully", "Login failed", "Logout successfully"}
Copies == [by : Requests, req : Requests, user : Names, status : Statuses \cup {Nil}]

\* The types of what requests share and hand on.
TypeOK ==
  /\ event \in [Requests -> [user : Names, ips : BOOLEAN, status : Statuses \cup {Nil}]]
  /\ reason \in [Statuses -> Reasons]
  /\ loginevent \in Requests \cup {None}
  /\ \A r \in Requests : /\ req[r].out \in Copies
                         /\ req[r].e \in Requests \cup {None}
  /\ Len(cache) <= CacheSize /\ Len(items) < BatchSize
  /\ slots \in 0..SendersNum

EventsOf(bs) == [n \in DOMAIN bs |-> bs[n].events]

(***************************************************************************)
(* Between the cache and the senders no event is lost, repeated or moved   *)
(* while the worker runs: the batches in the order of their dispatch, then *)
(* what getEvents holds, then the cache are the events that were accepted, *)
(* in that order.  When the worker ends, the events of a batch that was    *)
(* not full are dropped, and no others.                                    *)
(***************************************************************************)
OnceInOrder ==
  /\ accepted = FlattenSeq(EventsOf(batches)) \o dropped \o items \o cache
  /\ Len(dropped) < BatchSize
  /\ dropped # <<>> => stopped /\ items = <<>>

Posting == {n \in DOMAIN batches : batches[n].sn = "post"}

(***************************************************************************)
(* No more batches are posted at a time than there are sender slots.       *)
(***************************************************************************)
SendersBounded == Cardinality(Posting) <= SendersNum

\* The batches an element of senderCh belongs to.
Using == {n \in DOMAIN batches : \/ batches[n].sn \in {"post", "report"}
                                 \/ batches[n].se = "release"}

(***************************************************************************)
(* As long as no sendEvents has timed out, at most SendersNum batches are  *)
(* posted at a time, every element of senderCh belongs to a batch that is  *)
(* being posted or has its slot still to give back (so that no sendEvents  *)
(* waits to release), and sendEvents listens when send wants to report (so *)
(* that send ends).                                                        *)
(***************************************************************************)
TimelySenders ==
  (\A n \in DOMAIN batches : ~batches[n].late) =>
    /\ SendersBounded
    /\ slots = Cardinality(Using)
    /\ \A n \in DOMAIN batches : batches[n].sn = "report" => batches[n].se = "wait"

\* How login r ended, and whether some expired token was met.
Outcome(r) == IF req[r].ok THEN "Login successfully" ELSE "Login failed"
Expired == \E x \in Requests : req[x].kind = "expired"

(***************************************************************************)
(* What a login that met no other token request, logout or expired token   *)
(* records, if anything, has its own user and its own outcome, although    *)
(* both travel through variables that every login overwrites and the event *)
(* is completed after the answer was sent.  Whenever the record is looked  *)
(* at later, in the cache, in a batch or as it is posted, that is so, but  *)
(* for one thing: an expired token that comes after a login that succeeded *)
(* turns the record, through the status it shares, into a logout.          *)
(***************************************************************************)
LoneLoginTruthful ==
  \A n \in DOMAIN accepted :
    LET c == accepted[n] IN
    req[c.req].kind = "login" /\ c.req \in alone /\ c.by = c.req =>
      /\ c.user = User[c.req]
      /\ \/ reason[c.status] = Outcome(c.req)
         \/ reason[c.status] = "Logout successfully" /\ req[c.req].ok /\ Expired

(***************************************************************************)
(* A request dereferences no nil pointer of an event, which would end the  *)
(* request or the whole process, unless it meets another login or logout:  *)
(* an expired token that comes when no token request is under way finds    *)
(* the last login's event complete, whatever races there were before.      *)
(***************************************************************************)
LoneNeverPanics == \A r \in alone : req[r].pc \notin {"panic", "crash"}
=============================================================================
