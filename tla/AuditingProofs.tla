--------------------------- MODULE AuditingProofs ---------------------------
(***************************************************************************)
(* Proofs about Auditing, for any set of requests, any workload and any    *)
(* capacity of the cache, the batches and the senders.  The invariant has  *)
(* two halves: the requests with the login variables, the events and the   *)
(* statuses they share, and the worker with its batches.  They meet in the *)
(* events that were accepted.                                              *)
(***************************************************************************)
EXTENDS Auditing, ListFacts

-----------------------------------------------------------------------------
(* The inductive invariant of the requests.                                  *)

TokenKinds == {"login", "refresh"}

\* Where a request is while it fills in the event loginevent points to; while its
\* event is one whose user is not known; while it makes a logout of an event; and
\* while its status is not allocated.
TokenPlaces == {"mark", "source", "status", "reason", "return"}
LoginPlaces == {"login", "outcome", "failed", "succeeded", "address", "label"}
LogoutPlaces == {"logout", "logout address", "logout name", "logout reason", "logout copy"}
FreshPlaces == {"new", "mark", "source", "status"}

Places ==
  TokenPlaces \cup LoginPlaces \cup LogoutPlaces
    \cup {"new", "handle", "name", "respond", "code", "copy", "cache", "done", "panic",
          "crash"}

RequestState ==
  [pc : Places, kind : RequestKinds, ok : BOOLEAN, e : Requests \cup {None},
   out : Copies, then : {"done", "respond"}]
EventState == [user : Names, ips : BOOLEAN, status : Statuses \cup {Nil}]
UserNames == {User[r] : r \in Requests} \cup {""}

FrontType ==
  /\ req \in [Requests -> RequestState]
  /\ event \in [Requests -> EventState]
  /\ reason \in [Statuses -> Reasons]
  /\ loginevent \in Requests \cup {None} /\ loginUserName \in UserNames
  /\ loginerr \in BOOLEAN /\ islogin \in BOOLEAN
  /\ alone \in SUBSET Requests
  /\ accepted \in Seq(Copies)
  /\ load \in Workloads

\* What is known of a request wherever it is.
RequestInv(r) ==
  /\ req[r].pc = "new" => req[r].kind = "other" /\ req[r].e = None
  /\ req[r].pc \in TokenPlaces => loginevent # None /\ req[r].kind \in TokenKinds
  /\ req[r].pc \in {"handle", "name"} => req[r].kind = "login"
  /\ req[r].pc \in LoginPlaces => loginevent # None /\ req[r].kind \in TokenKinds
  /\ req[r].pc \in LoginPlaces \cup {"respond", "code", "copy"} => req[r].e # None
  /\ req[r].pc \in LogoutPlaces => loginevent # None /\ req[r].kind = "expired"
  /\ req[r].kind \notin TokenKinds => req[r].e \in {None, r}
  /\ req[r].kind = "login" => req[r].then = "done"
  /\ req[r].then = "respond" => req[r].e # None
  /\ req[r].pc = "cache" => req[r].out.by = r

\* The events of others that requests have in hand, and events without a user,
\* are token requests'; a status that is not allocated is in no event.
HeapInv ==
  /\ islogin => loginevent # None
  /\ \A x \in Requests : LET o == req[x].e IN
       o \notin {None, x} => req[o].kind \in TokenKinds
  /\ \A x \in Requests : event[x].user = Unnamed =>
       loginevent # None /\ req[x].kind \in TokenKinds
  /\ \A x, y \in Requests :
       req[x].pc \in FreshPlaces => event[y].status # RequestStatus(x)

\* The request whose event loginevent points to completes it and goes on with it.
LastInv(p) ==
  /\ req[p].kind \in TokenKinds /\ req[p].pc \notin {"new", "panic", "crash"}
  /\ req[p].e \in {None, p}
  /\ req[p].pc \notin {"mark", "source"} => event[p].ips
  /\ req[p].pc \notin FreshPlaces => event[p].status # Nil

\* Request x is between its sharing an event and the end of LogResponseObject.
Busy(x) ==
  /\ req[x].kind \in TokenKinds /\ req[x].pc \notin {"new", "done", "panic"}
  /\ req[x].pc \in TokenPlaces \/ req[x].e # None

\* The event and the status of lone token request r are its own: no other has them
\* in hand, and none can get them while loginevent points to the event.
Apart(r) ==
  /\ Busy(r) => loginevent = r
  /\ \A x \in Requests : x # r => req[x].e # r /\ event[x].status # RequestStatus(r)
  /\ loginevent = r => \A x \in Requests : x # r => ~Busy(x)

\* The login variables and the event of lone login r have its own outcome and name,
\* as far as they are written and until the event is cached; if it is recorded, no
\* login was.
LoneLogin(r) ==
  LET at(S) == req[r].pc \in S
      held == req[r].e # None
      status == event[r].status = RequestStatus(r)
      waits == event[r].user = Unnamed
      text == reason[RequestStatus(r)] IN
  /\ at({"source", "status"}) => waits
  /\ at({"reason"}) => waits /\ status
  /\ at({"return"}) => waits /\ status /\ text = "Login successfully"
  /\ at({"handle", "name", "respond", "login", "outcome", "failed", "succeeded",
         "address"}) /\ held => waits /\ status /\ text = "Login successfully"
  /\ at({"label", "copy"}) => status /\ text = Outcome(r)
  /\ at({"name", "respond", "login", "outcome"}) => loginerr = ~req[r].ok
  /\ at({"respond", "login", "outcome", "failed", "succeeded", "address", "label"}) =>
       loginUserName = User[r]
  /\ at({"outcome", "failed", "succeeded"}) => ~islogin
  /\ at({"failed"}) => ~req[r].ok
  /\ at({"succeeded", "address"}) => req[r].ok
  /\ at({"label", "copy", "cache"}) => (islogin => req[r].ok)
  /\ at({"copy"}) => event[r].user = User[r]
  /\ at({"cache"}) => /\ text = Outcome(r)
                      /\ req[r].out = Copy(r, r, User[r], RequestStatus(r))
  /\ ~at({"code"})

\* A request that has met no other token request, logout or expired token is the
\* only one that uses the login variables.
LoneInv(r) ==
  /\ req[r].kind # "other" /\ req[r].pc \notin {"panic", "crash"}
  /\ r \in InFlight => InFlight = {r}
  /\ req[r].kind \in TokenKinds => Apart(r)
  /\ req[r].kind = "login" => LoneLogin(r)

\* What lone login r has recorded stays, but for SendLogout, which changes it only
\* if r succeeded.
Kept(r) ==
  /\ req[r].pc = "done"
  /\ \/ reason[RequestStatus(r)] = Outcome(r)
     \/ reason[RequestStatus(r)] = "Logout successfully" /\ req[r].ok /\ Expired
  /\ loginevent = r /\ (islogin \/ \E x \in Requests : req[x].pc \in LogoutPlaces) =>
       req[r].ok

RecordInv ==
  \A n \in DOMAIN accepted : LET c == accepted[n] IN
    /\ req[c.by].pc # "new"
    /\ c.by = c.req /\ c.by \in alone /\ req[c.by].kind = "login" =>
         c = Copy(c.by, c.by, User[c.by], RequestStatus(c.by)) /\ Kept(c.by)

FrontInv ==
  /\ FrontType
  /\ \A r \in Requests : RequestInv(r)
  /\ HeapInv
  /\ loginevent # None => LastInv(loginevent)
  /\ \A r \in alone : LoneInv(r)
  /\ RecordInv
-----------------------------------------------------------------------------
(* The inductive invariant of the worker and the senders.                    *)

BatchState ==
  [events : Seq(Copies), se : {"wait", "release", "done"},
   sn : {"acquire", "post", "report", "done", "gone"}, late : BOOLEAN]

BackType ==
  /\ cache \in Seq(Copies) /\ Len(cache) <= CacheSize
  /\ items \in Seq(Copies) /\ Len(items) < BatchSize
  /\ dropped \in Seq(Copies)
  /\ batches \in Seq(BatchState)
  /\ slots \in 0..SendersNum

Timely == \A n \in DOMAIN batches : ~batches[n].late

\* Until a sendEvents gives up, send reports before sendEvents releases, and an
\* element of senderCh is there for every batch between the two.
SenderInv ==
  /\ \A n \in DOMAIN batches : batches[n].sn = "acquire" => batches[n].se = "wait"
  /\ Timely =>
       /\ slots = Cardinality(Using)
       /\ \A n \in DOMAIN batches :
            batches[n].sn = "done" <=> batches[n].se \in {"release", "done"}

BackInv == BackType /\ SenderInv /\ OnceInOrder

-----------------------------------------------------------------------------
(* The worker and the senders.                                               *)

\* The capacities are positive.
LEMMA Capacities ==
  /\ CacheSize \in Nat \ {0} /\ BatchSize \in Nat \ {0} /\ SendersNum \in Nat \ {0}
BY AuditAssumption

\* The events of the batches are a list of lists.
LEMMA EventsOfType ==
  ASSUME NEW bs \in Seq(BatchState)
  PROVE  EventsOf(bs) \in Seq(Seq(Copies)) /\ Len(EventsOf(bs)) = Len(bs)
<1>1. /\ Len(bs) \in Nat /\ DOMAIN bs = 1..Len(bs)
      /\ \A n \in 1..Len(bs) : bs[n] \in BatchState
  BY LenProperties, ElementOfSeq
<1>2. \A n \in 1..Len(bs) : bs[n].events \in Seq(Copies)
  BY <1>1 DEF BatchState
<1>3. EventsOf(bs) \in [1..Len(bs) -> Seq(Copies)]
  BY <1>1, <1>2 DEF EventsOf
<1> QED BY <1>1, <1>3

\* A batch is dispatched.
LEMMA EventsOfAppend ==
  ASSUME NEW bs \in Seq(BatchState), NEW b \in BatchState
  PROVE  EventsOf(Append(bs, b)) = Append(EventsOf(bs), b.events)
<1> DEFINE t == Append(bs, b)  n == Len(bs)
           u == EventsOf(t)  v == Append(EventsOf(bs), b.events)
<1>1. /\ t \in Seq(BatchState) /\ Len(t) = n + 1
      /\ \A i \in 1..n : t[i] = bs[i]
      /\ t[n + 1] = b
  BY AppendProperties
<1>2. n \in Nat /\ DOMAIN bs = 1..n /\ DOMAIN t = 1..(n + 1)
  BY <1>1, LenProperties
<1>3. b.events \in Seq(Copies)
  BY DEF BatchState
<1>4. /\ EventsOf(bs) \in Seq(Seq(Copies)) /\ Len(EventsOf(bs)) = n
      /\ u \in Seq(Seq(Copies)) /\ Len(u) = n + 1
  BY <1>1, EventsOfType
<1>5. /\ v \in Seq(Seq(Copies)) /\ Len(v) = n + 1
      /\ \A i \in 1..n : v[i] = EventsOf(bs)[i]
      /\ v[n + 1] = b.events
  BY <1>3, <1>4, AppendProperties
<1>6. /\ \A i \in 1..n : EventsOf(bs)[i] = bs[i].events
      /\ \A i \in 1..(n + 1) : u[i] = t[i].events
  BY <1>2 DEF EventsOf
<1>7. \A i \in 1..(n + 1) : u[i] = v[i]
  BY <1>1, <1>2, <1>5, <1>6
<1> HIDE DEF u, v, t, n
<1>8. u = v
  BY <1>4, <1>5, <1>7, SeqEqual
<1> QED BY <1>8 DEF u, v, t

\* A step of sendEvents or send changes one batch and none of its events.
LEMMA OneBatch ==
  ASSUME NEW bs \in Seq(BatchState), NEW m \in DOMAIN bs, NEW b \in BatchState,
         b.events = bs[m].events
  PROVE  LET t == [bs EXCEPT ![m] = b] IN
         /\ t \in Seq(BatchState) /\ DOMAIN t = DOMAIN bs
         /\ \A n \in DOMAIN bs : t[n] = IF n = m THEN b ELSE bs[n]
         /\ EventsOf(t) = EventsOf(bs)
<1> DEFINE t == [bs EXCEPT ![m] = b]
<1>1. Len(bs) \in Nat /\ DOMAIN bs = 1..Len(bs) /\ m \in 1..Len(bs)
  BY LenProperties
<1>2. t \in Seq(BatchState) /\ DOMAIN t = DOMAIN bs
  BY <1>1, ExceptSeq, LenProperties
<1>3. \A n \in DOMAIN bs : t[n] = IF n = m THEN b ELSE bs[n]
  OBVIOUS
<1>4. EventsOf(t) = EventsOf(bs)
  BY <1>2, <1>3 DEF EventsOf
<1> QED BY <1>2, <1>3, <1>4

\* The set of batches with an element of senderCh is finite.
LEMMA UsingFinite ==
  ASSUME batches \in Seq(BatchState)
  PROVE  IsFiniteSet(Using) /\ Cardinality(Using) \in Nat
<1>1. IsFiniteSet(DOMAIN batches)
  BY LenProperties, FS_Interval
<1>2. Using \in SUBSET DOMAIN batches
  BY DEF Using
<1> QED BY <1>1, <1>2, FS_Subset, FS_CardinalityType

\* The events of the batches, flattened, are a list of events; a new batch adds
\* its own at the end.
LEMMA Dispatched ==
  ASSUME batches \in Seq(BatchState), NEW es \in Seq(Copies)
  PROVE  /\ FlattenSeq(EventsOf(batches)) \in Seq(Copies)
         /\ Batch(es) \in BatchState
         /\ FlattenSeq(EventsOf(Append(batches, Batch(es)))) =
              FlattenSeq(EventsOf(batches)) \o es
<1>1. Batch(es) \in BatchState /\ Batch(es).events = es
  BY DEF Batch, BatchState
<1>2. EventsOf(Append(batches, Batch(es))) = Append(EventsOf(batches), es)
  BY <1>1, EventsOfAppend
<1>3. EventsOf(batches) \in Seq(Seq(Copies))
  BY EventsOfType
<1> QED BY <1>1, <1>2, <1>3, FlattenAppend

\* A new batch waits for a slot.
LEMMA DispatchSenders ==
  ASSUME BackType, SenderInv, NEW es \in Seq(Copies), Dispatch(es), UNCHANGED slots
  PROVE  batches' \in Seq(BatchState) /\ SenderInv'
<1> DEFINE n == Len(batches)  b == Batch(es)
<1>1. b \in BatchState /\ b.se = "wait" /\ b.sn = "acquire" /\ b.late = FALSE
  BY DEF Batch, BatchState
<1>2. /\ batches' \in Seq(BatchState) /\ Len(batches') = n + 1
      /\ \A i \in 1..n : batches'[i] = batches[i]
      /\ batches'[n + 1] = b
  BY <1>1, AppendProperties DEF BackType, Dispatch
<1>3. n \in Nat /\ DOMAIN batches = 1..n /\ DOMAIN batches' = 1..(n + 1)
  BY <1>2, LenProperties DEF BackType
<1> HIDE DEF n, b
<1>4. \A i \in 1..(n + 1) : i \in 1..n \/ i = n + 1
  BY <1>3
<1>5. \A i \in 1..n : i \in 1..(n + 1)
  BY <1>3
<1>6. Using' = Using
  BY <1>1, <1>2, <1>3, <1>4, <1>5 DEF Using
<1>7. Timely' => Timely
  BY <1>2, <1>3, <1>5 DEF Timely
<1> QED BY <1>1, <1>2, <1>3, <1>4, <1>6, <1>7 DEF SenderInv

\* While the worker runs nothing is dropped.
LEMMA RunningOrder ==
  ASSUME BackInv, ~stopped
  PROVE  /\ dropped = <<>>
         /\ accepted = FlattenSeq(EventsOf(batches)) \o items \o cache
<1>1. dropped = <<>>
  BY DEF BackInv, OnceInOrder
<1>2. FlattenSeq(EventsOf(batches)) \in Seq(Copies)
  BY EmptySeq, Dispatched DEF BackInv, BackType
<1>3. FlattenSeq(EventsOf(batches)) \o <<>> = FlattenSeq(EventsOf(batches))
  BY <1>2, ConcatEmptySeq
<1> QED BY <1>1, <1>3 DEF BackInv, OnceInOrder

LEMMA RunningOrderKept ==
  ASSUME NEW F \in Seq(Copies), F = FlattenSeq(EventsOf(batches))', dropped = <<>>,
         dropped' = dropped, accepted' = F \o items' \o cache'
  PROVE  OnceInOrder'
<1>1. F \o <<>> = F
  BY ConcatEmptySeq
<1>2. Len(<<>>) < BatchSize
  BY Capacities, EmptySeq
<1> QED BY <1>1, <1>2 DEF OnceInOrder

\* An event is taken from the channel, into the batch or with it out.
LEMMA CollectInd ==
  ASSUME BackInv, Collect PROVE BackInv'
<1> DEFINE es == Append(items, Head(cache))  F == FlattenSeq(EventsOf(batches))
<1>1. /\ cache \in Seq(Copies) /\ cache # <<>> /\ items \in Seq(Copies)
      /\ batches \in Seq(BatchState) /\ Len(cache) <= CacheSize
      /\ slots' = slots /\ accepted' = accepted /\ cache' = Tail(cache)
      /\ dropped' = dropped /\ dropped \in Seq(Copies) /\ ~stopped
  BY DEF BackInv, BackType, Collect
<1>2. /\ Head(cache) \in Copies /\ Tail(cache) \in Seq(Copies)
      /\ Len(Tail(cache)) = Len(cache) - 1
      /\ es \in Seq(Copies) /\ Len(es) = Len(items) + 1
  BY <1>1, HeadTailProperties, AppendProperties
<1>3. F \in Seq(Copies) /\ F \o es \in Seq(Copies)
  BY <1>1, <1>2, Dispatched, ConcatProperties
<1>4. accepted = F \o es \o Tail(cache)
  <2>1. accepted = F \o items \o cache
    BY <1>1, RunningOrder
  <2> HIDE DEF F
  <2>2. F \in Seq(Copies) /\ items \in Seq(Copies) /\ cache \in Seq(Copies) /\ cache # <<>>
    BY <1>1, <1>3
  <2>3. \A f, x, y \in Seq(Copies) : y # <<>> =>
          (f \o x) \o y = (f \o Append(x, Head(y))) \o Tail(y)
    BY HeadMoves
  <2> QED BY <2>1, <2>2, <2>3, Zenon
<1>5. cache' \in Seq(Copies) /\ Len(cache') <= CacheSize
  <2>1. Len(cache) \in Nat
    BY <1>1, LenProperties
  <2> HIDE DEF es, F
  <2> QED BY <1>1, <1>2, <2>1, Capacities
<1>6. CASE Len(es) >= BatchSize
  <2>1. Dispatch(es) /\ UNCHANGED slots
    BY <1>6, <1>1 DEF Collect
  <2>2. batches' \in Seq(BatchState) /\ SenderInv'
    BY <2>1, <1>2, DispatchSenders DEF BackInv
  <2>3. /\ batches' = Append(batches, Batch(es)) /\ items' = <<>>
        /\ FlattenSeq(EventsOf(batches')) = F \o es
    BY <2>1, <1>1, <1>2, Dispatched DEF Dispatch
  <2> HIDE DEF es, F
  <2>4. OnceInOrder'
    <3>1. (F \o es) \o <<>> = F \o es
      BY <1>3, ConcatEmptySeq
    <3>2. dropped = <<>> /\ accepted' = (F \o es) \o items' \o cache'
      BY <2>3, <3>1, <1>1, <1>4, RunningOrder
    <3> QED BY <2>3, <3>2, <1>1, <1>3, RunningOrderKept
  <2>5. items' \in Seq(Copies) /\ Len(items') < BatchSize
    BY <2>3, Capacities, EmptySeq
  <2> QED BY <2>2, <2>4, <2>5, <1>1, <1>5 DEF BackInv, BackType
<1>7. CASE ~(Len(es) >= BatchSize)
  <2>1. items' = es /\ batches' = batches
    BY <1>7 DEF Collect
  <2>2. items' \in Seq(Copies) /\ Len(items') < BatchSize
    <3>1. Len(es) \in Nat
      BY <1>2, LenProperties
    <3> HIDE DEF es
    <3> QED BY <2>1, <1>2, <1>7, <3>1, Capacities
  <2>3. OnceInOrder'
    <3>1. dropped = <<>> /\ FlattenSeq(EventsOf(batches))' = F
      BY <2>1, <1>1, RunningOrder
    <3> HIDE DEF F, es
    <3>2. accepted' = F \o items' \o cache'
      BY <2>1, <1>1, <1>4
    <3> QED BY <3>1, <3>2, <1>1, <1>3, RunningOrderKept
  <2>4. SenderInv'
    BY <2>1, <1>1 DEF BackInv, SenderInv, Using, Timely
  <2> QED BY <2>1, <2>2, <2>3, <2>4, <1>1, <1>5 DEF BackInv, BackType
<1> QED BY <1>6, <1>7

\* eventBatchInterval is over: the events collected so far are a batch.
LEMMA IntervalOverInd ==
  ASSUME BackInv, IntervalOver PROVE BackInv'
<1> DEFINE F == FlattenSeq(EventsOf(batches))
<1>1. /\ items \in Seq(Copies) /\ batches \in Seq(BatchState)
      /\ Dispatch(items) /\ items' = <<>> /\ batches' = Append(batches, Batch(items))
      /\ UNCHANGED <<slots, accepted, cache, dropped>> /\ ~stopped
  BY DEF BackInv, BackType, IntervalOver, Dispatch
<1>2. batches' \in Seq(BatchState) /\ SenderInv'
  BY <1>1, DispatchSenders DEF BackInv
<1>3. /\ FlattenSeq(EventsOf(batches')) = F \o items
      /\ F \o items \in Seq(Copies)
  BY <1>1, Dispatched, ConcatProperties
<1> HIDE DEF F
<1>4. OnceInOrder'
  <2>1. (F \o items) \o <<>> = F \o items
    BY <1>3, ConcatEmptySeq
  <2>2. dropped = <<>> /\ accepted = (F \o items) \o cache
    BY <1>1, RunningOrder DEF F
  <2> QED BY <2>1, <2>2, <1>1, <1>3, RunningOrderKept
<1>5. BackType'
  BY <1>1, <1>2, Capacities, EmptySeq DEF BackInv, BackType
<1> QED BY <1>2, <1>4, <1>5 DEF BackInv

\* The worker ends and drops what it has collected.
LEMMA StopInd ==
  ASSUME BackInv, Stop PROVE BackInv'
<1> DEFINE F == FlattenSeq(EventsOf(batches))
<1>1. /\ items \in Seq(Copies) /\ Len(items) < BatchSize /\ cache \in Seq(Copies)
      /\ batches \in Seq(BatchState) /\ ~stopped /\ stopped' = TRUE
      /\ items' = <<>> /\ dropped' = items /\ UNCHANGED <<cache, batches, slots, accepted>>
  BY DEF BackInv, BackType, Stop
<1>2. accepted = F \o items \o cache
  BY <1>1, RunningOrder
<1>3. F \in Seq(Copies) /\ F \o items \in Seq(Copies)
  BY <1>1, Dispatched, ConcatProperties
<1> HIDE DEF F
<1>4. (F \o items) \o <<>> = F \o items
  BY <1>3, ConcatEmptySeq
<1>5. accepted' = FlattenSeq(EventsOf(batches))' \o dropped' \o items' \o cache'
  BY <1>1, <1>2, <1>4 DEF F
<1>6. OnceInOrder'
  BY <1>1, <1>5 DEF OnceInOrder
<1>7. BackType'
  BY <1>1, Capacities, EmptySeq DEF BackInv, BackType
<1>8. SenderInv'
  BY <1>1 DEF BackInv, SenderInv, Using, Timely
<1> QED BY <1>6, <1>7, <1>8 DEF BackInv

\* An event enters the channel.
LEMMA EnqueueBack ==
  ASSUME BackInv, NEW r \in Requests, Enqueue(r), req[r].out \in Copies
  PROVE  BackInv'
<1> DEFINE e == req[r].out  F == FlattenSeq(EventsOf(batches)) \o dropped \o items
<1>1. /\ cache \in Seq(Copies) /\ Len(cache) < CacheSize /\ items \in Seq(Copies)
      /\ batches \in Seq(BatchState) /\ dropped \in Seq(Copies)
      /\ cache' = Append(cache, e) /\ accepted' = Append(accepted, e)
      /\ UNCHANGED <<items, batches, slots, dropped, stopped>>
  BY DEF BackInv, BackType, Enqueue, backVars
<1>2. e \in Copies /\ <<e>> \in Seq(Copies)
  OBVIOUS
<1> HIDE DEF e
<1>3. F \in Seq(Copies)
  <2>1. FlattenSeq(EventsOf(batches)) \in Seq(Copies)
    BY <1>1, Dispatched
  <2>2. FlattenSeq(EventsOf(batches)) \o dropped \in Seq(Copies)
    BY <1>1, <2>1, ConcatProperties
  <2> QED BY <1>1, <2>2, ConcatProperties
<1>4. accepted = F \o cache
  BY DEF BackInv, OnceInOrder
<1>5. F' = F
  BY <1>1
<1> HIDE DEF F
<1>6. F \o cache \in Seq(Copies)
  BY <1>1, <1>3, ConcatProperties
<1>7. Append(accepted, e) = F \o Append(cache, e)
  <2>1. /\ Append(cache, e) = cache \o <<e>>
        /\ Append(accepted, e) = (F \o cache) \o <<e>>
    BY <1>1, <1>2, <1>4, <1>6, AppendIsConcat
  <2>2. F \o (cache \o <<e>>) = (F \o cache) \o <<e>>
    BY <1>1, <1>2, <1>3, ConcatAssociative
  <2> QED BY <2>1, <2>2
<1>8. OnceInOrder'
  <2>1. accepted' = F' \o cache'
    BY <1>1, <1>5, <1>7
  <2> QED BY <2>1, <1>1 DEF OnceInOrder, BackInv, F
<1>9. cache' \in Seq(Copies) /\ Len(cache') <= CacheSize
  <2>1. cache' \in Seq(Copies) /\ Len(cache') = Len(cache) + 1
    BY <1>1, <1>2, AppendProperties
  <2>2. Len(cache) \in Nat
    BY <1>1, LenProperties
  <2> QED BY <2>1, <2>2, <1>1, Capacities
<1>10. SenderInv'
  BY <1>1 DEF BackInv, SenderInv, Using, Timely
<1> QED BY <1>1, <1>8, <1>9, <1>10 DEF BackInv, BackType

\* A step of batch m that leaves the rest alone keeps the types and the order of
\* the events; what is left to show is the slots.
LEMMA BatchStep ==
  ASSUME BackInv, NEW m \in DOMAIN batches, NEW b \in BatchState,
         b.events = batches[m].events, batches' = [batches EXCEPT ![m] = b],
         slots' \in 0..SendersNum, UNCHANGED frontVars
  PROVE  /\ BackType' /\ OnceInOrder'
         /\ DOMAIN batches' = DOMAIN batches
         /\ \A n \in DOMAIN batches : batches'[n] = IF n = m THEN b ELSE batches[n]
<1>1. batches \in Seq(BatchState)
  BY DEF BackInv, BackType
<1>2. /\ batches' \in Seq(BatchState) /\ DOMAIN batches' = DOMAIN batches
      /\ \A n \in DOMAIN batches : batches'[n] = IF n = m THEN b ELSE batches[n]
      /\ EventsOf(batches') = EventsOf(batches)
  BY <1>1, OneBatch
<1>3. /\ cache' = cache /\ items' = items /\ accepted' = accepted
      /\ dropped' = dropped /\ stopped' = stopped
  BY DEF frontVars
<1>4. BackType'
  BY <1>2, <1>3 DEF BackInv, BackType
<1>5. OnceInOrder'
  BY <1>2, <1>3 DEF BackInv, OnceInOrder
<1> QED BY <1>2, <1>4, <1>5

\* A batch in the sequence is a batch.
LEMMA ABatch ==
  ASSUME BackInv, NEW m \in DOMAIN batches
  PROVE  /\ batches[m] \in BatchState
         /\ slots \in Nat /\ slots <= SendersNum /\ SendersNum \in Nat
         /\ IsFiniteSet(Using)
<1>1. batches \in Seq(BatchState)
  BY DEF BackInv, BackType
<1> QED BY <1>1, UsingFinite, ElementOfSeq, LenProperties, Capacities DEF BackInv, BackType

\* send gets a slot: one more batch uses one.
LEMMA AcquireInd ==
  ASSUME BackInv, NEW m \in DOMAIN batches, Acquire(m) PROVE BackInv'
<1> DEFINE b == [batches[m] EXCEPT !.sn = "post"]
<1>1. /\ b \in BatchState /\ b.events = batches[m].events /\ b.sn = "post"
      /\ b.se = batches[m].se /\ b.late = batches[m].late
  BY ABatch DEF BatchState
<1>2. batches' = [batches EXCEPT ![m] = b] /\ UNCHANGED frontVars
  BY DEF Acquire, Send
<1>3. slots' = slots + 1 /\ slots' \in 0..SendersNum
  BY ABatch DEF Acquire
<1> HIDE DEF b
<1>4. /\ BackType' /\ OnceInOrder' /\ DOMAIN batches' = DOMAIN batches
      /\ \A n \in DOMAIN batches : batches'[n] = IF n = m THEN b ELSE batches[n]
  BY <1>1, <1>2, <1>3, BatchStep
<1>5. batches[m].sn = "acquire" /\ batches[m].se = "wait"
  BY DEF Acquire, BackInv, SenderInv
<1>6. Timely' => Timely
  BY <1>1, <1>4 DEF Timely
<1>7. Using' = Using \cup {m} /\ m \notin Using
  BY <1>1, <1>4, <1>5 DEF Using
<1>8. Timely' => slots' = Cardinality(Using')
  BY <1>3, <1>6, <1>7, ABatch, FS_AddElement DEF BackInv, SenderInv
<1>9. SenderInv'
  BY <1>1, <1>4, <1>5, <1>6, <1>8 DEF BackInv, SenderInv
<1> QED BY <1>4, <1>9 DEF BackInv

\* send gives up waiting for a slot, or gets the webhook's answer: the slots stay.
LEMMA AcquireTimeoutInd ==
  ASSUME BackInv, NEW m \in DOMAIN batches, AcquireTimeout(m) PROVE BackInv'
<1> DEFINE b == [batches[m] EXCEPT !.sn = "gone"]
<1>1. /\ b \in BatchState /\ b.events = batches[m].events /\ b.sn = "gone"
      /\ b.se = batches[m].se /\ b.late = batches[m].late
  BY ABatch DEF BatchState
<1>2. batches' = [batches EXCEPT ![m] = b] /\ UNCHANGED frontVars /\ slots' = slots
  BY DEF AcquireTimeout, Send
<1>3. slots' \in 0..SendersNum
  BY <1>2, ABatch
<1> HIDE DEF b
<1>4. /\ BackType' /\ OnceInOrder' /\ DOMAIN batches' = DOMAIN batches
      /\ \A n \in DOMAIN batches : batches'[n] = IF n = m THEN b ELSE batches[n]
  BY <1>1, <1>2, <1>3, BatchStep
<1>5. batches[m].sn = "acquire" /\ batches[m].se = "wait"
  BY DEF AcquireTimeout, BackInv, SenderInv
<1>6. (Timely' => Timely) /\ Using' = Using
  BY <1>1, <1>4, <1>5 DEF Timely, Using
<1>7. SenderInv'
  BY <1>1, <1>2, <1>4, <1>5, <1>6 DEF BackInv, SenderInv
<1> QED BY <1>4, <1>7 DEF BackInv

\* The webhook has answered: send still has its slot.
LEMMA PostedInd ==
  ASSUME BackInv, NEW m \in DOMAIN batches, Posted(m) PROVE BackInv'
<1> DEFINE b == [batches[m] EXCEPT !.sn = "report"]
<1>1. /\ b \in BatchState /\ b.events = batches[m].events /\ b.sn = "report"
      /\ b.se = batches[m].se /\ b.late = batches[m].late
  BY ABatch DEF BatchState
<1>2. batches' = [batches EXCEPT ![m] = b] /\ UNCHANGED frontVars /\ slots' = slots
  BY DEF Posted, Send
<1>3. slots' \in 0..SendersNum
  BY <1>2, ABatch
<1> HIDE DEF b
<1>4. /\ BackType' /\ OnceInOrder' /\ DOMAIN batches' = DOMAIN batches
      /\ \A n \in DOMAIN batches : batches'[n] = IF n = m THEN b ELSE batches[n]
  BY <1>1, <1>2, <1>3, BatchStep
<1>5. batches[m].sn = "post"
  BY DEF Posted
<1>6. (Timely' => Timely) /\ Using' = Using
  BY <1>1, <1>4, <1>5 DEF Timely, Using
<1>7. SenderInv'
  BY <1>1, <1>2, <1>4, <1>5, <1>6 DEF BackInv, SenderInv
<1> QED BY <1>4, <1>7 DEF BackInv

\* send reports: the slot is sendEvents' to give back.
LEMMA ReportInd ==
  ASSUME BackInv, NEW m \in DOMAIN batches, Report(m) PROVE BackInv'
<1> DEFINE b == [batches[m] EXCEPT !.sn = "done", !.se = "release"]
<1>1. /\ b \in BatchState /\ b.events = batches[m].events /\ b.sn = "done"
      /\ b.se = "release" /\ b.late = batches[m].late
  BY ABatch DEF BatchState
<1>2. batches' = [batches EXCEPT ![m] = b] /\ UNCHANGED frontVars /\ slots' = slots
  BY DEF Report
<1>3. slots' \in 0..SendersNum
  BY <1>2, ABatch
<1> HIDE DEF b
<1>4. /\ BackType' /\ OnceInOrder' /\ DOMAIN batches' = DOMAIN batches
      /\ \A n \in DOMAIN batches : batches'[n] = IF n = m THEN b ELSE batches[n]
  BY <1>1, <1>2, <1>3, BatchStep
<1>5. batches[m].sn = "report"
  BY DEF Report
<1>6. (Timely' => Timely) /\ Using' = Using
  BY <1>1, <1>4, <1>5 DEF Timely, Using
<1>7. SenderInv'
  BY <1>1, <1>2, <1>4, <1>6 DEF BackInv, SenderInv
<1> QED BY <1>4, <1>7 DEF BackInv

\* sendEvents gives up: from here on nothing is claimed of the slots.
LEMMA SendTimeoutInd ==
  ASSUME BackInv, NEW m \in DOMAIN batches, SendTimeout(m) PROVE BackInv'
<1> DEFINE b == [batches[m] EXCEPT !.se = "release", !.late = TRUE]
<1>1. /\ b \in BatchState /\ b.events = batches[m].events
      /\ b.sn = batches[m].sn /\ b.late = TRUE
  BY ABatch DEF BatchState
<1>2. batches' = [batches EXCEPT ![m] = b] /\ UNCHANGED frontVars /\ slots' = slots
  BY DEF SendTimeout
<1>3. slots' \in 0..SendersNum
  BY <1>2, ABatch
<1> HIDE DEF b
<1>4. /\ BackType' /\ OnceInOrder' /\ DOMAIN batches' = DOMAIN batches
      /\ \A n \in DOMAIN batches : batches'[n] = IF n = m THEN b ELSE batches[n]
  BY <1>1, <1>2, <1>3, BatchStep
<1>5. batches[m].sn # "acquire"
  BY DEF SendTimeout
<1>6. ~Timely'
  BY <1>1, <1>4 DEF Timely
<1>7. SenderInv'
  BY <1>1, <1>4, <1>5, <1>6 DEF BackInv, SenderInv
<1> QED BY <1>4, <1>7 DEF BackInv

\* sendEvents takes an element out of senderCh: one batch less uses one.
LEMMA ReleaseSlotInd ==
  ASSUME BackInv, NEW m \in DOMAIN batches, ReleaseSlot(m) PROVE BackInv'
<1> DEFINE b == [batches[m] EXCEPT !.se = "done"]
<1>1. /\ b \in BatchState /\ b.events = batches[m].events /\ b.sn = batches[m].sn
      /\ b.se = "done" /\ b.late = batches[m].late
  BY ABatch DEF BatchState
<1>2. batches' = [batches EXCEPT ![m] = b] /\ UNCHANGED frontVars
  BY DEF ReleaseSlot
<1>3. slots' = slots - 1 /\ slots' \in 0..SendersNum
  BY ABatch DEF ReleaseSlot
<1> HIDE DEF b
<1>4. /\ BackType' /\ OnceInOrder' /\ DOMAIN batches' = DOMAIN batches
      /\ \A n \in DOMAIN batches : batches'[n] = IF n = m THEN b ELSE batches[n]
  BY <1>1, <1>2, <1>3, BatchStep
<1>5. batches[m].se = "release" /\ batches[m].sn # "acquire"
  BY DEF ReleaseSlot, BackInv, SenderInv
<1>6. Timely' => Timely
  BY <1>1, <1>4 DEF Timely
<1>7. ASSUME Timely' PROVE slots' = Cardinality(Using')
  <2>1. batches[m].sn = "done"
    BY <1>5, <1>6, <1>7 DEF BackInv, SenderInv
  <2>2. Using' = Using \ {m} /\ m \in Using
    BY <2>1, <1>1, <1>4, <1>5 DEF Using
  <2> QED BY <2>2, <1>3, <1>6, <1>7, ABatch, FS_RemoveElement DEF BackInv, SenderInv
<1>8. SenderInv'
  BY <1>1, <1>4, <1>5, <1>6, <1>7 DEF BackInv, SenderInv
<1> QED BY <1>4, <1>8 DEF BackInv

-----------------------------------------------------------------------------
(* The requests: what a step of one of them may change.                      *)

\* Names and statuses are told apart.
LEMMA StatusFacts ==
  /\ \A r \in Requests : /\ RequestStatus(r) \in Statuses /\ RequestStatus(r) # Nil
                         /\ ResponseStatus(r) \in Statuses /\ ResponseStatus(r) # Nil
  /\ \A r, x \in Requests : /\ RequestStatus(r) = RequestStatus(x) => r = x
                            /\ RequestStatus(r) # ResponseStatus(x)
  /\ Nil \notin Statuses
BY AuditAssumption DEF RequestStatus, ResponseStatus, Statuses, Nil, None

LEMMA NameFacts ==
  /\ \A r \in Requests : User[r] \in Names /\ User[r] \in UserNames /\ User[r] # Unnamed
  /\ \A n \in UserNames : n \in Names /\ n # Unnamed
  /\ Unnamed \in Names /\ "" \in Names /\ "" # Unnamed /\ None \notin Requests
BY AuditAssumption DEF Names, UserNames, Unnamed

\* A step of request r moves r alone ...
MoveFrame(r) ==
  /\ \A x \in Requests : x # r => req'[x] = req[x]
  /\ req[r].pc \notin {"done", "panic", "crash"} /\ req'[r].pc # "new"
  /\ \/ req[r].pc = "new" /\ \E k \in RequestKinds : Starts(r, k) /\ req'[r].kind = k
     \/ req[r].pc # "new" /\ alone' = alone /\ req'[r].kind = req[r].kind
  /\ \/ req'[r].e \in {req[r].e, r}
     \/ req'[r].e = loginevent /\ req[r].pc = "return"
  /\ req'[r].pc \in LogoutPlaces => req[r].pc \in LogoutPlaces \/ islogin
  /\ req'[r].pc \in FreshPlaces => req[r].pc \in FreshPlaces

\* ... and the login variables in these ways ...
LoginFrame(r) ==
  /\ loginevent' = loginevent \/ (loginevent' = r /\ req[r].pc = "new")
  /\ Busy(r)' => Busy(r) \/ loginevent' = r
  /\ islogin' => islogin \/ req[r].pc = "succeeded"
  /\ req'[r].kind = "other" => UNCHANGED loginVars

\* ... and events and statuses in these.
HeapFrame(r) ==
  /\ \A y \in Requests :
       /\ event'[y].user = Unnamed => event[y].user = Unnamed \/ y = loginevent
       /\ \/ event'[y].status = event[y].status
          \/ event'[y].status \in {Nil, ResponseStatus(r)}
          \/ /\ event'[y].status = RequestStatus(r) /\ y = loginevent
             /\ req[r].pc = "status" /\ req'[r].pc = "reason"
       /\ y # r => /\ event[y].ips => event'[y].ips
                   /\ event[y].status # Nil => event'[y].status # Nil
                   /\ req'[r].kind = "other" => event'[y] = event[y]
  /\ \A x \in Requests : LET p == RequestStatus(x) IN
       x # r =>
         \/ reason'[p] = reason[p]
         \/ /\ req'[r].kind # "other"
            /\ \/ req[r].pc = "reason" /\ event[loginevent].status = p
               \/ req[r].pc = "failed" /\ event[req[r].e].status = p
               \/ /\ req[r].pc = "logout reason" /\ event[loginevent].status = p
                  /\ reason'[p] = "Logout successfully"

Frame(r) == MoveFrame(r) /\ LoginFrame(r) /\ HeapFrame(r)

\* What is to be shown of a step of request r.
Step(r) ==
  /\ Frame(r) /\ FrontType' /\ RequestInv(r)'
  /\ loginevent' = r => LastInv(r)'
  /\ r \in alone' => /\ req'[r].pc \notin {"panic", "crash"}
                     /\ req'[r].kind = "login" => LoneLogin(r)'

\* The state of a request and what is known of it.
LEMMA ARequest ==
  ASSUME FrontInv, NEW r \in Requests
  PROVE  /\ req[r] \in RequestState /\ RequestInv(r) /\ event[r] \in EventState
         /\ r \in alone => LoneInv(r)
         /\ loginevent = r => LastInv(r)
         /\ loginevent \in Requests \cup {None} /\ loginUserName \in UserNames
         /\ loginerr \in BOOLEAN /\ islogin \in BOOLEAN
         /\ loginevent # None => loginevent \in Requests /\ LastInv(loginevent)
         /\ islogin => loginevent # None
         /\ None \notin Requests
BY NameFacts DEF FrontInv, FrontType, HeapInv

\* A request that is new is another request's in no way.
LEMMA NewRequest ==
  ASSUME FrontInv, NEW r \in Requests, req[r].pc = "new"
  PROVE  /\ req[r].kind = "other" /\ req[r].e = None /\ loginevent # r
         /\ r \notin InFlight /\ r \notin alone /\ event[r].user # Unnamed
         /\ \A y \in Requests : event[y].status # RequestStatus(r)
         /\ \A x \in Requests : req[x].e # r
<1>1. req[r].kind = "other" /\ req[r].e = None
  BY ARequest DEF RequestInv
<1>2. loginevent # r /\ r \notin alone
  BY <1>1, ARequest DEF LastInv, LoneInv, TokenKinds
<1>3. event[r].user # Unnamed /\ \A y \in Requests : event[y].status # RequestStatus(r)
  BY <1>1 DEF FrontInv, HeapInv, TokenKinds, FreshPlaces
<1>4. ASSUME NEW x \in Requests, req[x].e = r PROVE FALSE
  <2>1. x # r
    BY <1>1, <1>4, ARequest
  <2>2. req[x].e \notin {None, x}
    BY <1>4, <2>1, ARequest
  <2>3. req[req[x].e].kind \in TokenKinds
    BY <2>2 DEF FrontInv, HeapInv
  <2> QED BY <1>1, <1>4, <2>3 DEF TokenKinds
<1>5. r \notin InFlight
  BY <1>1 DEF InFlight
<1> QED BY <1>1, <1>2, <1>3, <1>4, <1>5

\* Consequences of a step for the kinds and for loginevent.
LEMMA StepFacts ==
  ASSUME FrontInv, NEW r \in Requests, Frame(r)
  PROVE  /\ \A x \in Requests : x # r => req'[x] = req[x]
         /\ \A x \in Requests : req[x].kind # "other" => req'[x].kind = req[x].kind
         /\ \A x \in Requests : req[x].kind \in TokenKinds => req'[x].kind \in TokenKinds
         /\ loginevent # None => loginevent' # None
         /\ \A x \in Requests : x # r /\ loginevent' = x => loginevent = x
         /\ alone' \subseteq alone \cup {r}
<1>1. \A x \in Requests : x # r => req'[x] = req[x]
  BY DEF Frame, MoveFrame
<1>2. \A x \in Requests : req[x].kind # "other" => req'[x].kind = req[x].kind
  BY <1>1, NewRequest DEF Frame, MoveFrame
<1>3. alone' \subseteq alone \cup {r}
  BY DEF Frame, MoveFrame, Starts
<1>4. loginevent' = loginevent \/ loginevent' = r
  BY DEF Frame, LoginFrame
<1> QED BY <1>1, <1>2, <1>3, <1>4, NameFacts DEF TokenKinds

LEMMA StepHeap ==
  ASSUME FrontInv, NEW r \in Requests, Step(r)
  PROVE  HeapInv'
<1>0. Frame(r) /\ HeapInv
  BY DEF Step, FrontInv
<1>1. islogin' => loginevent' # None
  <2>1. islogin' => islogin \/ req[r].pc = "succeeded"
    BY <1>0 DEF Frame, LoginFrame
  <2>2. req[r].pc = "succeeded" => loginevent # None
    BY ARequest DEF RequestInv, LoginPlaces
  <2> QED BY <1>0, <2>1, <2>2, StepFacts DEF HeapInv
<1>2. ASSUME NEW x \in Requests, req'[x].e \notin {None, x}
      PROVE  req'[req'[x].e].kind \in TokenKinds
  <2>1. req'[x].e = req[x].e \/ (x = r /\ req'[x].e = loginevent)
    BY <1>0, <1>2 DEF Frame, MoveFrame
  <2>2. CASE req'[x].e = req[x].e
    <3>1. req[req[x].e].kind \in TokenKinds /\ req[x].e \in Requests
      BY <1>0, <1>2, <2>2, ARequest DEF HeapInv, RequestState
    <3> QED BY <1>0, <2>2, <3>1, StepFacts
  <2>3. CASE req'[x].e = loginevent
    <3>1. loginevent \in Requests /\ req[loginevent].kind \in TokenKinds
      BY <1>2, <2>3, ARequest DEF LastInv
    <3> QED BY <1>0, <2>3, <3>1, StepFacts
  <2> QED BY <2>1, <2>2, <2>3
<1>3. ASSUME NEW x \in Requests, event'[x].user = Unnamed
      PROVE  loginevent' # None /\ req'[x].kind \in TokenKinds
  <2>1. event[x].user = Unnamed \/ x = loginevent
    BY <1>0, <1>3 DEF Frame, HeapFrame
  <2>2. loginevent # None /\ req[x].kind \in TokenKinds
    BY <2>1, <1>0, ARequest, NameFacts DEF HeapInv, LastInv
  <2> QED BY <1>0, <2>2, StepFacts
<1>4. ASSUME NEW x \in Requests, NEW y \in Requests, req'[x].pc \in FreshPlaces,
             event'[y].status = RequestStatus(x)
      PROVE  FALSE
  <2>1. req[x].pc \in FreshPlaces
    BY <1>0, <1>4 DEF Frame, MoveFrame
  <2>2. event[y].status # RequestStatus(x)
    BY <1>0, <2>1 DEF HeapInv
  <2>3. RequestStatus(x) # Nil /\ RequestStatus(x) # ResponseStatus(r)
    BY StatusFacts
  <2>4. RequestStatus(x) = RequestStatus(r) /\ req'[r].pc = "reason"
    BY <1>0, <1>4, <2>2, <2>3 DEF Frame, HeapFrame
  <2> QED BY <1>4, <2>4, StatusFacts DEF FreshPlaces
<1> QED BY <1>1, <1>2, <1>3, <1>4 DEF HeapInv

LEMMA StepLast ==
  ASSUME FrontInv, NEW r \in Requests, Step(r), loginevent' # None
  PROVE  LastInv(loginevent)'
<1>1. CASE loginevent' = r
  BY <1>1 DEF Step
<1>2. CASE loginevent' # r
  <2>1. loginevent' = loginevent /\ loginevent \in Requests /\ LastInv(loginevent)
    BY <1>2, ARequest DEF Step, Frame, LoginFrame
  <2>2. req'[loginevent] = req[loginevent]
    BY <1>2, <2>1 DEF Step, Frame, MoveFrame
  <2>3. /\ event[loginevent].ips => event'[loginevent].ips
        /\ event[loginevent].status # Nil => event'[loginevent].status # Nil
    BY <1>2, <2>1 DEF Step, Frame, HeapFrame
  <2> QED BY <2>1, <2>2, <2>3 DEF LastInv
<1> QED BY <1>1, <1>2

\* The lone token requests other than r stay apart.
LEMMA StepApart ==
  ASSUME FrontInv, NEW r \in Requests, Step(r), NEW x \in Requests, x # r,
         Apart(x), x \in InFlight => req'[r].kind = "other"
  PROVE  Apart(x)'
<1>1. req'[x] = req[x] /\ (loginevent' = x => loginevent = x)
  BY StepFacts DEF Step
<1>2. Busy(x)' => loginevent' = x
  <2> SUFFICES ASSUME Busy(x)' PROVE loginevent' = x
    OBVIOUS
  <2>1. Busy(x)
    BY <1>1 DEF Busy
  <2>2. x \in InFlight /\ loginevent = x
    BY <2>1 DEF Busy, InFlight, Apart, TokenKinds
  <2> QED BY <2>2 DEF Step, Frame, LoginFrame, loginVars
<1>3. ASSUME NEW y \in Requests, y # x PROVE req'[y].e # x
  <2>1. CASE y # r
    BY <2>1, <1>3 DEF Step, Frame, MoveFrame, Apart
  <2>2. CASE y = r
    <3>1. ASSUME req'[r].e = loginevent, req[r].pc = "return" PROVE loginevent # x
      <4>1. Busy(r)
        BY <3>1, ARequest DEF Busy, RequestInv, TokenPlaces
      <4> QED BY <4>1 DEF Apart
    <3>2. req[r].e # x
      BY DEF Apart
    <3> QED BY <2>2, <3>1, <3>2 DEF Step, Frame, MoveFrame
  <2> QED BY <2>1, <2>2
<1>4. ASSUME NEW y \in Requests, y # x PROVE event'[y].status # RequestStatus(x)
  <2>1. event[y].status # RequestStatus(x)
    BY <1>4 DEF Apart
  <2>2. RequestStatus(x) \notin {Nil, ResponseStatus(r), RequestStatus(r)}
    BY StatusFacts
  <2> QED BY <2>1, <2>2 DEF Step, Frame, HeapFrame
<1>5. ASSUME loginevent' = x, NEW y \in Requests, y # x PROVE ~Busy(y)'
  <2>1. ~Busy(y)
    BY <1>1, <1>5 DEF Apart
  <2>2. CASE y # r
    <3>1. req'[y] = req[y]
      BY <2>2 DEF Step, Frame, MoveFrame
    <3> QED BY <2>1, <3>1 DEF Busy
  <2>3. CASE y = r
    BY <2>1, <2>3, <1>5 DEF Step, Frame, LoginFrame
  <2> QED BY <2>2, <2>3
<1> QED BY <1>2, <1>3, <1>4, <1>5 DEF Apart

LEMMA StepLone ==
  ASSUME FrontInv, NEW r \in Requests, Step(r), NEW x \in alone', x # r
  PROVE  LoneInv(x)'
<1>0. Frame(r)
  BY DEF Step
<1>1. x \in alone /\ x \in Requests /\ LoneInv(x) /\ req'[x] = req[x]
  BY <1>0, StepFacts DEF FrontInv, FrontType
<1>2. req'[x].kind # "other" /\ req'[x].pc \notin {"panic", "crash"}
  BY <1>1 DEF LoneInv
<1>3. InFlight' \subseteq InFlight \cup {r}
  BY <1>0, StepFacts DEF InFlight
<1>4. CASE x \in InFlight
  <2>1. InFlight = {x} /\ r \notin InFlight
    BY <1>1, <1>4 DEF LoneInv
  <2>2. req'[r].kind = "other"
    <3>1. CASE req[r].pc = "new"
      <4>1. PICK k \in RequestKinds : Starts(r, k) /\ req'[r].kind = k
        BY <3>1, <1>0 DEF Frame, MoveFrame
      <4>2. k # "other" => alone' = alone \ InFlight
        BY <4>1, <2>1 DEF Starts
      <4> QED BY <4>1, <4>2, <1>4
    <3>2. CASE req[r].pc # "new"
      <4>1. req'[r].kind = req[r].kind /\ req[r].pc \notin {"done", "panic"}
        BY <3>2, <1>0 DEF Frame, MoveFrame
      <4> QED BY <2>1, <3>2, <4>1 DEF InFlight
    <3> QED BY <3>1, <3>2
  <2>3. r \notin InFlight'
    BY <2>2 DEF InFlight
  <2>4. InFlight' \subseteq {x}
    BY <1>3, <2>1, <2>3
  <2>5. req'[x].kind \in TokenKinds => Apart(x)'
    BY <1>1, <2>2, StepApart DEF LoneInv
  <2>6. req'[x].kind = "login" => LoneLogin(x)'
    <3>1. UNCHANGED loginVars
      BY <1>0, <2>2 DEF Frame, LoginFrame
    <3>2. event'[x] = event[x]
      BY <1>0, <1>1, <2>2 DEF Frame, HeapFrame
    <3>3. reason'[RequestStatus(x)] = reason[RequestStatus(x)]
      BY <1>0, <1>1, <2>2 DEF Frame, HeapFrame
    <3>4. Outcome(x)' = Outcome(x)
      BY <1>1 DEF Outcome
    <3> QED BY <1>1, <3>1, <3>2, <3>3, <3>4 DEF LoneInv, LoneLogin, loginVars
  <2> QED BY <1>2, <2>4, <2>5, <2>6 DEF LoneInv
<1>5. CASE x \notin InFlight
  <2>1. req[x].pc = "done"
    BY <1>1, <1>5, NewRequest DEF InFlight, LoneInv
  <2>2. x \notin InFlight'
    BY <1>3, <1>5
  <2>3. req'[x].kind \in TokenKinds => Apart(x)'
    BY <1>1, <1>5, StepApart DEF LoneInv
  <2>4. LoneLogin(x)'
    BY <1>1, <2>1 DEF LoneLogin
  <2> QED BY <1>2, <2>2, <2>3, <2>4 DEF LoneInv
<1> QED BY <1>4, <1>5

LEMMA StepOwn ==
  ASSUME FrontInv, NEW r \in Requests, Step(r), r \in alone'
  PROVE  LoneInv(r)'
<1>0. Frame(r)
  BY DEF Step
<1>1. \A x \in Requests : x # r => req'[x] = req[x]
  BY <1>0, StepFacts
<1>2. CASE req[r].pc = "new"
  <2>1. PICK k \in RequestKinds : Starts(r, k) /\ req'[r].kind = k
    BY <1>2, <1>0 DEF Frame, MoveFrame
  <2>2. k # "other" /\ InFlight = {}
    BY <1>2, <2>1, NewRequest DEF Starts
  <2>3. InFlight' \subseteq {r}
    BY <1>1, <2>2 DEF InFlight
  <2>4. ASSUME k \in TokenKinds PROVE Apart(r)'
    <3>1. Busy(r)' => loginevent' = r
      <4>1. ~Busy(r)
        BY <1>2 DEF Busy
      <4> QED BY <1>0, <4>1 DEF Frame, LoginFrame
    <3>2. ASSUME NEW x \in Requests, x # r
          PROVE  req'[x].e # r /\ event'[x].status # RequestStatus(r) /\ ~Busy(x)'
      <4>1. req[x].e # r /\ event[x].status # RequestStatus(r)
        BY <1>2, NewRequest
      <4>2. RequestStatus(r) \notin {Nil, ResponseStatus(r)}
        BY StatusFacts
      <4>3. event'[x].status # RequestStatus(r)
        BY <1>0, <1>2, <4>1, <4>2 DEF Frame, HeapFrame
      <4>4. ~Busy(x)'
        BY <1>1, <2>2, <3>2 DEF Busy, InFlight, TokenKinds
      <4> QED BY <1>1, <3>2, <4>1, <4>3, <4>4
    <3> QED BY <3>1, <3>2 DEF Apart
  <2> QED BY <2>1, <2>2, <2>3, <2>4 DEF LoneInv, Step
<1>3. CASE req[r].pc # "new"
  <2>1. /\ r \in alone /\ req'[r].kind = req[r].kind
        /\ req[r].pc \notin {"new", "done", "panic", "crash"}
    BY <1>3, <1>0 DEF Frame, MoveFrame
  <2>2. LoneInv(r) /\ r \in InFlight
    BY <2>1, ARequest DEF LoneInv, InFlight
  <2>3. InFlight' \subseteq {r}
    <3>1. InFlight = {r}
      BY <2>2 DEF LoneInv
    <3> QED BY <1>1, <3>1 DEF InFlight
  <2>4. ASSUME req[r].kind \in TokenKinds PROVE Apart(r)'
    <3>0. Apart(r) /\ loginevent' = loginevent
      BY <1>3, <1>0, <2>2, <2>4 DEF LoneInv, Frame, LoginFrame
    <3>1. Busy(r)' => loginevent' = r
      BY <1>0, <3>0 DEF Apart, Frame, LoginFrame
    <3>2. ASSUME NEW x \in Requests, x # r
          PROVE  req'[x].e # r /\ event'[x].status # RequestStatus(r)
      <4>1. req[x].e # r /\ event[x].status # RequestStatus(r)
        BY <3>0, <3>2 DEF Apart
      <4>2. RequestStatus(r) \notin {Nil, ResponseStatus(r)}
        BY StatusFacts
      <4>3. req[r].pc = "status" => loginevent = r
        BY <2>4, <3>0 DEF Apart, Busy, TokenPlaces
      <4>4. event'[x].status # RequestStatus(r)
        BY <1>0, <3>2, <4>1, <4>2, <4>3 DEF Frame, HeapFrame
      <4> QED BY <1>1, <3>2, <4>1, <4>4
    <3>3. ASSUME loginevent' = r, NEW x \in Requests, x # r PROVE ~Busy(x)'
      <4>1. ~Busy(x)
        BY <3>0, <3>3 DEF Apart
      <4> QED BY <1>1, <3>3, <4>1 DEF Busy
    <3> QED BY <3>1, <3>2, <3>3 DEF Apart
  <2> QED BY <2>1, <2>2, <2>3, <2>4 DEF LoneInv, Step
<1> QED BY <1>2, <1>3

\* What a lone login has recorded stays as it is.
LEMMA StepKept ==
  ASSUME FrontInv, NEW r \in Requests, Step(r),
         NEW x \in Requests, x \in alone, req[x].kind = "login", Kept(x)
  PROVE  Kept(x)' /\ x # r
<1>0. Frame(r) /\ RequestInv(r)
  BY ARequest DEF Step
<1>1. x # r /\ req'[x] = req[x] /\ Outcome(x)' = Outcome(x)
  BY <1>0 DEF Kept, Frame, MoveFrame, Outcome
<1>2. Apart(x)
  BY ARequest DEF LoneInv, TokenKinds
<1>3. Expired => Expired'
  BY <1>0, StepFacts DEF Expired
<1>4. loginevent' = x => loginevent = x
  BY <1>0, <1>1, StepFacts
<1>5. ASSUME loginevent' = x,
             islogin' \/ \E y \in Requests : req'[y].pc \in LogoutPlaces
      PROVE  req'[x].ok
  <2>1. loginevent = x /\ ~Busy(r)
    BY <1>1, <1>2, <1>4, <1>5 DEF Apart
  <2>2. req[r].pc # "succeeded"
    BY <1>0, <2>1 DEF Busy, RequestInv, LoginPlaces, TokenPlaces
  <2>3. islogin' => islogin
    BY <1>0, <2>2 DEF Frame, LoginFrame
  <2>4. \A y \in Requests : req'[y].pc \in LogoutPlaces => req[y].pc \in LogoutPlaces \/ islogin
    BY <1>0 DEF Frame, MoveFrame
  <2>5. islogin \/ \E y \in Requests : req[y].pc \in LogoutPlaces
    BY <1>5, <2>3, <2>4
  <2> QED BY <1>1, <2>1, <2>5 DEF Kept
<1>6. \/ reason'[RequestStatus(x)] = Outcome(x)
      \/ reason'[RequestStatus(x)] = "Logout successfully" /\ req[x].ok /\ Expired'
  <2> DEFINE p == RequestStatus(x)
  <2>1. CASE reason'[p] = reason[p]
    BY <2>1, <1>3 DEF Kept
  <2>2. CASE req[r].pc = "reason" /\ event[loginevent].status = p
    <3>1. loginevent \in Requests /\ Busy(r)
      BY <1>0, <2>2, ARequest DEF RequestInv, TokenPlaces, Busy
    <3> QED BY <1>1, <1>2, <2>2, <3>1 DEF Apart
  <2>3. CASE req[r].pc = "failed" /\ event[req[r].e].status = p
    <3>1. req[r].e \in Requests
      BY <1>0, <2>3, ARequest DEF RequestInv, LoginPlaces, RequestState
    <3> QED BY <1>1, <1>2, <2>3, <3>1 DEF Apart
  <2>4. CASE /\ req[r].pc = "logout reason" /\ event[loginevent].status = p
             /\ reason'[p] = "Logout successfully"
    <3>1. loginevent \in Requests /\ req[r].kind = "expired"
      BY <1>0, <2>4, ARequest DEF RequestInv, LogoutPlaces
    <3>2. loginevent = x
      BY <1>2, <2>4, <3>1 DEF Apart
    <3>3. req[x].ok
      BY <2>4, <3>2 DEF Kept, LogoutPlaces
    <3>4. Expired
      BY <3>1 DEF Expired
    <3> QED BY <1>3, <2>4, <3>3, <3>4
  <2> QED BY <1>0, <1>1, <2>1, <2>2, <2>3, <2>4 DEF Frame, HeapFrame
<1>7. req'[x].pc = "done"
  BY <1>1 DEF Kept
<1> QED BY <1>1, <1>5, <1>6, <1>7 DEF Kept

\* The n-th copy that was accepted is still accounted for.
RecordOf(n) ==
  LET c == accepted[n] IN
  /\ req[c.by].pc # "new"
  /\ c.by = c.req /\ c.by \in alone /\ req[c.by].kind = "login" =>
       c = Copy(c.by, c.by, User[c.by], RequestStatus(c.by)) /\ Kept(c.by)

LEMMA StepRecordOf ==
  ASSUME FrontInv, NEW r \in Requests, Step(r), NEW n \in DOMAIN accepted,
         accepted'[n] = accepted[n]
  PROVE  RecordOf(n)'
<1> PICK c : c = accepted[n] /\ c = accepted'[n]
  OBVIOUS
<1>1. c \in Copies
  BY ElementOfSeq, LenProperties DEF FrontInv, FrontType
<1>2. c.by \in Requests
  BY <1>1 DEF Copies
<1>3. /\ req[c.by].pc # "new"
      /\ c.by = c.req /\ c.by \in alone /\ req[c.by].kind = "login" =>
           c = Copy(c.by, c.by, User[c.by], RequestStatus(c.by)) /\ Kept(c.by)
  BY DEF FrontInv, RecordInv
<1>4. req'[c.by].pc # "new" /\ req'[c.by].kind = req[c.by].kind
  BY <1>2, <1>3 DEF Step, Frame, MoveFrame
<1>5. c.by \in alone' => c.by \in alone
  <2>1. c.by # r \/ req[r].pc # "new"
    BY <1>3
  <2> QED BY <1>2, <2>1, StepFacts DEF Step, Frame, MoveFrame
<1>6. ASSUME c.by = c.req, c.by \in alone', req'[c.by].kind = "login"
      PROVE  c = Copy(c.by, c.by, User[c.by], RequestStatus(c.by)) /\ Kept(c.by)'
  BY <1>2, <1>3, <1>4, <1>5, <1>6, StepKept
<1>7. ASSUME NEW b, b = c.by
      PROVE  /\ req'[b].pc # "new"
             /\ b = c.req /\ b \in alone' /\ req'[b].kind = "login" =>
                  c = Copy(b, b, User[b], RequestStatus(b)) /\ Kept(b)'
  BY <1>4, <1>6, <1>7
<1> QED BY <1>7 DEF RecordOf

LEMMA StepRest ==
  ASSUME FrontInv, NEW r \in Requests, Step(r), RecordInv'
  PROVE  FrontInv'
<1>1. ASSUME NEW x \in Requests PROVE RequestInv(x)'
  <2>1. CASE x = r
    BY <2>1 DEF Step
  <2>2. CASE x # r
    <3>1. req'[x] = req[x] /\ (loginevent # None => loginevent' # None) /\ RequestInv(x)
      BY <2>2, StepFacts, ARequest DEF Step
    <3> QED BY <3>1 DEF RequestInv
  <2> QED BY <2>1, <2>2
<1>2. \A x \in alone' : LoneInv(x)'
  BY StepLone, StepOwn
<1> QED BY <1>1, <1>2, StepHeap, StepLast DEF FrontInv, Step

\* A step that has no event accepted keeps the invariant of the requests.
LEMMA StepInd ==
  ASSUME FrontInv, NEW r \in Requests, Step(r), accepted' = accepted
  PROVE  FrontInv'
<1>1. ASSUME NEW n \in DOMAIN accepted PROVE RecordOf(n)'
  BY <1>1, StepRecordOf
<1>2. RecordInv'
  BY <1>1 DEF RecordInv, RecordOf
<1> QED BY <1>2, StepRest
-----------------------------------------------------------------------------
(* The requests: one lemma per action.                                       *)

\* Request r goes from where it is to state q.
LEMMA MoveStep ==
  ASSUME FrontInv, NEW r \in Requests, NEW q \in RequestState,
         req[r].pc \notin {"new", "done", "panic", "crash"}, q.pc # "new",
         q.kind = req[r].kind, req' = [req EXCEPT ![r] = q],
         UNCHANGED <<alone, loginevent>>,
         q.e = req[r].e \/ (q.e = loginevent /\ req[r].pc = "return"),
         q.pc \in LogoutPlaces => req[r].pc \in LogoutPlaces,
         q.pc \in FreshPlaces => req[r].pc \in FreshPlaces,
         q.pc \in TokenPlaces => req[r].pc \in TokenPlaces,
         islogin' => islogin \/ req[r].pc = "succeeded",
         req[r].kind = "other" => UNCHANGED loginVars
  PROVE  /\ MoveFrame(r) /\ LoginFrame(r)
         /\ req' \in [Requests -> RequestState] /\ req'[r] = q
<1>1. /\ req' \in [Requests -> RequestState] /\ req'[r] = q
      /\ \A x \in Requests : x # r => req'[x] = req[x]
  BY DEF FrontInv, FrontType
<1>2. MoveFrame(r)
  BY <1>1 DEF MoveFrame
<1>3. Busy(r)' => Busy(r)
  BY <1>1 DEF Busy, TokenPlaces
<1>4. LoginFrame(r)
  BY <1>1, <1>3 DEF LoginFrame
<1> QED BY <1>1, <1>2, <1>4

\* The same when only the place changes.
LEMMA GotoStep ==
  ASSUME FrontInv, NEW r \in Requests, NEW p \in Places, Goto(r, p), p # "new",
         req[r].pc \notin {"new", "done", "panic", "crash"},
         UNCHANGED <<alone, loginevent>>,
         p \in LogoutPlaces => req[r].pc \in LogoutPlaces,
         p \in FreshPlaces => req[r].pc \in FreshPlaces,
         p \in TokenPlaces => req[r].pc \in TokenPlaces,
         islogin' => islogin \/ req[r].pc = "succeeded",
         req[r].kind = "other" => UNCHANGED loginVars
  PROVE  /\ MoveFrame(r) /\ LoginFrame(r) /\ req' \in [Requests -> RequestState]
         /\ req'[r].pc = p /\ req'[r].kind = req[r].kind /\ req'[r].ok = req[r].ok
         /\ req'[r].e = req[r].e /\ req'[r].out = req[r].out
         /\ req'[r].then = req[r].then
<1> DEFINE q == [req[r] EXCEPT !.pc = p]
<1>1. /\ q \in RequestState /\ q.pc = p /\ q.kind = req[r].kind /\ q.ok = req[r].ok
      /\ q.e = req[r].e /\ q.out = req[r].out /\ q.then = req[r].then
  BY ARequest DEF RequestState
<1>2. req' = [req EXCEPT ![r] = q]
  BY DEF Goto
<1> HIDE DEF q
<1>3. /\ MoveFrame(r) /\ LoginFrame(r) /\ req' \in [Requests -> RequestState]
      /\ req'[r] = q
  BY <1>1, <1>2, MoveStep
<1> QED BY <1>1, <1>3

LEMMA SameHeap ==
  ASSUME NEW r \in Requests, UNCHANGED heap PROVE HeapFrame(r)
BY DEF HeapFrame, heap

\* A token request or a logout writes to an event.
LEMMA UserSet ==
  ASSUME FrontInv, NEW o \in Requests, NEW u \in Names, SetUser(o, u)
  PROVE  /\ event' \in [Requests -> EventState]
         /\ \A y \in Requests : /\ event'[y].ips = event[y].ips
                                /\ event'[y].status = event[y].status
                                /\ y # o => event'[y] = event[y]
         /\ event'[o].user = u
BY DEF FrontInv, FrontType, SetUser, EventState

LEMMA SourceSet ==
  ASSUME FrontInv, NEW o \in Requests, event' = [event EXCEPT ![o].ips = TRUE]
  PROVE  /\ event' \in [Requests -> EventState]
         /\ \A y \in Requests : /\ event'[y].user = event[y].user
                                /\ event'[y].status = event[y].status
                                /\ event[y].ips => event'[y].ips
         /\ event'[o].ips
BY DEF FrontInv, FrontType, EventState

LEMMA StatusSet ==
  ASSUME FrontInv, NEW o \in Requests, NEW p \in Statuses, SetStatus(o, p)
  PROVE  /\ event' \in [Requests -> EventState]
         /\ \A y \in Requests : /\ event'[y].ips = event[y].ips
                                /\ event'[y].user = event[y].user
                                /\ y # o => event'[y] = event[y]
         /\ event'[o].status = p
BY DEF FrontInv, FrontType, SetStatus, EventState

LEMMA ReasonSet ==
  ASSUME FrontInv, NEW p \in Statuses, NEW c \in Reasons,
         reason' = [reason EXCEPT ![p] = c]
  PROVE  /\ reason' \in [Statuses -> Reasons] /\ reason'[p] = c
         /\ \A x \in Statuses : x # p => reason'[x] = reason[x]
BY DEF FrontInv, FrontType

\* The last token request and the request alone, while they are busy with an event.
LEMMA Holder ==
  ASSUME FrontInv, NEW r \in Requests, r \in alone, Busy(r)
  PROVE  loginevent = r /\ LastInv(r) /\ Apart(r)
BY ARequest DEF Busy, LoneInv, Apart

\* A lone request with an expired token finds the last token request's event.
LEMMA LoneLogout ==
  ASSUME FrontInv, NEW r \in Requests, r \in alone, req[r].pc \in LogoutPlaces
  PROVE  event[loginevent].ips /\ event[loginevent].status # Nil
<1>1. loginevent \in Requests /\ LastInv(loginevent) /\ req[r].kind = "expired"
  BY ARequest DEF RequestInv
<1>2. r \in InFlight /\ InFlight = {r}
  BY <1>1, ARequest DEF InFlight, LoneInv, LogoutPlaces
<1>3. loginevent # r
  BY <1>1 DEF LastInv, TokenKinds
<1>4. loginevent \notin InFlight
  BY <1>2, <1>3
<1>5. req[loginevent].pc = "done"
  BY <1>1, <1>4 DEF LastInv, InFlight, TokenKinds
<1> QED BY <1>1, <1>5 DEF LastInv, FreshPlaces

\* The type of the state after a step that leaves the rest alone.
LEMMA TypeStep ==
  ASSUME FrontInv, req' \in [Requests -> RequestState],
         event' \in [Requests -> EventState], reason' \in [Statuses -> Reasons],
         loginevent' \in Requests \cup {None}, loginUserName' \in UserNames,
         loginerr' \in BOOLEAN, islogin' \in BOOLEAN, alone' \in SUBSET Requests,
         accepted' \in Seq(Copies), load' = load
  PROVE  FrontType'
BY DEF FrontInv, FrontType

LEMMA SameTypes ==
  ASSUME FrontInv
  PROVE  /\ event \in [Requests -> EventState] /\ reason \in [Statuses -> Reasons]
         /\ loginevent \in Requests \cup {None} /\ loginUserName \in UserNames
         /\ loginerr \in BOOLEAN /\ islogin \in BOOLEAN /\ alone \in SUBSET Requests
         /\ accepted \in Seq(Copies)
BY DEF FrontInv, FrontType

\* A token request fills in the event that loginevent points to.
LEMMA TokenUserStep ==
  ASSUME FrontInv, load' = load, NEW r \in Requests, TokenUser(r) PROVE Step(r)
<1>1. /\ req[r].pc = "mark" /\ Goto(r, "source") /\ SetUser(loginevent, Unnamed)
      /\ UNCHANGED <<reason, loginVars, accepted, alone>>
  BY DEF TokenUser, At
<1>2. loginevent \in Requests /\ req[r].kind \in TokenKinds
  BY <1>1, ARequest DEF RequestInv, TokenPlaces
<1>3. /\ MoveFrame(r) /\ LoginFrame(r) /\ req' \in [Requests -> RequestState]
      /\ req'[r].pc = "source" /\ req'[r].kind = req[r].kind /\ req'[r].ok = req[r].ok
      /\ req'[r].e = req[r].e /\ req'[r].out = req[r].out /\ req'[r].then = req[r].then
  BY <1>1, GotoStep DEF Places, TokenPlaces, LogoutPlaces, FreshPlaces, loginVars
<1>4. /\ event' \in [Requests -> EventState]
      /\ \A y \in Requests : /\ event'[y].ips = event[y].ips
                             /\ event'[y].status = event[y].status
                             /\ y # loginevent => event'[y] = event[y]
      /\ event'[loginevent].user = Unnamed
  BY <1>1, <1>2, UserSet, NameFacts
<1>5. HeapFrame(r)
  BY <1>1, <1>2, <1>3, <1>4 DEF HeapFrame, TokenKinds
<1>6. FrontType'
  BY <1>1, <1>3, <1>4, SameTypes, TypeStep DEF loginVars
<1>7. RequestInv(r)'
  BY <1>1, <1>2, <1>3, ARequest
     DEF RequestInv, loginVars, TokenPlaces, LoginPlaces, LogoutPlaces, TokenKinds
<1>8. loginevent' = r => LastInv(r)'
  BY <1>1, <1>3, <1>4, ARequest DEF LastInv, loginVars, FreshPlaces
<1>9. r \in alone' /\ req'[r].kind = "login" => LoneLogin(r)'
  <2> SUFFICES ASSUME r \in alone, req[r].kind = "login" PROVE LoneLogin(r)'
    BY <1>1, <1>3
  <2>1. loginevent = r
    BY <1>1, Holder DEF Busy, TokenPlaces, TokenKinds
  <2> QED BY <1>3, <1>4, <2>1 DEF LoneLogin
<1> QED BY <1>3, <1>5, <1>6, <1>7, <1>8, <1>9 DEF Step, Frame

LEMMA TokenSourceStep ==
  ASSUME FrontInv, load' = load, NEW r \in Requests, TokenSource(r) PROVE Step(r)
<1>1. /\ req[r].pc = "source" /\ Goto(r, "status")
      /\ event' = [event EXCEPT ![loginevent].ips = TRUE]
      /\ UNCHANGED <<reason, loginVars, accepted, alone>>
  BY DEF TokenSource, At
<1>2. loginevent \in Requests /\ req[r].kind \in TokenKinds
  BY <1>1, ARequest DEF RequestInv, TokenPlaces
<1>3. /\ MoveFrame(r) /\ LoginFrame(r) /\ req' \in [Requests -> RequestState]
      /\ req'[r].pc = "status" /\ req'[r].kind = req[r].kind /\ req'[r].ok = req[r].ok
      /\ req'[r].e = req[r].e /\ req'[r].out = req[r].out /\ req'[r].then = req[r].then
  BY <1>1, GotoStep DEF Places, TokenPlaces, LogoutPlaces, FreshPlaces, loginVars
<1>4. /\ event' \in [Requests -> EventState]
      /\ \A y \in Requests : /\ event'[y].user = event[y].user
                             /\ event'[y].status = event[y].status
                             /\ event[y].ips => event'[y].ips
      /\ event'[loginevent].ips
  BY <1>1, <1>2, SourceSet
<1>5. HeapFrame(r)
  BY <1>1, <1>2, <1>3, <1>4 DEF HeapFrame, TokenKinds
<1>6. FrontType'
  BY <1>1, <1>3, <1>4, SameTypes, TypeStep DEF loginVars
<1>7. RequestInv(r)'
  BY <1>1, <1>2, <1>3, ARequest
     DEF RequestInv, loginVars, TokenPlaces, LoginPlaces, LogoutPlaces, TokenKinds
<1>8. loginevent' = r => LastInv(r)'
  BY <1>1, <1>3, <1>4, ARequest DEF LastInv, loginVars, FreshPlaces
<1>9. r \in alone' /\ req'[r].kind = "login" => LoneLogin(r)'
  <2> SUFFICES ASSUME r \in alone, req[r].kind = "login" PROVE LoneLogin(r)'
    BY <1>1, <1>3
  <2>1. event'[r].user = Unnamed
    BY <1>1, <1>4, ARequest DEF LoneInv, LoneLogin
  <2> QED BY <1>3, <2>1 DEF LoneLogin
<1> QED BY <1>3, <1>5, <1>6, <1>7, <1>8, <1>9 DEF Step, Frame

LEMMA TokenStatusStep ==
  ASSUME FrontInv, load' = load, NEW r \in Requests, TokenStatus(r) PROVE Step(r)
<1>1. /\ req[r].pc = "status" /\ Goto(r, "reason")
      /\ SetStatus(loginevent, RequestStatus(r))
      /\ UNCHANGED <<reason, loginVars, accepted, alone>>
  BY DEF TokenStatus, At
<1>2. loginevent \in Requests /\ req[r].kind \in TokenKinds
  BY <1>1, ARequest DEF RequestInv, TokenPlaces
<1>3. /\ MoveFrame(r) /\ LoginFrame(r) /\ req' \in [Requests -> RequestState]
      /\ req'[r].pc = "reason" /\ req'[r].kind = req[r].kind /\ req'[r].ok = req[r].ok
      /\ req'[r].e = req[r].e /\ req'[r].out = req[r].out /\ req'[r].then = req[r].then
  BY <1>1, GotoStep DEF Places, TokenPlaces, LogoutPlaces, FreshPlaces, loginVars
<1>4. /\ event' \in [Requests -> EventState]
      /\ \A y \in Requests : /\ event'[y].ips = event[y].ips
                             /\ event'[y].user = event[y].user
                             /\ y # loginevent => event'[y] = event[y]
      /\ event'[loginevent].status = RequestStatus(r)
      /\ RequestStatus(r) # Nil
  BY <1>1, <1>2, StatusSet, StatusFacts
<1>5. HeapFrame(r)
  BY <1>1, <1>2, <1>3, <1>4 DEF HeapFrame, TokenKinds
<1>6. FrontType'
  BY <1>1, <1>3, <1>4, SameTypes, TypeStep DEF loginVars
<1>7. RequestInv(r)'
  BY <1>1, <1>2, <1>3, ARequest
     DEF RequestInv, loginVars, TokenPlaces, LoginPlaces, LogoutPlaces, TokenKinds
<1>8. loginevent' = r => LastInv(r)'
  BY <1>1, <1>3, <1>4, ARequest DEF LastInv, loginVars, FreshPlaces
<1>9. r \in alone' /\ req'[r].kind = "login" => LoneLogin(r)'
  <2> SUFFICES ASSUME r \in alone, req[r].kind = "login" PROVE LoneLogin(r)'
    BY <1>1, <1>3
  <2>1. loginevent = r /\ event[r].user = Unnamed
    BY <1>1, Holder, ARequest DEF Busy, TokenPlaces, TokenKinds, LoneInv, LoneLogin
  <2> QED BY <1>2, <1>3, <1>4, <2>1 DEF LoneLogin
<1> QED BY <1>3, <1>5, <1>6, <1>7, <1>8, <1>9 DEF Step, Frame

\* The Reason of an event is written, if the event has a status.
LEMMA ReasonWritten ==
  ASSUME FrontInv, NEW r \in Requests, NEW o \in Requests, NEW c \in Reasons,
         NEW a, NEW b, SetReason(r, o, c, a, b)
  PROVE  /\ reason' \in [Statuses -> Reasons]
         /\ event[o].status # Nil => /\ Goto(r, a) /\ reason'[event[o].status] = c
         /\ event[o].status = Nil => /\ Goto(r, b) /\ reason' = reason
         /\ \A x \in Statuses : x # event[o].status => reason'[x] = reason[x]
<1>1. event[o] \in EventState
  BY ARequest
<1>2. CASE event[o].status = Nil
  <2>1. Goto(r, b) /\ reason' = reason
    BY <1>2 DEF SetReason
  <2> QED BY <1>2, <2>1, SameTypes
<1>3. CASE event[o].status # Nil
  <2>1. event[o].status \in Statuses
    BY <1>1, <1>3 DEF EventState
  <2>2. Goto(r, a) /\ reason' = [reason EXCEPT ![event[o].status] = c]
    BY <1>3 DEF SetReason
  <2> QED BY <1>3, <2>1, <2>2, ReasonSet
<1> QED BY <1>2, <1>3

LEMMA TokenReasonStep ==
  ASSUME FrontInv, load' = load, NEW r \in Requests, TokenReason(r) PROVE Step(r)
<1>1. /\ req[r].pc = "reason"
      /\ SetReason(r, loginevent, "Login successfully", "return", "panic")
      /\ UNCHANGED <<event, loginVars, accepted, alone>>
  BY DEF TokenReason, At
<1>2. loginevent \in Requests /\ req[r].kind \in TokenKinds
  BY <1>1, ARequest DEF RequestInv, TokenPlaces
<1>3. /\ reason' \in [Statuses -> Reasons]
      /\ event[loginevent].status # Nil =>
           Goto(r, "return") /\ reason'[event[loginevent].status] = "Login successfully"
      /\ event[loginevent].status = Nil => Goto(r, "panic") /\ reason' = reason
      /\ \A x \in Statuses : x # event[loginevent].status => reason'[x] = reason[x]
  BY <1>1, <1>2, ReasonWritten DEF Reasons
<1>4. PICK p \in {"return", "panic"} :
        Goto(r, p) /\ (p = "panic" => event[loginevent].status = Nil)
  BY <1>3
<1>5. /\ MoveFrame(r) /\ LoginFrame(r) /\ req' \in [Requests -> RequestState]
      /\ req'[r].pc = p /\ req'[r].kind = req[r].kind /\ req'[r].ok = req[r].ok
      /\ req'[r].e = req[r].e /\ req'[r].out = req[r].out /\ req'[r].then = req[r].then
  BY <1>1, <1>4, GotoStep DEF Places, TokenPlaces, LogoutPlaces, FreshPlaces, loginVars
<1>6. HeapFrame(r)
  BY <1>1, <1>2, <1>3, <1>5, StatusFacts DEF HeapFrame, TokenKinds
<1>7. FrontType'
  BY <1>1, <1>3, <1>5, SameTypes, TypeStep DEF loginVars
<1>8. RequestInv(r)'
  BY <1>1, <1>2, <1>4, <1>5, ARequest
     DEF RequestInv, loginVars, TokenPlaces, LoginPlaces, LogoutPlaces, TokenKinds
<1>9. loginevent = r => p = "return" /\ event[r].status # Nil
  BY <1>1, <1>4, ARequest DEF LastInv, FreshPlaces
<1>10. loginevent' = r => LastInv(r)'
  BY <1>1, <1>5, <1>9, ARequest DEF LastInv, loginVars, FreshPlaces
<1>11. r \in alone => loginevent = r
  BY <1>1, <1>2, Holder DEF Busy, TokenPlaces
<1>12. r \in alone' /\ req'[r].kind = "login" => LoneLogin(r)'
  <2> SUFFICES ASSUME r \in alone, req[r].kind = "login" PROVE LoneLogin(r)'
    BY <1>1, <1>5
  <2>1. event[r].user = Unnamed /\ event[r].status = RequestStatus(r)
    BY <1>1, ARequest DEF LoneInv, LoneLogin
  <2>2. reason'[RequestStatus(r)] = "Login successfully"
    BY <1>3, <1>9, <1>11, <2>1
  <2> QED BY <1>1, <1>5, <1>9, <1>11, <2>1, <2>2 DEF LoneLogin
<1> QED BY <1>1, <1>5, <1>6, <1>7, <1>8, <1>9, <1>10, <1>11, <1>12 DEF Step, Frame

\* LogRequestObject returns the event loginevent points to.
LEMMA TokenReturnStep ==
  ASSUME FrontInv, load' = load, NEW r \in Requests, TokenReturn(r) PROVE Step(r)
<1> DEFINE p == IF req[r].kind = "login" THEN "handle" ELSE "respond"
           q == [req[r] EXCEPT !.e = loginevent, !.pc = p]
<1>1. /\ req[r].pc = "return" /\ req' = [req EXCEPT ![r] = q]
      /\ UNCHANGED <<heap, loginVars, accepted, alone>>
  BY DEF TokenReturn, At
<1>2. loginevent \in Requests /\ req[r].kind \in TokenKinds
  BY <1>1, ARequest DEF RequestInv, TokenPlaces
<1>3. p \in {"handle", "respond"} /\ (p = "handle" <=> req[r].kind = "login")
  OBVIOUS
<1> HIDE DEF p
<1>4. /\ q \in RequestState /\ q.pc = p /\ q.kind = req[r].kind /\ q.ok = req[r].ok
      /\ q.e = loginevent /\ q.out = req[r].out /\ q.then = req[r].then
  BY <1>2, <1>3, ARequest DEF RequestState, Places
<1> HIDE DEF q
<1>5. /\ MoveFrame(r) /\ LoginFrame(r) /\ req' \in [Requests -> RequestState]
      /\ req'[r] = q
  BY <1>1, <1>3, <1>4, MoveStep DEF TokenPlaces, LogoutPlaces, FreshPlaces, loginVars
<1>6. HeapFrame(r)
  BY <1>1, SameHeap
<1>7. FrontType'
  BY <1>1, <1>5, SameTypes, TypeStep DEF loginVars, heap
<1>8. RequestInv(r)'
  BY <1>1, <1>2, <1>3, <1>4, <1>5, ARequest
     DEF RequestInv, loginVars, TokenPlaces, LoginPlaces, LogoutPlaces
<1>9. loginevent' = r => LastInv(r)'
  BY <1>1, <1>3, <1>4, <1>5, ARequest DEF LastInv, loginVars, heap, FreshPlaces
<1>10. r \in alone' /\ req'[r].kind = "login" => LoneLogin(r)'
  BY <1>1, <1>3, <1>4, <1>5, ARequest DEF LoneInv, LoneLogin, loginVars, heap
<1> QED BY <1>3, <1>4, <1>5, <1>6, <1>7, <1>8, <1>9, <1>10 DEF Step, Frame

\* A password grant ends: first its outcome ...
LEMMA SetLoginErrStep ==
  ASSUME FrontInv, load' = load, NEW r \in Requests, SetLoginErr(r) PROVE Step(r)
<1>1. PICK ok \in BOOLEAN :
        loginerr' = ~ok /\ req' = [req EXCEPT ![r].pc = "name", ![r].ok = ok]
  BY DEF SetLoginErr
<1> DEFINE q == [req[r] EXCEPT !.pc = "name", !.ok = ok]
<1>2. /\ req[r].pc = "handle" /\ req' = [req EXCEPT ![r] = q]
      /\ UNCHANGED <<heap, loginevent, loginUserName, islogin, accepted, alone>>
  BY <1>1 DEF SetLoginErr, At
<1>3. req[r].kind = "login"
  BY <1>2, ARequest DEF RequestInv
<1>4. /\ q \in RequestState /\ q.pc = "name" /\ q.kind = req[r].kind /\ q.ok = ok
      /\ q.e = req[r].e /\ q.out = req[r].out /\ q.then = req[r].then
  BY ARequest DEF RequestState, Places
<1> HIDE DEF q
<1>5. /\ MoveFrame(r) /\ LoginFrame(r) /\ req' \in [Requests -> RequestState]
      /\ req'[r] = q
  BY <1>2, <1>3, <1>4, MoveStep DEF TokenPlaces, LogoutPlaces, FreshPlaces
<1>6. HeapFrame(r)
  BY <1>2, SameHeap
<1>7. FrontType'
  <2>1. loginerr' \in BOOLEAN
    BY <1>1
  <2> QED BY <1>2, <1>5, <2>1, SameTypes, TypeStep DEF heap
<1>8. RequestInv(r)'
  BY <1>2, <1>3, <1>4, <1>5, ARequest
     DEF RequestInv, TokenPlaces, LoginPlaces, LogoutPlaces
<1>9. loginevent' = r => LastInv(r)'
  BY <1>2, <1>4, <1>5, ARequest DEF LastInv, heap, FreshPlaces
<1>10. r \in alone' => LoneLogin(r)'
  BY <1>1, <1>2, <1>3, <1>4, <1>5, ARequest DEF LoneInv, LoneLogin, heap
<1> QED BY <1>4, <1>5, <1>6, <1>7, <1>8, <1>9, <1>10 DEF Step, Frame

\* ... and then its name.
LEMMA SetLoginUserNameStep ==
  ASSUME FrontInv, load' = load, NEW r \in Requests, SetLoginUserName(r) PROVE Step(r)
<1>1. /\ req[r].pc = "name" /\ loginUserName' = User[r]
      /\ UNCHANGED <<heap, loginevent, loginerr, islogin, accepted, alone>>
  BY DEF SetLoginUserName, At
<1>2. PICK p \in {"done", "respond"} :
        Goto(r, p) /\ (p = "respond" <=> req[r].e # None)
  BY DEF SetLoginUserName
<1>3. req[r].kind = "login" /\ User[r] \in UserNames
  BY <1>1, ARequest, NameFacts DEF RequestInv
<1>4. /\ MoveFrame(r) /\ LoginFrame(r) /\ req' \in [Requests -> RequestState]
      /\ req'[r].pc = p /\ req'[r].kind = req[r].kind /\ req'[r].ok = req[r].ok
      /\ req'[r].e = req[r].e /\ req'[r].out = req[r].out /\ req'[r].then = req[r].then
  BY <1>1, <1>2, <1>3, GotoStep DEF Places, TokenPlaces, LogoutPlaces, FreshPlaces
<1>5. HeapFrame(r)
  BY <1>1, SameHeap
<1>6. FrontType'
  BY <1>1, <1>3, <1>4, SameTypes, TypeStep DEF heap
<1>7. RequestInv(r)'
  BY <1>1, <1>2, <1>3, <1>4, ARequest
     DEF RequestInv, TokenPlaces, LoginPlaces, LogoutPlaces, TokenKinds
<1>8. loginevent' = r => LastInv(r)'
  BY <1>1, <1>2, <1>4, ARequest DEF LastInv, heap, FreshPlaces
<1>9. r \in alone' => LoneLogin(r)'
  BY <1>1, <1>2, <1>3, <1>4, ARequest DEF LoneInv, LoneLogin, heap
<1> QED BY <1>2, <1>4, <1>5, <1>6, <1>7, <1>8, <1>9 DEF Step, Frame

\* LogResponseObject reads the event ...
LEMMA LogResponseObjectStep ==
  ASSUME FrontInv, load' = load, NEW r \in Requests, LogResponseObject(r) PROVE Step(r)
<1>1. req[r].pc = "respond" /\ UNCHANGED <<heap, loginVars, accepted, alone>>
  BY DEF LogResponseObject, At
<1>2. req[r].e \in Requests
  BY <1>1, ARequest DEF RequestInv, RequestState
<1>3. PICK p \in {"login", "code"} :
        Goto(r, p) /\ (p = "login" <=> event[req[r].e].user = Unnamed)
  BY DEF LogResponseObject
<1>4. p = "login" => loginevent # None /\ req[r].kind \in TokenKinds
  <2> SUFFICES ASSUME p = "login" PROVE loginevent # None /\ req[r].kind \in TokenKinds
    OBVIOUS
  <2>1. loginevent # None /\ req[req[r].e].kind \in TokenKinds
    BY <1>2, <1>3 DEF FrontInv, HeapInv
  <2>2. req[r].kind \notin TokenKinds => req[r].e = r
    BY <1>2, ARequest DEF RequestInv
  <2> QED BY <2>1, <2>2
<1>5. /\ MoveFrame(r) /\ LoginFrame(r) /\ req' \in [Requests -> RequestState]
      /\ req'[r].pc = p /\ req'[r].kind = req[r].kind /\ req'[r].ok = req[r].ok
      /\ req'[r].e = req[r].e /\ req'[r].out = req[r].out /\ req'[r].then = req[r].then
  BY <1>1, <1>3, GotoStep
     DEF Places, TokenPlaces, LoginPlaces, LogoutPlaces, FreshPlaces, loginVars
<1>6. HeapFrame(r)
  BY <1>1, SameHeap
<1>7. FrontType'
  BY <1>1, <1>5, SameTypes, TypeStep DEF heap, loginVars
<1>8. RequestInv(r)'
  BY <1>1, <1>3, <1>4, <1>5, ARequest
     DEF RequestInv, TokenPlaces, LoginPlaces, LogoutPlaces, loginVars
<1>9. loginevent' = r => LastInv(r)'
  BY <1>1, <1>3, <1>5, ARequest DEF LastInv, heap, FreshPlaces, loginVars
<1>10. r \in alone' /\ req'[r].kind = "login" => LoneLogin(r)'
  <2> SUFFICES ASSUME r \in alone, req[r].kind = "login" PROVE LoneLogin(r)'
    BY <1>1, <1>5
  <2>1. LoneLogin(r) /\ req[r].e # None
    BY <1>2, ARequest DEF LoneInv
  <2>2. req[r].e = r
    BY <1>1, <1>2, <2>1, Holder DEF Busy, TokenKinds, LastInv
  <2>3. p = "login"
    BY <1>1, <1>3, <2>1, <2>2 DEF LoneLogin
  <2> QED BY <1>1, <1>5, <2>1, <2>3 DEF LoneLogin, heap, loginVars
<1> QED BY <1>3, <1>5, <1>6, <1>7, <1>8, <1>9, <1>10 DEF Step, Frame

\* ... whether a login is recorded already ...
LEMMA LogLoginStep ==
  ASSUME FrontInv, load' = load, NEW r \in Requests, LogLogin(r) PROVE Step(r)
<1>1. req[r].pc = "login" /\ UNCHANGED <<heap, loginVars, accepted, alone>>
  BY DEF LogLogin, At
<1>2. PICK p \in {"done", "outcome"} : Goto(r, p) /\ (p = "outcome" => ~islogin)
  BY DEF LogLogin
<1>3. /\ MoveFrame(r) /\ LoginFrame(r) /\ req' \in [Requests -> RequestState]
      /\ req'[r].pc = p /\ req'[r].kind = req[r].kind /\ req'[r].ok = req[r].ok
      /\ req'[r].e = req[r].e /\ req'[r].out = req[r].out /\ req'[r].then = req[r].then
  BY <1>1, <1>2, GotoStep
     DEF Places, TokenPlaces, LoginPlaces, LogoutPlaces, FreshPlaces, loginVars
<1>4. HeapFrame(r)
  BY <1>1, SameHeap
<1>5. FrontType'
  BY <1>1, <1>3, SameTypes, TypeStep DEF heap, loginVars
<1>6. RequestInv(r)'
  BY <1>1, <1>2, <1>3, ARequest
     DEF RequestInv, TokenPlaces, LoginPlaces, LogoutPlaces, loginVars
<1>7. loginevent' = r => LastInv(r)'
  BY <1>1, <1>2, <1>3, ARequest DEF LastInv, heap, FreshPlaces, loginVars
<1>8. r \in alone' /\ req'[r].kind = "login" => LoneLogin(r)'
  BY <1>1, <1>2, <1>3, ARequest DEF LoneInv, LoneLogin, heap, loginVars
<1> QED BY <1>2, <1>3, <1>4, <1>5, <1>6, <1>7, <1>8 DEF Step, Frame

\* ... and the outcome.
LEMMA LogOutcomeStep ==
  ASSUME FrontInv, load' = load, NEW r \in Requests, LogOutcome(r) PROVE Step(r)
<1>1. req[r].pc = "outcome" /\ UNCHANGED <<heap, loginVars, accepted, alone>>
  BY DEF LogOutcome, At
<1>2. PICK p \in {"failed", "succeeded"} : Goto(r, p) /\ (p = "failed" <=> loginerr)
  BY DEF LogOutcome
<1>3. /\ MoveFrame(r) /\ LoginFrame(r) /\ req' \in [Requests -> RequestState]
      /\ req'[r].pc = p /\ req'[r].kind = req[r].kind /\ req'[r].ok = req[r].ok
      /\ req'[r].e = req[r].e /\ req'[r].out = req[r].out /\ req'[r].then = req[r].then
  BY <1>1, <1>2, GotoStep
     DEF Places, TokenPlaces, LoginPlaces, LogoutPlaces, FreshPlaces, loginVars
<1>4. HeapFrame(r)
  BY <1>1, SameHeap
<1>5. FrontType'
  BY <1>1, <1>3, SameTypes, TypeStep DEF heap, loginVars
<1>6. RequestInv(r)'
  BY <1>1, <1>2, <1>3, ARequest
     DEF RequestInv, TokenPlaces, LoginPlaces, LogoutPlaces, loginVars
<1>7. loginevent' = r => LastInv(r)'
  BY <1>1, <1>2, <1>3, ARequest DEF LastInv, heap, FreshPlaces, loginVars
<1>8. r \in alone' /\ req'[r].kind = "login" => LoneLogin(r)'
  <2>1. req[r].ok \in BOOLEAN
    BY ARequest DEF RequestState
  <2> QED BY <1>1, <1>2, <1>3, <2>1, ARequest
          DEF LoneInv, LoneLogin, heap, loginVars, LoginPlaces, RequestInv
<1> QED BY <1>2, <1>3, <1>4, <1>5, <1>6, <1>7, <1>8 DEF Step, Frame

\* The event a request works on is its own, if it is the last token request.
LEMMA InHand ==
  ASSUME FrontInv, NEW r \in Requests, req[r].pc \in LoginPlaces
  PROVE  /\ req[r].e \in Requests /\ req[r].kind \in TokenKinds /\ Busy(r)
         /\ loginevent # None
         /\ loginevent = r => /\ req[r].e = r /\ event[r].ips
                              /\ event[r].status # Nil
         /\ r \in alone => loginevent = r
<1>1. /\ req[r].e \in Requests /\ req[r].kind \in TokenKinds /\ req[r].e # None
      /\ loginevent # None
  BY ARequest DEF RequestInv, RequestState
<1>2. Busy(r)
  BY <1>1 DEF Busy, LoginPlaces
<1>3. r \in alone => loginevent = r
  BY <1>2, Holder
<1>4. loginevent = r => req[r].e = r /\ event[r].ips /\ event[r].status # Nil
  BY <1>1, ARequest DEF LastInv, LoginPlaces, FreshPlaces
<1> QED BY <1>1, <1>2, <1>3, <1>4

\* A login has failed.
LEMMA LogFailedStep ==
  ASSUME FrontInv, load' = load, NEW r \in Requests, LogFailed(r) PROVE Step(r)
<1> DEFINE o == req[r].e
<1>1. /\ req[r].pc = "failed" /\ SetReason(r, o, "Login failed", "label", "crash")
      /\ UNCHANGED <<event, loginVars, accepted, alone>>
  BY DEF LogFailed, At
<1>2. /\ o \in Requests /\ req[r].kind \in TokenKinds /\ Busy(r) /\ loginevent # None
      /\ loginevent = r => o = r /\ event[r].ips /\ event[r].status # Nil
      /\ r \in alone => loginevent = r
  BY <1>1, InHand DEF LoginPlaces
<1> HIDE DEF o
<1>3. /\ reason' \in [Statuses -> Reasons]
      /\ event[o].status # Nil =>
           Goto(r, "label") /\ reason'[event[o].status] = "Login failed"
      /\ event[o].status = Nil => Goto(r, "crash") /\ reason' = reason
      /\ \A x \in Statuses : x # event[o].status => reason'[x] = reason[x]
  BY <1>1, <1>2, ReasonWritten DEF Reasons
<1>4. PICK p \in {"label", "crash"} :
        Goto(r, p) /\ (p = "crash" => event[o].status = Nil)
  BY <1>3
<1>5. /\ MoveFrame(r) /\ LoginFrame(r) /\ req' \in [Requests -> RequestState]
      /\ req'[r].pc = p /\ req'[r].kind = req[r].kind /\ req'[r].ok = req[r].ok
      /\ req'[r].e = req[r].e /\ req'[r].out = req[r].out /\ req'[r].then = req[r].then
  BY <1>1, <1>4, GotoStep
     DEF Places, TokenPlaces, LoginPlaces, LogoutPlaces, FreshPlaces, loginVars
<1>6. HeapFrame(r)
  BY <1>1, <1>2, <1>3, <1>5, StatusFacts DEF HeapFrame, TokenKinds, o
<1>7. FrontType'
  BY <1>1, <1>3, <1>5, SameTypes, TypeStep DEF loginVars
<1>8. RequestInv(r)'
  BY <1>1, <1>2, <1>4, <1>5, ARequest
     DEF RequestInv, loginVars, TokenPlaces, LoginPlaces, LogoutPlaces, o
<1>9. loginevent' = r => LastInv(r)'
  BY <1>1, <1>2, <1>4, <1>5, ARequest DEF LastInv, loginVars, FreshPlaces
<1>10. r \in alone => p = "label"
  BY <1>2, <1>4
<1>11. r \in alone' /\ req'[r].kind = "login" => LoneLogin(r)'
  <2> SUFFICES ASSUME r \in alone, req[r].kind = "login" PROVE LoneLogin(r)'
    BY <1>1, <1>5
  <2>1. /\ event[r].status = RequestStatus(r) /\ ~req[r].ok /\ ~islogin
        /\ loginUserName = User[r]
    BY <1>1, <1>2, ARequest, NameFacts DEF LoneInv, LoneLogin, o
  <2>2. reason'[RequestStatus(r)] = "Login failed" /\ Outcome(r)' = "Login failed"
    BY <1>2, <1>3, <1>5, <2>1 DEF Outcome
  <2> QED BY <1>1, <1>5, <1>10, <2>1, <2>2 DEF LoneLogin, loginVars
<1> QED BY <1>1, <1>5, <1>6, <1>7, <1>8, <1>9, <1>10, <1>11 DEF Step, Frame

\* A login has succeeded: it is the one that is recorded ...
LEMMA LogSucceededStep ==
  ASSUME FrontInv, load' = load, NEW r \in Requests, LogSucceeded(r) PROVE Step(r)
<1>1. /\ req[r].pc = "succeeded" /\ islogin' = TRUE /\ Goto(r, "address")
      /\ UNCHANGED <<heap, loginevent, loginUserName, loginerr, accepted, alone>>
  BY DEF LogSucceeded, At
<1>2. req[r].kind \in TokenKinds
  BY <1>1, InHand DEF LoginPlaces
<1>3. /\ MoveFrame(r) /\ LoginFrame(r) /\ req' \in [Requests -> RequestState]
      /\ req'[r].pc = "address" /\ req'[r].kind = req[r].kind /\ req'[r].ok = req[r].ok
      /\ req'[r].e = req[r].e /\ req'[r].out = req[r].out /\ req'[r].then = req[r].then
  BY <1>1, <1>2, GotoStep
     DEF Places, TokenPlaces, LoginPlaces, LogoutPlaces, FreshPlaces, TokenKinds
<1>4. HeapFrame(r)
  BY <1>1, SameHeap
<1>5. FrontType'
  BY <1>1, <1>3, SameTypes, TypeStep DEF heap
<1>6. RequestInv(r)'
  BY <1>1, <1>3, ARequest
     DEF RequestInv, TokenPlaces, LoginPlaces, LogoutPlaces
<1>7. loginevent' = r => LastInv(r)'
  BY <1>1, <1>3, ARequest DEF LastInv, heap, FreshPlaces
<1>8. r \in alone' /\ req'[r].kind = "login" => LoneLogin(r)'
  BY <1>1, <1>3, ARequest DEF LoneInv, LoneLogin, heap
<1> QED BY <1>3, <1>4, <1>5, <1>6, <1>7, <1>8 DEF Step, Frame

\* ... with the address its event has.
LEMMA LogAddressStep ==
  ASSUME FrontInv, load' = load, NEW r \in Requests, LogAddress(r) PROVE Step(r)
<1>1. req[r].pc = "address" /\ UNCHANGED <<heap, loginVars, accepted, alone>>
  BY DEF LogAddress, At
<1>2. /\ req[r].e \in Requests /\ req[r].kind \in TokenKinds /\ loginevent # None
      /\ loginevent = r => req[r].e = r /\ event[r].ips /\ event[r].status # Nil
      /\ r \in alone => loginevent = r
  BY <1>1, InHand DEF LoginPlaces
<1>3. PICK p \in {"label", "crash"} :
        Goto(r, p) /\ (p = "crash" => ~event[req[r].e].ips)
  BY DEF LogAddress
<1>4. /\ MoveFrame(r) /\ LoginFrame(r) /\ req' \in [Requests -> RequestState]
      /\ req'[r].pc = p /\ req'[r].kind = req[r].kind /\ req'[r].ok = req[r].ok
      /\ req'[r].e = req[r].e /\ req'[r].out = req[r].out /\ req'[r].then = req[r].then
  BY <1>1, <1>3, GotoStep
     DEF Places, TokenPlaces, LoginPlaces, LogoutPlaces, FreshPlaces, loginVars
<1>5. HeapFrame(r)
  BY <1>1, SameHeap
<1>6. FrontType'
  BY <1>1, <1>4, SameTypes, TypeStep DEF heap, loginVars
<1>7. RequestInv(r)'
  BY <1>1, <1>2, <1>3, <1>4, ARequest
     DEF RequestInv, TokenPlaces, LoginPlaces, LogoutPlaces, loginVars
<1>8. loginevent' = r => LastInv(r)'
  BY <1>1, <1>2, <1>3, <1>4, ARequest DEF LastInv, heap, FreshPlaces, loginVars
<1>9. r \in alone => p = "label"
  BY <1>2, <1>3
<1>10. r \in alone' /\ req'[r].kind = "login" => LoneLogin(r)'
  <2> SUFFICES ASSUME r \in alone, req[r].kind = "login" PROVE LoneLogin(r)'
    BY <1>1, <1>4
  <2>1. LoneLogin(r) /\ req[r].e # None
    BY <1>2, ARequest, NameFacts DEF LoneInv
  <2>2. Outcome(r)' = "Login successfully"
    BY <1>1, <1>4, <2>1 DEF LoneLogin, Outcome
  <2> QED BY <1>1, <1>4, <1>9, <2>1, <2>2 DEF LoneLogin, heap, loginVars
<1> QED BY <1>1, <1>3, <1>4, <1>5, <1>6, <1>7, <1>8, <1>9, <1>10 DEF Step, Frame

\* The name of a login is filled in.
LEMMA LogUserNameStep ==
  ASSUME FrontInv, load' = load, NEW r \in Requests, LogUserName(r) PROVE Step(r)
<1> DEFINE o == req[r].e
<1>1. /\ req[r].pc = "label" /\ SetUser(o, loginUserName) /\ Goto(r, "copy")
      /\ UNCHANGED <<reason, loginVars, accepted, alone>>
  BY DEF LogUserName, At
<1>2. /\ o \in Requests /\ req[r].kind \in TokenKinds
      /\ loginevent = r => o = r /\ event[r].ips /\ event[r].status # Nil
      /\ r \in alone => loginevent = r
  BY <1>1, InHand DEF LoginPlaces
<1>3. /\ MoveFrame(r) /\ LoginFrame(r) /\ req' \in [Requests -> RequestState]
      /\ req'[r].pc = "copy" /\ req'[r].kind = req[r].kind /\ req'[r].ok = req[r].ok
      /\ req'[r].e = o /\ req'[r].out = req[r].out /\ req'[r].then = req[r].then
  BY <1>1, GotoStep DEF Places, TokenPlaces, LogoutPlaces, FreshPlaces, loginVars
<1> HIDE DEF o
<1>4. /\ event' \in [Requests -> EventState]
      /\ \A y \in Requests : /\ event'[y].ips = event[y].ips
                             /\ event'[y].status = event[y].status
                             /\ y # o => event'[y] = event[y]
      /\ event'[o].user = loginUserName /\ loginUserName # Unnamed
  <2>1. loginUserName \in Names /\ loginUserName # Unnamed
    BY ARequest, NameFacts
  <2> QED BY <1>1, <1>2, <2>1, UserSet
<1>5. HeapFrame(r)
  BY <1>1, <1>2, <1>3, <1>4 DEF HeapFrame, TokenKinds
<1>6. FrontType'
  BY <1>1, <1>3, <1>4, SameTypes, TypeStep DEF loginVars
<1>7. RequestInv(r)'
  BY <1>1, <1>2, <1>3, ARequest, NameFacts
     DEF RequestInv, loginVars, TokenPlaces, LoginPlaces, LogoutPlaces
<1>8. loginevent' = r => LastInv(r)'
  BY <1>1, <1>2, <1>3, <1>4, ARequest DEF LastInv, loginVars, FreshPlaces, o
<1>9. r \in alone' /\ req'[r].kind = "login" => LoneLogin(r)'
  <2> SUFFICES ASSUME r \in alone, req[r].kind = "login" PROVE LoneLogin(r)'
    BY <1>1, <1>3
  <2>1. LoneLogin(r) /\ o = r /\ Outcome(r)' = Outcome(r)
    BY <1>2, <1>3, ARequest DEF LoneInv, Outcome
  <2>2. event'[r].user = User[r]
    BY <1>1, <1>4, <2>1 DEF LoneLogin
  <2> QED BY <1>1, <1>3, <1>4, <2>1, <2>2 DEF LoneLogin, loginVars
<1> QED BY <1>3, <1>5, <1>6, <1>7, <1>8, <1>9 DEF Step, Frame

\* An answer that is no login's: its code.
LEMMA LogCodeStep ==
  ASSUME FrontInv, load' = load, NEW r \in Requests, LogCode(r) PROVE Step(r)
<1> DEFINE o == req[r].e
<1>1. /\ req[r].pc = "code" /\ Goto(r, "copy") /\ SetStatus(o, ResponseStatus(r))
      /\ reason' = [reason EXCEPT ![ResponseStatus(r)] = "code"]
      /\ UNCHANGED <<loginVars, accepted, alone>>
  BY DEF LogCode, At
<1>2. o \in Requests /\ (req[r].kind \notin TokenKinds => o = r)
  BY <1>1, ARequest DEF RequestInv, RequestState
<1>3. /\ MoveFrame(r) /\ LoginFrame(r) /\ req' \in [Requests -> RequestState]
      /\ req'[r].pc = "copy" /\ req'[r].kind = req[r].kind /\ req'[r].ok = req[r].ok
      /\ req'[r].e = o /\ req'[r].out = req[r].out /\ req'[r].then = req[r].then
  BY <1>1, GotoStep DEF Places, TokenPlaces, LogoutPlaces, FreshPlaces, loginVars
<1> HIDE DEF o
<1>4. /\ event' \in [Requests -> EventState]
      /\ \A y \in Requests : /\ event'[y].ips = event[y].ips
                             /\ event'[y].user = event[y].user
                             /\ y # o => event'[y] = event[y]
      /\ event'[o].status = ResponseStatus(r) /\ ResponseStatus(r) # Nil
  BY <1>1, <1>2, StatusSet, StatusFacts
<1>5. /\ reason' \in [Statuses -> Reasons]
      /\ \A x \in Requests : reason'[RequestStatus(x)] = reason[RequestStatus(x)]
  <2>1. "code" \in Reasons /\ ResponseStatus(r) \in Statuses
    BY StatusFacts DEF Reasons
  <2>2. /\ reason' \in [Statuses -> Reasons]
        /\ \A x \in Statuses : x # ResponseStatus(r) => reason'[x] = reason[x]
    BY <1>1, <2>1, ReasonSet
  <2> QED BY <2>2, StatusFacts
<1>6. HeapFrame(r)
  BY <1>2, <1>3, <1>4, <1>5 DEF HeapFrame, TokenKinds
<1>7. FrontType'
  BY <1>1, <1>3, <1>4, <1>5, SameTypes, TypeStep DEF loginVars
<1>8. RequestInv(r)'
  BY <1>1, <1>2, <1>3, ARequest, NameFacts
     DEF RequestInv, loginVars, TokenPlaces, LoginPlaces, LogoutPlaces
<1>9. loginevent' = r => LastInv(r)'
  BY <1>1, <1>2, <1>3, <1>4, ARequest DEF LastInv, loginVars, FreshPlaces, o
<1>10. r \in alone' => req'[r].kind # "login"
  BY <1>1, <1>3, ARequest DEF LoneInv, LoneLogin
<1> QED BY <1>3, <1>6, <1>7, <1>8, <1>9, <1>10 DEF Step, Frame

\* cacheEvent is called.
LEMMA CacheStep ==
  ASSUME FrontInv, load' = load, NEW r \in Requests, NEW o \in Requests, CacheEvent(r, o),
         req[r].pc \in {"copy", "logout copy"},
         UNCHANGED <<heap, loginVars, accepted, alone>>
  PROVE  /\ Frame(r) /\ FrontType' /\ RequestInv(r)' /\ (loginevent' = r => LastInv(r)')
         /\ req'[r].pc = "cache" /\ req'[r].kind = req[r].kind /\ req'[r].ok = req[r].ok
         /\ req'[r].out = Copy(r, o, event[o].user, event[o].status)
<1> DEFINE c == Copy(r, o, event[o].user, event[o].status)
           q == [req[r] EXCEPT !.pc = "cache", !.then = "done", !.out = c]
<1>1. c \in Copies /\ c.by = r
  BY ARequest DEF EventState, Copies, Copy
<1>2. req' = [req EXCEPT ![r] = q]
  BY DEF CacheEvent
<1> HIDE DEF c
<1>3. /\ q \in RequestState /\ q.pc = "cache" /\ q.kind = req[r].kind
      /\ q.ok = req[r].ok /\ q.e = req[r].e /\ q.out = c /\ q.then = "done"
  BY <1>1, ARequest DEF RequestState, Places
<1> HIDE DEF q
<1>4. /\ MoveFrame(r) /\ LoginFrame(r) /\ req' \in [Requests -> RequestState]
      /\ req'[r] = q
  BY <1>2, <1>3, MoveStep DEF TokenPlaces, LogoutPlaces, FreshPlaces, loginVars
<1>5. HeapFrame(r)
  BY SameHeap
<1>6. FrontType'
  BY <1>4, SameTypes, TypeStep DEF loginVars, heap
<1>7. RequestInv(r)'
  <2>1. /\ req'[r].pc = "cache" /\ req'[r].kind = req[r].kind /\ req'[r].e = req[r].e
        /\ req'[r].then = "done" /\ req'[r].out.by = r
    BY <1>1, <1>3, <1>4
  <2> QED BY <2>1, ARequest DEF RequestInv, TokenPlaces, LoginPlaces, LogoutPlaces
<1>8. loginevent' = r => LastInv(r)'
  BY <1>3, <1>4, ARequest DEF LastInv, loginVars, heap, FreshPlaces
<1> QED BY <1>3, <1>4, <1>5, <1>6, <1>7, <1>8 DEF Frame, c

LEMMA LogCopyStep ==
  ASSUME FrontInv, load' = load, NEW r \in Requests, LogCopy(r) PROVE Step(r)
<1> PICK o : o = req[r].e
  OBVIOUS
<1>1. /\ req[r].pc = "copy" /\ CacheEvent(r, o)
      /\ UNCHANGED <<heap, loginVars, accepted, alone>>
  BY DEF LogCopy, At
<1>2. o \in Requests
  BY <1>1, ARequest DEF RequestInv, RequestState
<1>3. /\ Frame(r) /\ FrontType' /\ RequestInv(r)' /\ (loginevent' = r => LastInv(r)')
      /\ req'[r].pc = "cache" /\ req'[r].kind = req[r].kind /\ req'[r].ok = req[r].ok
      /\ req'[r].out = Copy(r, o, event[o].user, event[o].status)
  BY <1>1, <1>2, CacheStep
<1>4. r \in alone' /\ req'[r].kind = "login" => LoneLogin(r)'
  <2> SUFFICES ASSUME r \in alone, req[r].kind = "login" PROVE LoneLogin(r)'
    BY <1>1, <1>3
  <2>1. LoneLogin(r) /\ o = r /\ Outcome(r)' = Outcome(r)
    BY <1>1, <1>2, <1>3, Holder, ARequest DEF LoneInv, Outcome, Busy, LastInv, TokenKinds
  <2>2. req'[r].out = Copy(r, r, User[r], RequestStatus(r))
    BY <1>1, <1>3, <2>1 DEF LoneLogin
  <2> QED BY <1>1, <1>3, <2>1, <2>2 DEF LoneLogin, loginVars, heap
<1> QED BY <1>3, <1>4 DEF Step

\* SendLogout: a login is no longer recorded ...
LEMMA LogoutBeginStep ==
  ASSUME FrontInv, load' = load, NEW r \in Requests, LogoutBegin(r) PROVE Step(r)
<1>1. /\ req[r].pc = "logout" /\ islogin' = FALSE /\ Goto(r, "logout address")
      /\ UNCHANGED <<heap, loginevent, loginUserName, loginerr, accepted, alone>>
  BY DEF LogoutBegin, At
<1>2. req[r].kind = "expired" /\ loginevent # None
  BY <1>1, ARequest DEF RequestInv, LogoutPlaces
<1>3. /\ MoveFrame(r) /\ LoginFrame(r) /\ req' \in [Requests -> RequestState]
      /\ req'[r].pc = "logout address" /\ req'[r].kind = req[r].kind
      /\ req'[r].ok = req[r].ok /\ req'[r].e = req[r].e
      /\ req'[r].out = req[r].out /\ req'[r].then = req[r].then
  BY <1>1, <1>2, GotoStep DEF Places, TokenPlaces, LogoutPlaces, FreshPlaces
<1>4. HeapFrame(r)
  BY <1>1, SameHeap
<1>5. FrontType'
  BY <1>1, <1>3, SameTypes, TypeStep DEF heap
<1>6. RequestInv(r)'
  BY <1>1, <1>2, <1>3, ARequest
     DEF RequestInv, TokenPlaces, LoginPlaces, LogoutPlaces, TokenKinds
<1>7. loginevent' # r
  BY <1>1, <1>2, ARequest DEF LastInv, TokenKinds
<1> QED BY <1>2, <1>3, <1>4, <1>5, <1>6, <1>7 DEF Step, Frame

\* ... the address of the event is looked at ...
LEMMA LogoutAddressStep ==
  ASSUME FrontInv, load' = load, NEW r \in Requests, LogoutAddress(r) PROVE Step(r)
<1>1. req[r].pc = "logout address" /\ UNCHANGED <<heap, loginVars, accepted, alone>>
  BY DEF LogoutAddress, At
<1>2. PICK p \in {"logout name", "panic"} :
        Goto(r, p) /\ (p = "panic" => ~event[loginevent].ips)
  BY DEF LogoutAddress
<1>3. req[r].kind = "expired" /\ loginevent # None
  BY <1>1, ARequest DEF RequestInv, LogoutPlaces
<1>4. /\ MoveFrame(r) /\ LoginFrame(r) /\ req' \in [Requests -> RequestState]
      /\ req'[r].pc = p /\ req'[r].kind = req[r].kind
      /\ req'[r].ok = req[r].ok /\ req'[r].e = req[r].e
      /\ req'[r].out = req[r].out /\ req'[r].then = req[r].then
  BY <1>1, <1>2, <1>3, GotoStep
     DEF Places, TokenPlaces, LogoutPlaces, FreshPlaces, loginVars
<1>5. HeapFrame(r)
  BY <1>1, SameHeap
<1>6. FrontType'
  BY <1>1, <1>4, SameTypes, TypeStep DEF heap, loginVars
<1>7. RequestInv(r)'
  BY <1>1, <1>2, <1>3, <1>4, ARequest
     DEF RequestInv, TokenPlaces, LoginPlaces, LogoutPlaces, TokenKinds, loginVars
<1>8. loginevent' # r
  BY <1>1, <1>3, ARequest DEF LastInv, TokenKinds, loginVars
<1>9. r \in alone => p # "panic"
  BY <1>1, <1>2, LoneLogout DEF LogoutPlaces
<1> QED BY <1>1, <1>2, <1>3, <1>4, <1>5, <1>6, <1>7, <1>8, <1>9 DEF Step, Frame

\* ... the name is set ...
LEMMA LogoutNameStep ==
  ASSUME FrontInv, load' = load, NEW r \in Requests, LogoutName(r) PROVE Step(r)
<1>1. /\ req[r].pc = "logout name" /\ SetUser(loginevent, loginUserName)
      /\ Goto(r, "logout reason") /\ UNCHANGED <<reason, loginVars, accepted, alone>>
  BY DEF LogoutName, At
<1>2. req[r].kind = "expired" /\ loginevent \in Requests
  BY <1>1, ARequest DEF RequestInv, LogoutPlaces
<1>3. /\ MoveFrame(r) /\ LoginFrame(r) /\ req' \in [Requests -> RequestState]
      /\ req'[r].pc = "logout reason" /\ req'[r].kind = req[r].kind
      /\ req'[r].ok = req[r].ok /\ req'[r].e = req[r].e
      /\ req'[r].out = req[r].out /\ req'[r].then = req[r].then
  BY <1>1, <1>2, GotoStep DEF Places, TokenPlaces, LogoutPlaces, FreshPlaces, loginVars
<1>4. /\ event' \in [Requests -> EventState]
      /\ \A y \in Requests : /\ event'[y].ips = event[y].ips
                             /\ event'[y].status = event[y].status
                             /\ y # loginevent => event'[y] = event[y]
  <2>1. loginUserName \in Names
    BY ARequest, NameFacts
  <2> QED BY <1>1, <1>2, <2>1, UserSet
<1>5. HeapFrame(r)
  BY <1>1, <1>2, <1>3, <1>4 DEF HeapFrame
<1>6. FrontType'
  BY <1>1, <1>3, <1>4, SameTypes, TypeStep DEF loginVars
<1>7. RequestInv(r)'
  BY <1>1, <1>2, <1>3, ARequest
     DEF RequestInv, TokenPlaces, LoginPlaces, LogoutPlaces, TokenKinds, loginVars
<1>8. loginevent' # r
  BY <1>1, <1>2, ARequest DEF LastInv, TokenKinds, loginVars
<1> QED BY <1>2, <1>3, <1>5, <1>6, <1>7, <1>8 DEF Step, Frame

\* ... and the Reason, in the status that copies of the event share ...
LEMMA LogoutReasonStep ==
  ASSUME FrontInv, load' = load, NEW r \in Requests, LogoutReason(r) PROVE Step(r)
<1>1. /\ req[r].pc = "logout reason"
      /\ SetReason(r, loginevent, "Logout successfully", "logout copy", "panic")
      /\ UNCHANGED <<event, loginVars, accepted, alone>>
  BY DEF LogoutReason, At
<1>2. req[r].kind = "expired" /\ loginevent \in Requests
  BY <1>1, ARequest DEF RequestInv, LogoutPlaces
<1>3. /\ reason' \in [Statuses -> Reasons]
      /\ event[loginevent].status # Nil =>
           /\ Goto(r, "logout copy")
           /\ reason'[event[loginevent].status] = "Logout successfully"
      /\ event[loginevent].status = Nil => Goto(r, "panic") /\ reason' = reason
      /\ \A x \in Statuses : x # event[loginevent].status => reason'[x] = reason[x]
  BY <1>1, <1>2, ReasonWritten DEF Reasons
<1>4. PICK p \in {"logout copy", "panic"} :
        Goto(r, p) /\ (p = "panic" => event[loginevent].status = Nil)
  BY <1>3
<1>5. /\ MoveFrame(r) /\ LoginFrame(r) /\ req' \in [Requests -> RequestState]
      /\ req'[r].pc = p /\ req'[r].kind = req[r].kind
      /\ req'[r].ok = req[r].ok /\ req'[r].e = req[r].e
      /\ req'[r].out = req[r].out /\ req'[r].then = req[r].then
  BY <1>1, <1>2, <1>4, GotoStep
     DEF Places, TokenPlaces, LogoutPlaces, FreshPlaces, loginVars
<1>6. HeapFrame(r)
  BY <1>1, <1>2, <1>3, <1>5, StatusFacts DEF HeapFrame
<1>7. FrontType'
  BY <1>1, <1>3, <1>5, SameTypes, TypeStep DEF loginVars
<1>8. RequestInv(r)'
  BY <1>1, <1>2, <1>4, <1>5, ARequest
     DEF RequestInv, TokenPlaces, LoginPlaces, LogoutPlaces, TokenKinds, loginVars
<1>9. loginevent' # r
  BY <1>1, <1>2, ARequest DEF LastInv, TokenKinds, loginVars
<1>10. r \in alone => p # "panic"
  BY <1>1, <1>4, LoneLogout DEF LogoutPlaces
<1> QED BY <1>1, <1>2, <1>4, <1>5, <1>6, <1>7, <1>8, <1>9, <1>10 DEF Step, Frame

\* ... and the event is cached.
LEMMA SendLogoutStep ==
  ASSUME FrontInv, load' = load, NEW r \in Requests, SendLogout(r) PROVE Step(r)
<1>1. /\ req[r].pc = "logout copy" /\ CacheEvent(r, loginevent)
      /\ UNCHANGED <<heap, loginVars, accepted, alone>>
  BY DEF SendLogout, At
<1>2. req[r].kind = "expired" /\ loginevent \in Requests
  BY <1>1, ARequest DEF RequestInv, LogoutPlaces
<1>3. /\ Frame(r) /\ FrontType' /\ RequestInv(r)' /\ (loginevent' = r => LastInv(r)')
      /\ req'[r].pc = "cache" /\ req'[r].kind = req[r].kind
  BY <1>1, <1>2, CacheStep
<1> QED BY <1>2, <1>3 DEF Step

\* A request goes on after cacheEvent.
LEMMA CachedStep ==
  ASSUME FrontInv, load' = load, NEW r \in Requests, req[r].pc = "cache",
         Goto(r, req[r].then), UNCHANGED <<heap, loginVars, alone>>,
         accepted' \in Seq(Copies)
  PROVE  /\ Step(r) /\ req'[r].kind = req[r].kind /\ req'[r].ok = req[r].ok
         /\ req[r].kind = "login" => req'[r].pc = "done"
         /\ req'[r].pc # "new"
<1>1. PICK p \in {"done", "respond"} : p = req[r].then
  BY ARequest DEF RequestState
<1>2. /\ MoveFrame(r) /\ LoginFrame(r) /\ req' \in [Requests -> RequestState]
      /\ req'[r].pc = p /\ req'[r].kind = req[r].kind /\ req'[r].ok = req[r].ok
      /\ req'[r].e = req[r].e /\ req'[r].out = req[r].out /\ req'[r].then = req[r].then
  BY <1>1, GotoStep DEF Places, TokenPlaces, LogoutPlaces, FreshPlaces, loginVars
<1>3. HeapFrame(r)
  BY SameHeap
<1>4. FrontType'
  BY <1>2, SameTypes, TypeStep DEF heap, loginVars
<1>5. p = "respond" => req[r].e # None
  BY <1>1, ARequest DEF RequestInv
<1>6. RequestInv(r)'
  BY <1>1, <1>2, <1>5, ARequest
     DEF RequestInv, TokenPlaces, LoginPlaces, LogoutPlaces, loginVars
<1>7. loginevent' = r => LastInv(r)'
  BY <1>1, <1>2, ARequest DEF LastInv, heap, FreshPlaces, loginVars
<1>8. req[r].kind = "login" => p = "done"
  BY <1>1, ARequest DEF RequestInv
<1>9. r \in alone' /\ req'[r].kind = "login" => LoneLogin(r)'
  BY <1>2, <1>8, ARequest DEF LoneLogin
<1> QED BY <1>1, <1>2, <1>3, <1>4, <1>6, <1>7, <1>8, <1>9 DEF Step, Frame

\* Request r, which is of kind k, starts.
LEMMA StartStep ==
  ASSUME FrontInv, NEW r \in Requests, NEW q \in RequestState, NEW k \in RequestKinds,
         req[r].pc = "new", q.pc # "new", Starts(r, k), q.kind = k,
         req' = [req EXCEPT ![r] = q], q.e \in {None, r},
         loginevent' \in {loginevent, r},
         q.pc \in LogoutPlaces => islogin,
         k \in TokenKinds /\ (q.pc \in TokenPlaces \/ q.e # None) => loginevent' = r,
         islogin' => islogin,
         k = "other" => UNCHANGED loginVars
  PROVE  /\ MoveFrame(r) /\ LoginFrame(r) /\ req' \in [Requests -> RequestState]
         /\ req'[r] = q /\ alone' \in SUBSET Requests
<1>1. /\ req' \in [Requests -> RequestState] /\ req'[r] = q
      /\ \A x \in Requests : x # r => req'[x] = req[x]
  BY DEF FrontInv, FrontType
<1>2. req[r].e = None
  BY NewRequest
<1>3. MoveFrame(r)
  BY <1>1, <1>2 DEF MoveFrame, FreshPlaces
<1>4. Busy(r)' => loginevent' = r
  BY <1>1 DEF Busy
<1>5. LoginFrame(r)
  BY <1>1, <1>4 DEF LoginFrame
<1>6. alone' \in SUBSET Requests
  BY SameTypes DEF Starts
<1> QED BY <1>1, <1>3, <1>5, <1>6

\* The kinds of the workload.
LEMMA LoadKinds ==
  ASSUME FrontInv, NEW r \in Requests PROVE load.kinds[r] \subseteq RequestKinds
<1>1. load \in [kinds : [Requests -> SUBSET RequestKinds], batches : Nat]
  BY AuditAssumption DEF FrontInv, FrontType
<1> QED BY <1>1

LEMMA LogNothingStep ==
  ASSUME FrontInv, load' = load, NEW r \in Requests, LogNothing(r) PROVE Step(r)
<1>1. PICK k \in RequestKinds :
        /\ k # "expired" /\ Starts(r, k)
        /\ req' = [req EXCEPT ![r].kind = k,
                              ![r].pc = IF k = "login" THEN "handle" ELSE "done"]
  BY LoadKinds DEF LogNothing
<1>2. PICK p \in {"handle", "done"} :
        /\ p = IF k = "login" THEN "handle" ELSE "done"
        /\ p = "handle" <=> k = "login"
  OBVIOUS
<1> DEFINE q == [req[r] EXCEPT !.kind = k, !.pc = p]
<1>3. /\ req[r].pc = "new" /\ req' = [req EXCEPT ![r] = q]
      /\ UNCHANGED <<heap, loginVars, accepted>>
  BY <1>1, <1>2 DEF LogNothing, At
<1>4. /\ req[r].e = None /\ loginevent # r /\ r \notin InFlight
      /\ req[r].then = "done" \/ k # "login"
  <2>1. req[r].then = "done"
    BY <1>3, NewRequest, ARequest DEF RequestInv, RequestState
  <2> QED BY <1>3, <2>1, NewRequest
<1>5. /\ q \in RequestState /\ q.pc = p /\ q.kind = k /\ q.ok = req[r].ok
      /\ q.e = None /\ q.out = req[r].out /\ q.then = req[r].then
  BY <1>2, <1>4, ARequest DEF RequestState, Places
<1> HIDE DEF q
<1>6. /\ MoveFrame(r) /\ LoginFrame(r) /\ req' \in [Requests -> RequestState]
      /\ req'[r] = q /\ alone' \in SUBSET Requests
  BY <1>1, <1>2, <1>3, <1>5, StartStep DEF LogoutPlaces, TokenPlaces, loginVars
<1>7. HeapFrame(r)
  BY <1>3, SameHeap
<1>8. FrontType'
  BY <1>3, <1>6, SameTypes, TypeStep DEF heap, loginVars
<1>9. RequestInv(r)'
  <2>1. /\ req'[r].pc = p /\ req'[r].kind = k /\ req'[r].e = None
        /\ req'[r].then = req[r].then
    BY <1>5, <1>6
  <2> QED BY <1>2, <1>4, <2>1, ARequest
          DEF RequestInv, TokenPlaces, LoginPlaces, LogoutPlaces
<1>10. loginevent' # r
  BY <1>3, <1>4 DEF loginVars
<1>11. req'[r].kind = "login" => LoneLogin(r)'
  BY <1>2, <1>5, <1>6 DEF LoneLogin
<1> QED BY <1>2, <1>5, <1>6, <1>7, <1>8, <1>9, <1>10, <1>11 DEF Step, Frame

LEMMA LogTokenStep ==
  ASSUME FrontInv, load' = load, NEW r \in Requests, LogToken(r) PROVE Step(r)
<1>1. PICK k \in TokenKinds :
        Starts(r, k) /\ req' = [req EXCEPT ![r].kind = k, ![r].pc = "mark"]
  BY DEF LogToken, TokenKinds
<1> DEFINE q == [req[r] EXCEPT !.kind = k, !.pc = "mark"]
<1>2. /\ req[r].pc = "new" /\ req' = [req EXCEPT ![r] = q] /\ loginevent' = r
      /\ UNCHANGED <<heap, loginUserName, loginerr, islogin, accepted>>
  BY <1>1 DEF LogToken, At
<1>3. req[r].e = None /\ k \in RequestKinds /\ k # "other" /\ r # None
  BY <1>2, NewRequest, NameFacts DEF TokenKinds, RequestKinds
<1>4. req[r].then = "done"
  BY <1>2, <1>3, ARequest DEF RequestInv, RequestState
<1>5. /\ q \in RequestState /\ q.pc = "mark" /\ q.kind = k /\ q.ok = req[r].ok
      /\ q.e = None /\ q.out = req[r].out /\ q.then = "done"
  BY <1>3, <1>4, ARequest DEF RequestState, Places, TokenPlaces
<1> HIDE DEF q
<1>6. /\ MoveFrame(r) /\ LoginFrame(r) /\ req' \in [Requests -> RequestState]
      /\ req'[r] = q /\ alone' \in SUBSET Requests
  BY <1>1, <1>2, <1>3, <1>5, StartStep DEF LogoutPlaces
<1>7. HeapFrame(r)
  BY <1>2, SameHeap
<1>8. FrontType'
  BY <1>2, <1>6, SameTypes, TypeStep DEF heap
<1>9. RequestInv(r)'
  <2>1. /\ req'[r].pc = "mark" /\ req'[r].kind = k /\ req'[r].e = None
        /\ req'[r].then = "done"
    BY <1>5, <1>6
  <2> QED BY <1>2, <1>3, <2>1 DEF RequestInv, TokenPlaces, LoginPlaces, LogoutPlaces
<1>10. LastInv(r)'
  BY <1>5, <1>6 DEF LastInv, FreshPlaces
<1>11. LoneLogin(r)'
  BY <1>5, <1>6 DEF LoneLogin
<1> QED BY <1>5, <1>6, <1>7, <1>8, <1>9, <1>10, <1>11 DEF Step, Frame

\* An event that a request allocates.
LEMMA EventMade ==
  ASSUME FrontInv, NEW r \in Requests, event' = [event EXCEPT ![r] = Object(User[r], TRUE)]
  PROVE  /\ event' \in [Requests -> EventState] /\ event'[r].user # Unnamed
         /\ event'[r].status = Nil
         /\ \A y \in Requests : y # r => event'[y] = event[y]
<1>1. Object(User[r], TRUE) \in EventState /\ User[r] # Unnamed
  BY NameFacts DEF Object, EventState
<1>2. Object(User[r], TRUE).user = User[r] /\ Object(User[r], TRUE).status = Nil
  BY DEF Object
<1>3. event'[r] = Object(User[r], TRUE)
  BY DEF FrontInv, FrontType
<1> QED BY <1>1, <1>2, <1>3, SameTypes

LEMMA LogLogoutStep ==
  ASSUME FrontInv, load' = load, NEW r \in Requests, LogLogout(r) PROVE Step(r)
<1> PICK c : c = Copy(r, r, User[r], RequestStatus(r))
  OBVIOUS
<1> DEFINE q == [req[r] EXCEPT !.kind = "logout", !.e = r, !.pc = "cache", !.out = c,
                               !.then = "respond"]
<1>1. /\ req[r].pc = "new" /\ req' = [req EXCEPT ![r] = q] /\ islogin' = FALSE
      /\ Starts(r, "logout")
      /\ event' = [event EXCEPT ![r] = Object(User[r], TRUE)]
      /\ reason' = [reason EXCEPT ![RequestStatus(r)] = "Logout successfully"]
      /\ UNCHANGED <<loginevent, loginUserName, loginerr, accepted>>
  BY DEF LogLogout, At
<1>2. loginevent # r /\ r # None
  BY <1>1, NewRequest, NameFacts
<1>3. c \in Copies /\ c.by = r
  BY NameFacts, StatusFacts DEF Copies, Copy
<1>4. /\ q \in RequestState /\ q.pc = "cache" /\ q.kind = "logout" /\ q.e = r
      /\ q.out = c /\ q.then = "respond"
  BY <1>3, ARequest DEF RequestState, Places, RequestKinds
<1> HIDE DEF q
<1>5. /\ MoveFrame(r) /\ LoginFrame(r) /\ req' \in [Requests -> RequestState]
      /\ req'[r] = q /\ alone' \in SUBSET Requests
  BY <1>1, <1>4, StartStep DEF LogoutPlaces, TokenPlaces, TokenKinds, RequestKinds
<1>6. /\ event' \in [Requests -> EventState] /\ event'[r].user # Unnamed
      /\ event'[r].status = Nil
      /\ \A y \in Requests : y # r => event'[y] = event[y]
  BY <1>1, EventMade
<1>7. /\ reason' \in [Statuses -> Reasons]
      /\ \A x \in Requests : x # r => reason'[RequestStatus(x)] = reason[RequestStatus(x)]
  <2>1. "Logout successfully" \in Reasons /\ RequestStatus(r) \in Statuses
    BY StatusFacts DEF Reasons
  <2>2. /\ reason' \in [Statuses -> Reasons]
        /\ \A x \in Statuses : x # RequestStatus(r) => reason'[x] = reason[x]
    BY <1>1, <2>1, ReasonSet
  <2> QED BY <2>2, StatusFacts
<1>8. HeapFrame(r)
  BY <1>6, <1>7 DEF HeapFrame
<1>9. FrontType'
  BY <1>1, <1>5, <1>6, <1>7, SameTypes, TypeStep
<1>10. RequestInv(r)'
  <2>1. /\ req'[r].pc = "cache" /\ req'[r].kind = "logout" /\ req'[r].e = r
        /\ req'[r].then = "respond" /\ req'[r].out.by = r
    BY <1>3, <1>4, <1>5
  <2> QED BY <1>2, <2>1 DEF RequestInv, TokenPlaces, LoginPlaces, LogoutPlaces
<1> QED BY <1>1, <1>2, <1>4, <1>5, <1>8, <1>9, <1>10 DEF Step, Frame

LEMMA LogOtherStep ==
  ASSUME FrontInv, load' = load, NEW r \in Requests, LogOther(r) PROVE Step(r)
<1> DEFINE q == [req[r] EXCEPT !.e = r, !.pc = "respond"]
<1>1. /\ req[r].pc = "new" /\ req' = [req EXCEPT ![r] = q]
      /\ event' = [event EXCEPT ![r] = Object(User[r], TRUE)]
      /\ UNCHANGED <<reason, loginVars, accepted, alone>>
  BY DEF LogOther, At
<1>2. loginevent # r /\ r # None /\ req[r].kind = "other"
  BY <1>1, NewRequest, NameFacts
<1>3. /\ q \in RequestState /\ q.pc = "respond" /\ q.kind = "other" /\ q.e = r
      /\ q.then = req[r].then
  BY <1>2, ARequest DEF RequestState, Places
<1> HIDE DEF q
<1>4. Starts(r, "other") /\ "other" \in RequestKinds
  BY <1>1 DEF Starts, RequestKinds
<1>5. /\ MoveFrame(r) /\ LoginFrame(r) /\ req' \in [Requests -> RequestState]
      /\ req'[r] = q /\ alone' \in SUBSET Requests
  BY <1>1, <1>3, <1>4, StartStep DEF LogoutPlaces, TokenPlaces, TokenKinds, loginVars
<1>6. /\ event' \in [Requests -> EventState] /\ event'[r].user # Unnamed
      /\ event'[r].status = Nil
      /\ \A y \in Requests : y # r => event'[y] = event[y]
  BY <1>1, EventMade
<1>7. HeapFrame(r)
  BY <1>1, <1>6 DEF HeapFrame
<1>8. FrontType'
  BY <1>1, <1>5, <1>6, SameTypes, TypeStep DEF loginVars
<1>9. RequestInv(r)'
  <2>1. req'[r].pc = "respond" /\ req'[r].kind = "other" /\ req'[r].e = r
    BY <1>3, <1>5
  <2> QED BY <1>2, <2>1 DEF RequestInv, TokenPlaces, LoginPlaces, LogoutPlaces
<1>10. loginevent' # r
  BY <1>1, <1>2 DEF loginVars
<1> QED BY <1>2, <1>3, <1>5, <1>7, <1>8, <1>9, <1>10 DEF Step, Frame

LEMMA VerifyStep ==
  ASSUME FrontInv, load' = load, NEW r \in Requests, Verify(r) PROVE Step(r)
<1>1. PICK p \in {"logout", "done"} :
        /\ p = IF islogin THEN "logout" ELSE "done"
        /\ p = "logout" => islogin
  OBVIOUS
<1> DEFINE q == [req[r] EXCEPT !.kind = "expired", !.pc = p]
<1>2. /\ req[r].pc = "new" /\ req' = [req EXCEPT ![r] = q] /\ Starts(r, "expired")
      /\ UNCHANGED <<heap, loginVars, accepted>>
  BY <1>1 DEF Verify, At
<1>3. req[r].e = None /\ loginevent # r /\ (p = "logout" => loginevent # None)
  BY <1>1, <1>2, NewRequest, ARequest
<1>4. /\ q \in RequestState /\ q.pc = p /\ q.kind = "expired" /\ q.e = None
      /\ q.then = req[r].then
  BY <1>1, <1>3, ARequest DEF RequestState, Places, LogoutPlaces, RequestKinds
<1> HIDE DEF q
<1>5. /\ MoveFrame(r) /\ LoginFrame(r) /\ req' \in [Requests -> RequestState]
      /\ req'[r] = q /\ alone' \in SUBSET Requests
  BY <1>1, <1>2, <1>4, StartStep
     DEF LogoutPlaces, TokenPlaces, TokenKinds, RequestKinds, loginVars
<1>6. HeapFrame(r)
  BY <1>2, SameHeap
<1>7. FrontType'
  BY <1>2, <1>5, SameTypes, TypeStep DEF heap, loginVars
<1>8. RequestInv(r)'
  <2>1. /\ req'[r].pc = p /\ req'[r].kind = "expired" /\ req'[r].e = None
        /\ req'[r].then = req[r].then
    BY <1>4, <1>5
  <2>2. req[r].then # "respond" /\ loginevent' = loginevent
    BY <1>2, <1>3, ARequest DEF RequestInv, loginVars
  <2> QED BY <1>1, <1>3, <2>1, <2>2
          DEF RequestInv, TokenPlaces, LoginPlaces, LogoutPlaces
<1>9. loginevent' # r
  BY <1>2, <1>3 DEF loginVars
<1> QED BY <1>1, <1>4, <1>5, <1>6, <1>7, <1>8, <1>9 DEF Step, Frame

LEMMA CacheTimeoutStep ==
  ASSUME FrontInv, load' = load, NEW r \in Requests, CacheTimeout(r) PROVE Step(r)
<1>1. /\ req[r].pc = "cache" /\ Goto(r, req[r].then)
      /\ UNCHANGED <<heap, loginVars, accepted, alone>>
  BY DEF CacheTimeout, At
<1>2. accepted' \in Seq(Copies)
  BY <1>1, SameTypes
<1> QED BY <1>1, <1>2, CachedStep

\* The event enters the channel: what a lone login has recorded is its own.
LEMMA EnqueueFront ==
  ASSUME FrontInv, load' = load, NEW r \in Requests, Enqueue(r) PROVE FrontInv'
<1> PICK c : c = req[r].out
  OBVIOUS
<1>1. /\ req[r].pc = "cache" /\ Goto(r, req[r].then) /\ accepted' = Append(accepted, c)
      /\ UNCHANGED <<heap, loginVars, alone>>
  BY DEF Enqueue, At
<1>2. c \in Copies /\ c.by = r /\ accepted \in Seq(Copies)
  BY <1>1, ARequest, SameTypes DEF RequestInv, RequestState
<1>3. /\ accepted' \in Seq(Copies) /\ Len(accepted') = Len(accepted) + 1
      /\ accepted'[Len(accepted) + 1] = c
      /\ \A n \in 1..Len(accepted) : accepted'[n] = accepted[n]
  BY <1>1, <1>2, AppendProperties
<1>4. /\ Step(r) /\ req'[r].kind = req[r].kind /\ req'[r].ok = req[r].ok
      /\ req[r].kind = "login" => req'[r].pc = "done"
      /\ req'[r].pc # "new"
  BY <1>1, <1>3, CachedStep
<1>5. ASSUME r \in alone, req[r].kind = "login"
      PROVE  c = Copy(r, r, User[r], RequestStatus(r)) /\ Kept(r)'
  <2>1. LoneInv(r) /\ LoneLogin(r) /\ r \in InFlight
    BY <1>1, <1>5, ARequest DEF LoneInv, InFlight
  <2>2. /\ c = Copy(r, r, User[r], RequestStatus(r))
        /\ reason[RequestStatus(r)] = Outcome(r) /\ (islogin => req[r].ok)
    BY <1>1, <2>1 DEF LoneLogin
  <2>3. Outcome(r)' = Outcome(r)
    BY <1>4 DEF Outcome
  <2>4. ASSUME NEW x \in Requests, req'[x].pc \in LogoutPlaces PROVE FALSE
    <3>1. x # r /\ req'[x] = req[x]
      BY <1>4, <1>5, <2>4, StepFacts DEF Step, LogoutPlaces
    <3>2. req[x].kind = "expired"
      BY <2>4, <3>1, ARequest DEF RequestInv
    <3>3. x \in InFlight
      BY <2>4, <3>1, <3>2 DEF InFlight, LogoutPlaces
    <3> QED BY <2>1, <3>1, <3>3 DEF LoneInv
  <2> QED BY <1>1, <1>4, <1>5, <2>2, <2>3, <2>4 DEF Kept, heap, loginVars
<1>6. ASSUME NEW n \in DOMAIN accepted' PROVE RecordOf(n)'
  <2>1. n \in 1..(Len(accepted) + 1) /\ Len(accepted) \in Nat
        /\ DOMAIN accepted = 1..Len(accepted)
    BY <1>2, <1>3, <1>6, LenProperties
  <2>2. CASE n \in DOMAIN accepted
    <3>1. accepted'[n] = accepted[n]
      BY <1>3, <2>1, <2>2
    <3> QED BY <1>4, <2>2, <3>1, StepRecordOf
  <2>3. CASE n \notin DOMAIN accepted
    <3>1. n = Len(accepted) + 1
      BY ONLY <2>1, <2>3
    <3>2. accepted'[n] = c
      BY <1>3, <3>1
    <3>3. ASSUME NEW b, b = c.by
          PROVE  /\ req'[b].pc # "new"
                 /\ b = c.req /\ b \in alone' /\ req'[b].kind = "login" =>
                      c = Copy(b, b, User[b], RequestStatus(b)) /\ Kept(b)'
      BY <1>1, <1>2, <1>4, <1>5, <3>3
    <3> QED BY <3>2, <3>3 DEF RecordOf
  <2> QED BY <2>2, <2>3
<1>7. RecordInv'
  BY <1>6 DEF RecordInv, RecordOf
<1> QED BY <1>4, <1>7, StepRest

-----------------------------------------------------------------------------
(* The whole system.                                                         *)

IndInv == FrontInv /\ BackInv

LEMMA InitFront == Init => FrontInv
<1> SUFFICES ASSUME Init PROVE FrontInv
  OBVIOUS
<1>1. \A r \in Requests : Copy(r, r, "", Nil) \in Copies
  BY NameFacts DEF Copy, Copies
<1>2. /\ req = [r \in Requests |->
                  [pc |-> "new", kind |-> "other", ok |-> FALSE, e |-> None,
                   out |-> Copy(r, r, "", Nil), then |-> "done"]]
      /\ event = [r \in Requests |-> Object("", FALSE)]
      /\ reason = [p \in Statuses |-> ""]
  BY DEF Init
<1>3. /\ loginevent = None /\ loginUserName = "" /\ loginerr = TRUE /\ islogin = FALSE
      /\ accepted = <<>> /\ alone = {} /\ load \in Workloads
  BY DEF Init
<1>4. req \in [Requests -> RequestState]
  BY <1>1, <1>2 DEF RequestState, RequestKinds, Places
<1>5. event \in [Requests -> EventState] /\ reason \in [Statuses -> Reasons]
  BY <1>2, NameFacts DEF EventState, Object, Reasons
<1>6. FrontType
  BY <1>3, <1>4, <1>5, EmptySeq DEF FrontType, UserNames
<1>7. ASSUME NEW r \in Requests
      PROVE  /\ req[r].pc = "new" /\ req[r].kind = "other" /\ req[r].e = None
             /\ req[r].then = "done" /\ event[r].user = "" /\ event[r].status = Nil
  BY <1>2 DEF Object
<1>8. ASSUME NEW r \in Requests PROVE RequestInv(r)
  BY <1>7 DEF RequestInv, TokenPlaces, LoginPlaces, LogoutPlaces
<1>9. HeapInv
  BY <1>3, <1>7, NameFacts, StatusFacts DEF HeapInv
<1>10. RecordInv
  <2>1. accepted \in Seq(Copies) /\ Len(accepted) = 0
    BY <1>3, EmptySeq
  <2>2. DOMAIN accepted = 1..0
    BY <2>1, LenProperties
  <2> QED BY <2>2 DEF RecordInv
<1> QED BY <1>3, <1>6, <1>8, <1>9, <1>10 DEF FrontInv

LEMMA InitBack == Init => BackInv
<1> SUFFICES ASSUME Init PROVE BackInv
  OBVIOUS
<1>1. /\ cache = <<>> /\ items = <<>> /\ batches = <<>> /\ slots = 0 /\ dropped = <<>>
      /\ accepted = <<>>
  BY DEF Init
<1>2. BackType
  BY <1>1, Capacities DEF BackType
<1>3. Using = {} /\ Cardinality(Using) = 0
  BY <1>1, FS_EmptySet DEF Using
<1>4. SenderInv
  BY <1>1, <1>3 DEF SenderInv
<1>5. OnceInOrder
  <2>1. EventsOf(batches) = <<>>
    BY <1>1 DEF EventsOf
  <2>2. FlattenSeq(<<>>) = <<>>
    BY DEF FlattenSeq
  <2>3. <<>> \o <<>> \o <<>> \o <<>> = <<>> /\ Len(<<>>) < BatchSize
    BY EmptySeq, ConcatEmptySeq, Capacities
  <2> QED BY <1>1, <2>1, <2>2, <2>3 DEF OnceInOrder
<1> QED BY <1>2, <1>4, <1>5 DEF BackInv

\* Requests start and go on without the worker ...
LEMMA FrontAlone ==
  ASSUME FrontInv, load' = load, UNCHANGED <<req, heap, loginVars, accepted, alone>>
  PROVE  FrontInv'
<1> USE DEF FrontInv, loginVars, heap
<1>1. FrontType'
  BY DEF FrontType
<1>2. \A r \in Requests : RequestInv(r)'
  BY DEF RequestInv
<1>3. HeapInv'
  BY DEF HeapInv
<1>4. loginevent' # None => LastInv(loginevent)'
  BY DEF LastInv
<1>5. InFlight' = InFlight /\ (Expired <=> Expired')
  BY DEF InFlight, Expired
<1>6. \A r : Outcome(r)' = Outcome(r) /\ (Busy(r)' <=> Busy(r))
  BY DEF Outcome, Busy
<1>7. ASSUME NEW r \in alone PROVE LoneInv(r)'
  <2>1. LoneInv(r)
    OBVIOUS
  <2>2. Apart(r) => Apart(r)'
    BY <1>6 DEF Apart
  <2>3. LoneLogin(r) => LoneLogin(r)'
    BY <1>6 DEF LoneLogin
  <2> QED BY <1>5, <2>1, <2>2, <2>3 DEF LoneInv
<1>8. \A r : Kept(r) => Kept(r)'
  BY <1>5, <1>6 DEF Kept
<1>9. RecordInv'
  BY <1>8 DEF RecordInv
<1> QED BY <1>1, <1>2, <1>3, <1>4, <1>7, <1>9

\* ... and the worker without the requests, but for the events they enqueue.
LEMMA BackAlone ==
  ASSUME BackInv, UNCHANGED <<cache, backVars, accepted>> PROVE BackInv'
BY DEF BackInv, BackType, SenderInv, Timely, Using, OnceInOrder, EventsOf, backVars

LEMMA RequestStepInd ==
  ASSUME IndInv, load' = load, NEW r \in Requests, RequestStep(r) PROVE IndInv'
<1> USE DEF IndInv
<1>1. CASE Enqueue(r)
  <2>1. req[r].out \in Copies
    BY ARequest DEF RequestState
  <2> QED BY <1>1, <2>1, EnqueueFront, EnqueueBack
<1>2. ASSUME Step(r), UNCHANGED <<cache, backVars, accepted>> PROVE IndInv'
  BY <1>2, StepInd, BackAlone
<1>3. CASE LogNothing(r) \/ LogLogout(r) \/ LogOther(r)
  BY <1>2, <1>3, LogNothingStep, LogLogoutStep, LogOtherStep
     DEF LogNothing, LogLogout, LogOther
<1>4. CASE TokenStep(r)
  BY <1>2, <1>4, LogTokenStep, TokenUserStep, TokenSourceStep, TokenStatusStep,
     TokenReasonStep, TokenReturnStep
     DEF TokenStep, LogToken, TokenUser, TokenSource, TokenStatus, TokenReason, TokenReturn
<1>5. CASE SetLoginErr(r) \/ SetLoginUserName(r) \/ CacheTimeout(r)
  BY <1>2, <1>5, SetLoginErrStep, SetLoginUserNameStep, CacheTimeoutStep
     DEF SetLoginErr, SetLoginUserName, CacheTimeout
<1>6. CASE ResponseStep(r)
  <2>1. CASE LogResponseObject(r) \/ LogLogin(r) \/ LogOutcome(r)
    BY <1>2, <2>1, LogResponseObjectStep, LogLoginStep, LogOutcomeStep
       DEF LogResponseObject, LogLogin, LogOutcome
  <2>2. CASE LogFailed(r) \/ LogSucceeded(r) \/ LogAddress(r)
    BY <1>2, <2>2, LogFailedStep, LogSucceededStep, LogAddressStep
       DEF LogFailed, LogSucceeded, LogAddress
  <2>3. CASE LogUserName(r) \/ LogCode(r) \/ LogCopy(r)
    BY <1>2, <2>3, LogUserNameStep, LogCodeStep, LogCopyStep
       DEF LogUserName, LogCode, LogCopy
  <2> QED BY <1>6, <2>1, <2>2, <2>3 DEF ResponseStep
<1>7. CASE LogoutStep(r)
  <2>1. CASE Verify(r) \/ LogoutBegin(r) \/ LogoutAddress(r)
    BY <1>2, <2>1, VerifyStep, LogoutBeginStep, LogoutAddressStep
       DEF Verify, LogoutBegin, LogoutAddress
  <2>2. CASE LogoutName(r) \/ LogoutReason(r) \/ SendLogout(r)
    BY <1>2, <2>2, LogoutNameStep, LogoutReasonStep, SendLogoutStep
       DEF LogoutName, LogoutReason, SendLogout
  <2> QED BY <1>7, <2>1, <2>2 DEF LogoutStep
<1> QED BY <1>1, <1>3, <1>4, <1>5, <1>6, <1>7 DEF RequestStep

LEMMA WorkerStepInd ==
  ASSUME IndInv, load' = load,
         Collect \/ IntervalOver \/ Stop \/ (\E n \in DOMAIN batches : SenderStep(n))
  PROVE  IndInv'
<1> USE DEF IndInv
<1>1. CASE Collect
  BY <1>1, CollectInd, FrontAlone DEF Collect
<1>2. CASE IntervalOver
  BY <1>2, IntervalOverInd, FrontAlone DEF IntervalOver
<1>3. CASE Stop
  BY <1>3, StopInd, FrontAlone DEF Stop
<1>4. ASSUME NEW n \in DOMAIN batches, SenderStep(n) PROVE IndInv'
  <2>1. FrontInv'
    BY <1>4, FrontAlone DEF SenderStep, Acquire, AcquireTimeout, Posted, Report,
         SendTimeout, ReleaseSlot, frontVars
  <2> QED BY <1>4, <2>1, AcquireInd, AcquireTimeoutInd, PostedInd, ReportInd,
            SendTimeoutInd, ReleaseSlotInd DEF SenderStep
<1> QED BY <1>1, <1>2, <1>3, <1>4

\* The invariant holds in every reachable state: a lone token request has its
\* event and its status to itself while it works on them, the event loginevent
\* points to is complete or its request is still completing it, what a lone login
\* has recorded is changed by nothing but a later expired token, and the worker
\* and the senders account for every event and every slot.
THEOREM AuditInductive == Spec => []IndInv
<1>1. Init => IndInv
  BY InitFront, InitBack DEF IndInv
<1>2. IndInv /\ [Next]_vars => IndInv'
  <2> SUFFICES ASSUME IndInv, [Next]_vars PROVE IndInv'
    OBVIOUS
  <2>1. CASE Next
    BY <2>1, RequestStepInd, WorkerStepInd DEF Next
  <2>2. CASE UNCHANGED vars
    BY <2>2, FrontAlone, BackAlone DEF vars, IndInv
  <2> QED BY <2>1, <2>2
<1> QED BY <1>1, <1>2, PTL DEF Spec

\* Events, statuses and copies are such wherever they are, and the channel, the
\* batches and the sender slots keep within their capacities.
THEOREM AuditTypes == Spec => []TypeOK
<1>1. IndInv => TypeOK
  <2> SUFFICES ASSUME IndInv PROVE TypeOK
    OBVIOUS
  <2>1. \A r \in Requests : req[r].out \in Copies /\ req[r].e \in Requests \cup {None}
    BY DEF IndInv, FrontInv, FrontType, RequestState
  <2>2. /\ event \in [Requests -> EventState] /\ reason \in [Statuses -> Reasons]
        /\ loginevent \in Requests \cup {None}
    BY DEF IndInv, FrontInv, FrontType
  <2> QED BY <2>1, <2>2 DEF IndInv, BackInv, BackType, TypeOK, EventState
<1> QED BY AuditInductive, <1>1, PTL

\* Between the cache and the senders no accepted event is lost, repeated or
\* moved, whatever the capacities and however collecting, timing out and sending
\* interleave, until the worker ends; then a batch that is not full is dropped.
THEOREM AuditOnceInOrder == Spec => []OnceInOrder
<1>1. IndInv => OnceInOrder
  BY DEF IndInv, BackInv
<1> QED BY AuditInductive, <1>1, PTL

\* As long as no sendEvents has given up, the elements of senderCh are those of
\* the batches that use them, so no more than SendersNum are posted at a time.
THEOREM AuditTimelySenders == Spec => []TimelySenders
<1>1. IndInv => TimelySenders
  <2> SUFFICES ASSUME IndInv, Timely PROVE
        /\ SendersBounded
        /\ slots = Cardinality(Using)
        /\ \A n \in DOMAIN batches : batches[n].sn = "report" => batches[n].se = "wait"
    BY DEF TimelySenders, Timely
  <2>1. /\ slots = Cardinality(Using) /\ slots \in 0..SendersNum
        /\ \A n \in DOMAIN batches :
             batches[n].sn = "done" <=> batches[n].se \in {"release", "done"}
    BY DEF IndInv, BackInv, BackType, SenderInv
  <2>2. Posting \subseteq Using /\ IsFiniteSet(Using)
    BY UsingFinite DEF Posting, Using, IndInv, BackInv, BackType
  <2>3. Cardinality(Posting) <= Cardinality(Using)
    BY <2>2, FS_Subset
  <2>4. SendersBounded
    BY <2>1, <2>2, <2>3, Capacities, FS_Subset, FS_CardinalityType DEF SendersBounded
  <2>5. ASSUME NEW n \in DOMAIN batches, batches[n].sn = "report"
        PROVE  batches[n].se = "wait"
    <3>1. batches[n] \in BatchState
      BY ABatch DEF IndInv, BackInv, BackType
    <3> QED BY <2>1, <2>5, <3>1 DEF BatchState
  <2> QED BY <2>1, <2>4, <2>5
<1> QED BY AuditInductive, <1>1, PTL

\* What a login that met no other token request, logout or expired token has
\* recorded has its own user, and its own outcome unless an expired token that came
\* later has turned it into a logout through the status they share.
THEOREM AuditLoneLoginTruthful == Spec => []LoneLoginTruthful
<1>1. IndInv => LoneLoginTruthful
  <2> SUFFICES ASSUME IndInv PROVE LoneLoginTruthful
    OBVIOUS
  <2>1. ASSUME NEW n \in DOMAIN accepted,
               /\ req[accepted[n].req].kind = "login" /\ accepted[n].req \in alone
               /\ accepted[n].by = accepted[n].req
        PROVE  /\ accepted[n].user = User[accepted[n].req]
               /\ \/ reason[accepted[n].status] = Outcome(accepted[n].req)
                  \/ /\ reason[accepted[n].status] = "Logout successfully"
                     /\ req[accepted[n].req].ok /\ Expired
    <3> PICK c : c = accepted[n]
      OBVIOUS
    <3> PICK b : b = c.req
      OBVIOUS
    <3>1. c = Copy(b, b, User[b], RequestStatus(b)) /\ Kept(b)
      BY <2>1 DEF IndInv, FrontInv, RecordInv
    <3>2. c.user = User[b] /\ c.status = RequestStatus(b)
      BY <3>1 DEF Copy
    <3> QED BY <3>1, <3>2 DEF Kept
  <2> QED BY <2>1 DEF LoneLoginTruthful
<1> QED BY AuditInductive, <1>1, PTL

\* A request that met no other login or logout dereferences no nil pointer: an
\* expired token finds the event of the last token request complete, and a token
\* request its own.
THEOREM AuditLoneNeverPanics == Spec => []LoneNeverPanics
<1>1. IndInv => LoneNeverPanics
  BY DEF IndInv, FrontInv, LoneInv, LoneNeverPanics
<1> QED BY AuditInductive, <1>1, PTL
=============================================================================
