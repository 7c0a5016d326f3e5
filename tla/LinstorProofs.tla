--------------------------- MODULE LinstorProofs ---------------------------
(***************************************************************************)
(* Proofs about Linstor, for any number of requests, resources, nodes and  *)
(* hosts.  The invariant has three parts: where a request can be and what  *)
(* it is then, the resources in the controller as seen by a request that   *)
(* is by itself and by one that has made a resource, and the connections   *)
(* with the commands that were run over them.                              *)
(***************************************************************************)
EXTENDS Linstor, ListFacts

-----------------------------------------------------------------------------
(* The inductive invariant.                                                  *)

CreatePcs == {"get", "define", "volume", "place", "rollback"}
RemovePcs == {"replicas", "remove", "remove again"}
SshPcs == {"dial", "append", "range", "run", "again"}

Pcs == CreatePcs \cup RemovePcs \cup SshPcs \cup {"new", "delete", "add", "done"}
Answers == {"", "bad size", "exists", "created", "failed", "not rolled back", "done",
            "cut off", "panicked", "no such node", "listed"}

RequestState ==
  [pc : Pcs, kind : ResourceKinds \cup LvmKinds \cup {""}, i : Nat \ {0},
   conns : Seq(Nodes), answer : Answers]

Modes == {"none", "diskful", "diskless"}
DefState == [exists : BOOLEAN, volumes : Nat, place : [Nodes -> Modes]]

TypeInv ==
  /\ defs \in [Names -> DefState]
  /\ req \in [Requests -> RequestState]
  /\ connects \in Seq(Nodes) /\ executed \in Seq(Requests \X Nodes) /\ cut \in BOOLEAN
  /\ intact \in SUBSET Requests /\ alone \in [Names -> SUBSET Requests]

\* What a request is where it is, and how far its loop has come.
Control(r) ==
  /\ req[r].pc = "new" <=> req[r].kind = ""
  /\ req[r].pc = "new" => req[r].answer = ""
  /\ req[r].pc \in CreatePcs => req[r].kind = "create" /\ req[r].answer = ""
  /\ req[r].pc \in RemovePcs => req[r].kind = "decrease"
  /\ req[r].pc \in SshPcs => req[r].kind \in LvmKinds
  /\ req[r].pc = "delete" => req[r].kind = "delete"
  /\ req[r].pc = "add" => req[r].kind \in {"increase", "diskless"}
  /\ req[r].pc \in RemovePcs \cup {"place", "add"} => req[r].i <= Len(Targets[r])
  /\ req[r].pc \in {"new", "get", "define", "volume", "range", "run", "again"} =>
       req[r].i = 1
  /\ req[r].pc = "dial" => req[r].i = 1 \/ req[r].i <= Len(Hosts)
  /\ req[r].pc = "append" => req[r].i <= Len(Hosts)

\* A request for a resource that is by itself: what it has made stays, and what
\* it has rolled back is gone.
AloneState(r) ==
  /\ req[r].kind = "create" /\ req[r].answer = "failed" => ~Def(r).exists
  /\ req[r].pc = "place" =>
       /\ Def(r).volumes > 0
       /\ \A j \in 1..(req[r].i - 1) : Def(r).place[Targets[r][j]] = "diskful"

Alone(r) == req[r].kind \in ResourceKinds /\ InFlight(r) = {} /\ AloneState(r)

\* A resource that was made: no other creation is past its check.
Made(r) ==
  /\ Def(r).exists /\ Def(r).volumes > 0
  /\ \A d \in ToSet(Targets[r]) \ Removed(Name[r]) : Def(r).place[d] = "diskful"

Intact(r) ==
  /\ req[r].kind = "create" /\ req[r].pc = "done" /\ Made(r)
  /\ \A s \in Requests : Name[s] = Name[r] => req[s].pc \notin CreatePcs \ {"get"}

StoreInv ==
  /\ \A n \in Names : \A r \in alone[n] : Name[r] = n /\ Alone(r)
  /\ \A r \in intact : Intact(r)

\* The list of connections starts with the first host for everybody who has
\* stored an entry, and ends with the last one when nobody builds it.
Headed(c) == c # <<>> /\ Head(c) = Head(Hosts)

ConnectInv ==
  /\ ~cut =>
       /\ connects = <<>> \/ Headed(connects)
       /\ \A r \in Requests :
            /\ req[r].pc = "dial" /\ req[r].i > 1 => Headed(connects)
            /\ req[r].pc = "append" /\ req[r].i > 1 => Headed(req[r].conns)
            /\ req[r].pc = "append" /\ req[r].i = 1 =>
                 req[r].conns = <<>> \/ Headed(req[r].conns)
  /\ (\A r \in Requests : req[r].pc \notin {"dial", "append"}) =>
       connects = <<>> \/ Last(connects) = Last(Hosts)
  /\ Hosts = <<>> => connects = <<>>

\* A request that has run its command has ended.
CommandInv ==
  /\ \A k \in DOMAIN executed : req[executed[k][1]].pc = "done"
  /\ CommandOnce

IndInv ==
  /\ TypeInv
  /\ \A r \in Requests : Control(r)
  /\ StoreInv
  /\ ConnectInv /\ CommandInv

-----------------------------------------------------------------------------
(* Facts about one request, and what a step leaves alone.                    *)

LEMMA Constants ==
  /\ \A r \in Requests : /\ Kinds[r] \subseteq ResourceKinds \cup LvmKinds
                         /\ Name[r] \in Names
                         /\ Targets[r] \in Seq(Nodes) /\ Len(Targets[r]) \in Nat
  /\ Hosts \in Seq(Nodes) /\ Len(Hosts) \in Nat
<1>1. /\ \A r \in Requests : /\ Kinds[r] \subseteq ResourceKinds \cup LvmKinds
                             /\ Name[r] \in Names
                             /\ Targets[r] \in Seq(Nodes)
      /\ Hosts \in Seq(Nodes)
  BY LinstorAssumption
<1> QED BY <1>1, LenProperties

\* Requests for resources and for LVM are not the same.
LEMMA KindsApart ==
  /\ \A k \in LvmKinds : k \notin ResourceKinds /\ k # ""
  /\ "" \notin ResourceKinds
  /\ "create" \in ResourceKinds /\ "delete" \in ResourceKinds
  /\ "increase" \in ResourceKinds /\ "diskless" \in ResourceKinds
  /\ "decrease" \in ResourceKinds
BY DEF LvmKinds, ResourceKinds

LEMMA ARequest ==
  ASSUME IndInv, NEW r \in Requests
  PROVE  /\ req[r] \in RequestState /\ Control(r) /\ Def(r) \in DefState
         /\ Name[r] \in Names /\ Len(Targets[r]) \in Nat
         /\ r \in alone[Name[r]] => Alone(r)
BY Constants DEF IndInv, TypeInv, Def, StoreInv

LEMMA NoDefType == NoDef \in DefState /\ ~NoDef.exists
BY DEF NoDef, DefState, Modes

LEMMA OtherControl ==
  ASSUME NEW x \in Requests, Control(x), req'[x] = req[x] PROVE Control(x)'
BY DEF Control

\* Nobody stops being a request to remove replicas.
LEMMA RemovedGrows ==
  ASSUME \A x \in Requests : req[x].kind = "decrease" => req'[x].kind = "decrease",
         NEW n
  PROVE  Removed(n) \subseteq Removed(n)'
BY DEF Removed

\* A step that is not about resources, or cuts the requests about them off.
LEMMA StoreKept ==
  ASSUME IndInv, UNCHANGED storeVars,
         \A x \in Requests :
           \/ req'[x] = req[x]
           \/ /\ req[x].kind \notin ResourceKinds /\ req'[x].kind \notin ResourceKinds
              /\ req'[x].pc \notin CreatePcs
           \/ /\ req'[x].kind = req[x].kind /\ req'[x].pc = "done"
              /\ req'[x].answer # "failed"
  PROVE  StoreInv'
<1>1. ASSUME NEW x \in Requests PROVE InFlight(x)' \subseteq InFlight(x)
  BY DEF InFlight
<1>2. \A n : Removed(n) \subseteq Removed(n)'
  BY RemovedGrows, KindsApart
<1>3. \A x : Def(x)' = Def(x)
  BY DEF Def, storeVars
<1>4. ASSUME NEW n \in Names, NEW x \in alone[n] PROVE Name[x] = n /\ Alone(x)'
  <2>1. x \in Requests /\ Name[x] = n /\ Alone(x)
    BY <1>4 DEF IndInv, TypeInv, StoreInv
  <2>2. CASE req'[x] = req[x]
    BY <1>1, <1>3, <2>1, <2>2 DEF Alone, AloneState
  <2>3. CASE /\ req'[x].kind = req[x].kind /\ req'[x].pc = "done"
             /\ req'[x].answer # "failed"
    BY <1>1, <1>3, <2>1, <2>3 DEF Alone, AloneState
  <2> QED BY <2>1, <2>2, <2>3 DEF Alone
<1>5. ASSUME NEW x \in intact PROVE Intact(x)'
  <2>1. x \in Requests /\ Intact(x)
    BY DEF IndInv, TypeInv, StoreInv
  <2>2. Made(x)'
    BY <1>2, <1>3, <2>1 DEF Made, Intact
  <2>3. req'[x].kind = "create" /\ req'[x].pc = "done"
    BY <2>1, KindsApart DEF Intact
  <2>4. ASSUME NEW s \in Requests, Name[s] = Name[x]
        PROVE  req'[s].pc \notin CreatePcs \ {"get"}
    BY <2>1, <2>4 DEF Intact, CreatePcs
  <2> QED BY <2>2, <2>3, <2>4 DEF Intact
<1> QED BY <1>4, <1>5 DEF StoreInv, storeVars

\* A command was run once and for all: its request has ended.
LEMMA CommandKept ==
  ASSUME IndInv, executed' = executed,
         \A x \in Requests : req[x].pc = "done" => req'[x] = req[x]
  PROVE  CommandInv'
<1>1. ASSUME NEW k \in DOMAIN executed
      PROVE  /\ req'[executed[k][1]].pc = "done"
             /\ DiskNode(executed[k][1])' = DiskNode(executed[k][1])
  <2>1. executed[k] \in Requests \X Nodes
    BY ElementOfSeq, LenProperties DEF IndInv, TypeInv
  <2>2. executed[k][1] \in Requests /\ req[executed[k][1]].pc = "done"
    BY <2>1 DEF IndInv, CommandInv
  <2>3. req'[executed[k][1]] = req[executed[k][1]]
    BY <2>2
  <2> QED BY <2>2, <2>3 DEF DiskNode
<1> QED BY <1>1 DEF IndInv, CommandInv, CommandOnce

\* A request that does not build the list goes on, or sets the list to nil.
LEMMA ConnectKept ==
  ASSUME IndInv, NEW r \in Requests, req[r].pc \notin {"dial", "append"},
         NEW q, req' = [req EXCEPT ![r] = q], q.pc # "append", q.pc = "dial" => q.i = 1,
         \/ connects' = connects /\ cut' = cut
         \/ connects' = <<>> /\ cut' = TRUE
  PROVE  ConnectInv'
<1>1. \A x \in Requests : req'[x] = IF x = r THEN q ELSE req[x]
  BY DEF IndInv, TypeInv
<1>2. ConnectInv
  BY DEF IndInv
<1>3. CASE connects' = connects /\ cut' = cut
  <2>1. ASSUME ~cut, NEW x \in Requests
        PROVE  /\ req'[x].pc = "dial" /\ req'[x].i > 1 => Headed(connects)
               /\ req'[x].pc = "append" /\ req'[x].i > 1 => Headed(req'[x].conns)
               /\ req'[x].pc = "append" /\ req'[x].i = 1 =>
                    req'[x].conns = <<>> \/ Headed(req'[x].conns)
    <3>1. CASE x = r
      BY <1>1, <3>1
    <3>2. CASE x # r
      BY <1>1, <1>2, <2>1, <3>2 DEF ConnectInv
    <3> QED BY <3>1, <3>2
  <2>2. ASSUME \A x \in Requests : req'[x].pc \notin {"dial", "append"}
        PROVE  connects = <<>> \/ Last(connects) = Last(Hosts)
    <3>1. \A x \in Requests : req[x].pc \notin {"dial", "append"}
      BY <1>1, <2>2
    <3> QED BY <3>1, <1>2 DEF ConnectInv
  <2> QED BY <1>2, <1>3, <2>1, <2>2 DEF ConnectInv, Headed
<1>4. CASE connects' = <<>> /\ cut' = TRUE
  BY <1>4 DEF ConnectInv
<1> QED BY <1>3, <1>4

-----------------------------------------------------------------------------
(* The requests for resources.                                               *)

\* Such a request moves on to q and changes the definition of its resource to d:
\* what is left to show is about the request itself and its resource.
LEMMA ResourceStep ==
  ASSUME IndInv, NEW r \in Requests, req[r].pc \notin {"new", "done"},
         req[r].kind \in ResourceKinds,
         NEW q \in RequestState, q.kind = req[r].kind,
         req' = [req EXCEPT ![r] = q],
         NEW d \in DefState, defs' = [defs EXCEPT ![Name[r]] = d],
         UNCHANGED <<alone, sshVars>>, intact' \in SUBSET Requests,
         \A x \in intact' : Name[x] # Name[r] => x \in intact,
         \A x \in intact' : Name[x] = Name[r] => Intact(x)',
         Control(r)', r \in alone[Name[r]] => AloneState(r)'
  PROVE  IndInv'
<1>1. /\ \A x \in Requests : req'[x] = IF x = r THEN q ELSE req[x]
      /\ req' \in [Requests -> RequestState] /\ req'[r] = q
  BY DEF IndInv, TypeInv
<1>2. /\ \A n \in Names : n # Name[r] => defs'[n] = defs[n]
      /\ defs' \in [Names -> DefState]
  BY DEF IndInv, TypeInv
<1>3. TypeInv'
  BY <1>1, <1>2 DEF IndInv, TypeInv, sshVars
<1>4. ASSUME NEW x \in Requests PROVE Control(x)'
  BY <1>1, OtherControl DEF IndInv
<1>5. ASSUME NEW x \in Requests PROVE InFlight(x)' \subseteq InFlight(x)
  BY <1>1 DEF InFlight
<1>6. ASSUME NEW n \in Names, NEW x \in alone[n] PROVE Name[x] = n /\ Alone(x)'
  <2>1. x \in Requests /\ Name[x] = n /\ Alone(x)
    BY <1>6 DEF IndInv, TypeInv, StoreInv
  <2>2. CASE x = r
    BY <1>1, <1>5, <1>6, <2>1, <2>2 DEF Alone
  <2>3. CASE x # r
    <3>1. Name[r] # n
      BY <2>1, <2>3 DEF Alone, InFlight
    <3>2. Def(x)' = Def(x) /\ req'[x] = req[x]
      BY <1>1, <1>2, <2>1, <2>3, <3>1 DEF Def
    <3> QED BY <1>5, <2>1, <3>2 DEF Alone, AloneState
  <2> QED BY <2>2, <2>3
<1>7. ASSUME NEW x \in intact', Name[x] # Name[r] PROVE Intact(x)'
  <2>1. x \in Requests /\ x \in intact /\ Intact(x)
    BY <1>7 DEF IndInv, TypeInv, StoreInv
  <2>2. x # r /\ req'[x] = req[x] /\ Def(x)' = Def(x)
    BY <1>1, <1>2, <1>7, <2>1, Constants DEF Def
  <2>3. Removed(Name[x]) \subseteq Removed(Name[x])'
    BY <1>1, RemovedGrows
  <2>4. Made(x)'
    BY <2>1, <2>2, <2>3 DEF Made, Intact
  <2>5. ASSUME NEW s \in Requests, Name[s] = Name[x]
        PROVE  req'[s].pc \notin CreatePcs \ {"get"}
    BY <1>1, <1>7, <2>1, <2>5 DEF Intact
  <2> QED BY <2>1, <2>2, <2>4, <2>5 DEF Intact
<1>8. StoreInv'
  BY <1>6, <1>7 DEF StoreInv
<1>9. ConnectInv'
  <2>1. q.pc \notin {"dial", "append"} /\ req[r].pc \notin {"dial", "append"}
    BY <1>1, KindsApart, ARequest DEF Control, SshPcs
  <2> QED BY <2>1, ConnectKept DEF sshVars
<1>10. CommandInv'
  BY <1>1, CommandKept DEF sshVars
<1> QED BY <1>3, <1>4, <1>8, <1>9, <1>10 DEF IndInv

\* A creation past its check: no resource of that name is known to be intact.
LEMMA NoneIntact ==
  ASSUME IndInv, NEW r \in Requests, req[r].pc \in CreatePcs \ {"get"}
  PROVE  \A x \in intact : Name[x] # Name[r]
BY DEF IndInv, StoreInv, Intact

\* A step that takes no replica away which nobody asked to remove.
LEMMA IntactKept ==
  ASSUME IndInv, NEW r \in Requests, req[r].pc # "done",
         NEW q, q.kind = req[r].kind, req' = [req EXCEPT ![r] = q],
         q.pc \notin CreatePcs \ {"get"},
         NEW d, defs' = [defs EXCEPT ![Name[r]] = d],
         d.exists = Def(r).exists, d.volumes = Def(r).volumes,
         \A e \in Nodes : Def(r).place[e] = "diskful" /\ e \notin Removed(Name[r]) =>
                            d.place[e] = "diskful",
         NEW x \in intact, Name[x] = Name[r]
  PROVE  Intact(x)'
<1>1. x \in Requests /\ Intact(x)
  BY DEF IndInv, TypeInv, StoreInv
<1>2. \A y \in Requests : req'[y] = IF y = r THEN q ELSE req[y]
  BY DEF IndInv, TypeInv
<1>3. x # r /\ req'[x] = req[x]
  BY <1>1, <1>2 DEF Intact
<1>4. Def(x)' = d /\ Def(x) = Def(r)
  BY Constants DEF Def, IndInv, TypeInv
<1>5. Removed(Name[x]) \subseteq Removed(Name[x])'
  BY <1>2, RemovedGrows
<1>6. ToSet(Targets[x]) \subseteq Nodes
  <2>1. Targets[x] \in Seq(Nodes)
    BY <1>1, Constants
  <2> QED BY <2>1, MembersOf
<1>7. Made(x)'
  BY <1>1, <1>4, <1>5, <1>6 DEF Made, Intact
<1>8. ASSUME NEW s \in Requests, Name[s] = Name[x]
      PROVE  req'[s].pc \notin CreatePcs \ {"get"}
  BY <1>1, <1>2, <1>8 DEF Intact
<1> QED BY <1>1, <1>3, <1>7, <1>8 DEF Intact

\* The request is answered.
LEMMA AnswerStep ==
  ASSUME IndInv, NEW r \in Requests, req[r].pc \notin {"new", "done"},
         req[r].kind \in ResourceKinds, NEW a \in Answers, Answer(r, a),
         NEW d \in DefState, defs' = [defs EXCEPT ![Name[r]] = d],
         UNCHANGED <<alone, sshVars>>, intact' \in SUBSET Requests,
         \A x \in intact' : Name[x] # Name[r] => x \in intact,
         \A x \in intact' : Name[x] = Name[r] => Intact(x)',
         req[r].kind = "create" /\ a = "failed" => ~d.exists
  PROVE  IndInv'
<1> DEFINE q == [req[r] EXCEPT !.pc = "done", !.answer = a]
<1>1. req' = [req EXCEPT ![r] = q]
  BY DEF Answer
<1>2. /\ q \in RequestState /\ q.kind = req[r].kind /\ q.pc = "done" /\ q.answer = a
  BY ARequest DEF RequestState, Pcs
<1> HIDE DEF q
<1>3. req'[r] = q
  BY <1>1 DEF IndInv, TypeInv
<1>4. Control(r)'
  BY <1>2, <1>3, KindsApart DEF Control, CreatePcs, RemovePcs, SshPcs
<1>5. Def(r)' = d
  BY Constants DEF Def, IndInv, TypeInv
<1>6. AloneState(r)'
  BY <1>2, <1>3, <1>5 DEF AloneState
<1> QED BY <1>1, <1>2, <1>4, <1>6, ResourceStep

\* The request goes on at p, which is not the loop over the nodes of a creation.
LEMMA GotoStep ==
  ASSUME IndInv, NEW r \in Requests, req[r].pc \notin {"new", "done"},
         req[r].kind \in ResourceKinds, NEW p, Goto(r, p),
         \/ p \in {"define", "volume"} /\ req[r].kind = "create" /\ req[r].answer = "" /\ req[r].i = 1
         \/ p = "rollback" /\ req[r].kind = "create" /\ req[r].answer = ""
         \/ p \in RemovePcs /\ req[r].kind = "decrease" /\ req[r].i <= Len(Targets[r]),
         NEW d \in DefState, defs' = [defs EXCEPT ![Name[r]] = d],
         UNCHANGED <<alone, sshVars>>, intact' \in SUBSET Requests,
         \A x \in intact' : Name[x] # Name[r] => x \in intact,
         \A x \in intact' : Name[x] = Name[r] => Intact(x)'
  PROVE  IndInv'
<1> DEFINE q == [req[r] EXCEPT !.pc = p]
<1>1. req' = [req EXCEPT ![r] = q]
  BY DEF Goto
<1>2. /\ q \in RequestState /\ q.kind = req[r].kind /\ q.pc = p
      /\ q.answer = req[r].answer /\ q.i = req[r].i
  BY ARequest DEF RequestState, Pcs, CreatePcs, RemovePcs
<1> HIDE DEF q
<1>3. req'[r] = q
  BY <1>1 DEF IndInv, TypeInv
<1>4. Control(r)'
  BY <1>2, <1>3, KindsApart DEF Control, CreatePcs, RemovePcs, SshPcs
<1>5. AloneState(r)'
  BY <1>2, <1>3 DEF AloneState, RemovePcs
<1> QED BY <1>1, <1>2, <1>4, <1>5, ResourceStep

\* A loop over n nodes that has come to the i-th.
LEMMA LoopIndex ==
  ASSUME NEW i \in Nat \ {0}, NEW n \in Nat, i <= n
  PROVE  /\ i \in 1..n /\ i + 1 \in Nat \ {0} /\ (i + 1) - 1 = i
         /\ i < n => i + 1 <= n
         /\ ~(i < n) => i = n
         /\ \A j \in 1..i : j \in 1..n /\ (j # i => j \in 1..(i - 1))
OBVIOUS

\* The definition stays as it is.
LEMMA SameDef ==
  ASSUME IndInv, NEW r \in Requests, UNCHANGED defs
  PROVE  defs' = [defs EXCEPT ![Name[r]] = Def(r)]
BY DEF Def, IndInv, TypeInv

\* The check of a creation.
LEMMA GetDefinitionInd ==
  ASSUME IndInv, NEW r \in Requests, GetDefinition(r) PROVE IndInv'
<1>1. /\ req[r].pc = "get" /\ defs' = [defs EXCEPT ![Name[r]] = Def(r)]
      /\ UNCHANGED <<alone, sshVars>>
  BY SameDef DEF GetDefinition, At
<1>2. /\ req[r].kind = "create" /\ req[r].answer = "" /\ req[r].i = 1
      /\ Def(r) \in DefState /\ intact \in SUBSET Requests
  BY <1>1, ARequest DEF Control, CreatePcs, IndInv, TypeInv
<1>3. ASSUME NEW a \in {"bad size", "exists"}, Answer(r, a), intact' = intact PROVE IndInv'
  <2>1. \A x \in intact : Name[x] = Name[r] => Intact(x)'
    <3> DEFINE q == [req[r] EXCEPT !.pc = "done", !.answer = a]
    <3>1. req' = [req EXCEPT ![r] = q] /\ q.kind = req[r].kind /\ q.pc = "done"
      BY <1>3, ARequest DEF Answer, RequestState
    <3> HIDE DEF q
    <3> QED BY <1>1, <3>1, IntactKept DEF CreatePcs
  <2> QED BY <1>1, <1>2, <1>3, <2>1, KindsApart, AnswerStep DEF Answers
<1>4. ASSUME ~Def(r).exists, Goto(r, "define"), intact' = intact PROVE IndInv'
  <2>1. \A x \in intact : Name[x] # Name[r]
    BY <1>4 DEF IndInv, StoreInv, Intact, Made, Def
  <2> QED BY <1>1, <1>2, <1>4, <2>1, KindsApart, GotoStep
<1>5. ASSUME Goto(r, "define"), intact' = {s \in intact : Name[s] # Name[r]} PROVE IndInv'
  BY <1>1, <1>2, <1>5, KindsApart, GotoStep
<1> QED BY <1>3, <1>4, <1>5 DEF GetDefinition

\* The definition is created.
LEMMA CreateDefinitionInd ==
  ASSUME IndInv, NEW r \in Requests, CreateDefinition(r) PROVE IndInv'
<1>1. req[r].pc = "define" /\ UNCHANGED <<intact, alone, sshVars>>
  BY DEF CreateDefinition, At
<1>2. /\ req[r].kind = "create" /\ req[r].answer = "" /\ req[r].i = 1
      /\ Def(r) \in DefState /\ intact \in SUBSET Requests
      /\ \A x \in intact : Name[x] # Name[r]
  BY <1>1, ARequest, NoneIntact DEF Control, CreatePcs, IndInv, TypeInv
<1> DEFINE d == [NoDef EXCEPT !.exists = TRUE]
<1>3. d \in DefState
  BY DEF NoDef, DefState, Modes
<1> HIDE DEF d
<1>4. CASE PutDef(r, d) /\ (Goto(r, "volume") \/ Goto(r, "rollback"))
  BY <1>1, <1>2, <1>3, <1>4, KindsApart, GotoStep DEF PutDef
<1>5. CASE UNCHANGED defs /\ Goto(r, "rollback")
  BY <1>1, <1>2, <1>5, SameDef, KindsApart, GotoStep
<1> QED BY <1>4, <1>5 DEF CreateDefinition, d

\* A creation ends well: if it was by itself, nobody else is past the check.
LEMMA CreatedStep ==
  ASSUME IndInv, NEW r \in Requests, req[r].pc \in CreatePcs \ {"get"}, Created(r),
         NEW d \in DefState, defs' = [defs EXCEPT ![Name[r]] = d],
         d.exists,
         r \in alone[Name[r]] =>
           d.volumes > 0 /\ \A e \in ToSet(Targets[r]) : d.place[e] = "diskful",
         UNCHANGED <<alone, sshVars>>
  PROVE  IndInv'
<1>1. /\ req[r].kind = "create" /\ intact \in SUBSET Requests
      /\ \A x \in intact : Name[x] # Name[r]
  BY ARequest, NoneIntact DEF Control, IndInv, TypeInv
<1>2. Answer(r, "created") /\ intact' = IF r \in alone[Name[r]] THEN intact \cup {r} ELSE intact
  BY DEF Created
<1>3. ASSUME r \in alone[Name[r]] PROVE Intact(r)'
  <2>1. /\ req'[r].kind = "create" /\ req'[r].pc = "done"
        /\ \A s \in Requests : s # r => req'[s] = req[s]
    BY <1>1, <1>2, ARequest DEF Answer, RequestState, IndInv, TypeInv
  <2>2. Def(r)' = d
    BY Constants DEF Def, IndInv, TypeInv
  <2>3. Made(r)'
    BY <1>3, <2>2 DEF Made
  <2>4. ASSUME NEW s \in Requests, Name[s] = Name[r]
        PROVE  req'[s].pc \notin CreatePcs \ {"get"}
    <3>1. CASE s = r
      BY <2>1, <3>1 DEF CreatePcs
    <3>2. CASE s # r
      <4>1. Alone(r) /\ Control(s)
        BY <1>3, ARequest
      <4>2. req[s].kind \in ResourceKinds => req[s].pc \in {"new", "done"}
        BY <2>4, <3>2, <4>1 DEF Alone, InFlight
      <4> QED BY <2>1, <3>2, <4>1, <4>2, KindsApart DEF Control, CreatePcs
    <3> QED BY <3>1, <3>2
  <2> QED BY <2>1, <2>3, <2>4 DEF Intact
<1>4. "created" \in Answers /\ req[r].pc \notin {"new", "done"}
  BY DEF Answers, CreatePcs
<1>5. /\ intact' \in SUBSET Requests
      /\ \A x \in intact' : Name[x] # Name[r] => x \in intact
      /\ \A x \in intact' : Name[x] = Name[r] => Intact(x)'
  BY <1>1, <1>2, <1>3
<1>6. Answer(r, "created") /\ req[r].kind \in ResourceKinds /\ "created" # "failed"
  BY <1>1, <1>2, KindsApart
<1> QED BY <1>4, <1>5, <1>6, AnswerStep

\* The volume definition is created.
LEMMA CreateVolumeDefinitionInd ==
  ASSUME IndInv, NEW r \in Requests, CreateVolumeDefinition(r) PROVE IndInv'
<1>1. req[r].pc = "volume" /\ UNCHANGED <<alone, sshVars>>
  BY DEF CreateVolumeDefinition, At
<1>2. /\ req[r].kind = "create" /\ req[r].answer = "" /\ req[r].i = 1
      /\ Def(r) \in DefState /\ intact \in SUBSET Requests
      /\ \A x \in intact : Name[x] # Name[r]
  BY <1>1, ARequest, NoneIntact DEF Control, CreatePcs, IndInv, TypeInv
<1> DEFINE d == [Def(r) EXCEPT !.volumes = @ + 1]
<1>3. d \in DefState /\ d.exists = Def(r).exists /\ d.volumes > 0
  <2>1. Def(r).volumes \in Nat /\ d = [Def(r) EXCEPT !.volumes = Def(r).volumes + 1]
    BY <1>2 DEF DefState
  <2>2. Def(r).volumes + 1 \in Nat /\ Def(r).volumes + 1 > 0
    BY <2>1
  <2>3. d.volumes = Def(r).volumes + 1 /\ d.exists = Def(r).exists
    BY <1>2, <2>1 DEF DefState
  <2> QED BY <1>2, <2>1, <2>2, <2>3 DEF DefState
<1> HIDE DEF d
<1>4. ASSUME Def(r).exists, PutDef(r, d), Targets[r] = <<>>, Created(r) PROVE IndInv'
  <2>1. ToSet(Targets[r]) = {}
    BY <1>4, MembersOf, Constants
  <2> QED BY <1>1, <1>3, <1>4, <2>1, CreatedStep DEF PutDef, CreatePcs
<1>5. ASSUME PutDef(r, d), Targets[r] # <<>>, Goto(r, "place"), intact' = intact
      PROVE  IndInv'
  <2> DEFINE q == [req[r] EXCEPT !.pc = "place"]
  <2>1. req' = [req EXCEPT ![r] = q]
    BY <1>5 DEF Goto
  <2>2. /\ q \in RequestState /\ q.kind = "create" /\ q.pc = "place"
        /\ q.answer = "" /\ q.i = 1
    BY <1>2, ARequest DEF RequestState, Pcs, CreatePcs
  <2> HIDE DEF q
  <2>3. req'[r] = q /\ Def(r)' = d
    BY <1>5, <2>1, Constants DEF IndInv, TypeInv, Def, PutDef
  <2>4. 1 <= Len(Targets[r])
    BY <1>5, Constants, EmptySeq
  <2>5. Control(r)'
    BY <2>2, <2>3, <2>4 DEF Control, CreatePcs, RemovePcs, SshPcs
  <2>6. AloneState(r)'
    <3>1. \A j \in 1..(1 - 1) : FALSE
      OBVIOUS
    <3> QED BY <1>3, <2>2, <2>3, <3>1 DEF AloneState
  <2> QED BY <1>1, <1>2, <1>3, <1>5, <2>1, <2>2, <2>5, <2>6, KindsApart, ResourceStep
            DEF PutDef
<1>6. ASSUME PutDef(r, d), Goto(r, "rollback"), intact' = intact PROVE IndInv'
  BY <1>1, <1>2, <1>3, <1>6, KindsApart, GotoStep DEF PutDef
<1>7. ASSUME UNCHANGED <<defs, intact>>, Goto(r, "rollback") PROVE IndInv'
  BY <1>1, <1>2, <1>7, SameDef, KindsApart, GotoStep
<1> QED BY <1>4, <1>5, <1>6, <1>7 DEF CreateVolumeDefinition, d

\* A replica is put on the next node, or taken away from it.
LEMMA TargetNode ==
  ASSUME IndInv, NEW r \in Requests, req[r].i <= Len(Targets[r])
  PROVE  Target(r) \in Nodes /\ Target(r) \in ToSet(Targets[r]) /\ Def(r) \in DefState
<1>1. req[r].i \in Nat \ {0} /\ Len(Targets[r]) \in Nat /\ Def(r) \in DefState
  BY ARequest DEF RequestState
<1>2. req[r].i \in 1..Len(Targets[r])
  BY <1>1, LoopIndex
<1>3. Targets[r] \in Seq(Nodes)
  BY Constants
<1> QED BY <1>1, <1>2, <1>3, MembersOf DEF Target

LEMMA PlaceDef ==
  ASSUME IndInv, NEW r \in Requests, req[r].i <= Len(Targets[r]), NEW m \in Modes,
         NEW d, d = [Def(r) EXCEPT !.place[Target(r)] = m]
  PROVE  /\ d \in DefState /\ d.exists = Def(r).exists /\ d.volumes = Def(r).volumes
         /\ \A e \in Nodes : e # Target(r) => d.place[e] = Def(r).place[e]
BY TargetNode DEF DefState

\* The replicas of a creation, one node after the other.
LEMMA PlaceReplicaInd ==
  ASSUME IndInv, NEW r \in Requests, PlaceReplica(r) PROVE IndInv'
<1>1. req[r].pc = "place" /\ UNCHANGED <<alone, sshVars>>
  BY DEF PlaceReplica, At
<1>2. /\ req[r].kind = "create" /\ req[r].answer = "" /\ req[r].i <= Len(Targets[r])
      /\ Def(r) \in DefState /\ intact \in SUBSET Requests
      /\ \A x \in intact : Name[x] # Name[r]
  BY <1>1, ARequest, NoneIntact DEF Control, CreatePcs, IndInv, TypeInv
<1> DEFINE d == [Def(r) EXCEPT !.place[Target(r)] = "diskful"]
<1>3. /\ d \in DefState /\ d.exists = Def(r).exists /\ d.volumes = Def(r).volumes
      /\ Target(r) \in Nodes /\ d.place[Target(r)] = "diskful"
      /\ \A e \in Nodes : e # Target(r) => d.place[e] = Def(r).place[e]
  BY <1>2, TargetNode DEF DefState, Modes
<1> HIDE DEF d
<1>4. req[r].i \in Nat \ {0} /\ Len(Targets[r]) \in Nat /\ Targets[r] \in Seq(Nodes)
  BY ARequest, Constants DEF RequestState
<1>5. ASSUME r \in alone[Name[r]]
      PROVE  d.volumes > 0 /\ \A j \in 1..req[r].i : d.place[Targets[r][j]] = "diskful"
  <2>1. /\ Def(r).volumes > 0
        /\ \A j \in 1..(req[r].i - 1) : Def(r).place[Targets[r][j]] = "diskful"
    BY <1>1, <1>5, ARequest DEF Alone, AloneState
  <2>2. ASSUME NEW j \in 1..req[r].i PROVE d.place[Targets[r][j]] = "diskful"
    <3>1. Targets[r][j] \in Nodes /\ (j # req[r].i => j \in 1..(req[r].i - 1))
      BY <1>2, <1>4, LoopIndex, ElementOfSeq
    <3>2. CASE j = req[r].i
      BY <1>3, <3>2 DEF Target
    <3>3. CASE j # req[r].i
      <4>1. Targets[r][j] # Target(r) => d.place[Targets[r][j]] = Def(r).place[Targets[r][j]]
        BY <1>3, <3>1
      <4> QED BY <1>3, <2>1, <3>1, <3>3, <4>1
    <3> QED BY <3>2, <3>3
  <2> QED BY <1>3, <2>1, <2>2
<1>6. ASSUME Def(r).exists, PutDef(r, d), Placed(r) PROVE IndInv'
  <2>1. CASE req[r].i < Len(Targets[r])
    <3> DEFINE q == [req[r] EXCEPT !.i = @ + 1]
    <3>1. req' = [req EXCEPT ![r] = q] /\ intact' = intact
      BY <1>6, <2>1 DEF Placed
    <3>2. /\ q \in RequestState /\ q.kind = "create" /\ q.pc = "place"
          /\ q.answer = "" /\ q.i = req[r].i + 1
      <4>1. req[r].i + 1 \in Nat \ {0} /\ req[r] \in RequestState
        BY <1>2, <1>4, LoopIndex, ARequest
      <4> QED BY <1>1, <1>2, <4>1 DEF RequestState
    <3> HIDE DEF q
    <3>3. req'[r] = q /\ Def(r)' = d
      BY <1>6, <3>1, Constants DEF IndInv, TypeInv, Def, PutDef
    <3>4. q.i <= Len(Targets[r]) /\ q.i - 1 = req[r].i
      BY <1>2, <1>4, <2>1, <3>2, LoopIndex
    <3>5. Control(r)'
      BY <3>2, <3>3, <3>4 DEF Control, CreatePcs, RemovePcs, SshPcs
    <3>6. r \in alone[Name[r]] => AloneState(r)'
      BY <1>5, <3>2, <3>3, <3>4 DEF AloneState
    <3> QED BY <1>1, <1>2, <1>3, <1>6, <3>1, <3>2, <3>5, <3>6, KindsApart, ResourceStep
              DEF PutDef
  <2>2. CASE ~(req[r].i < Len(Targets[r]))
    <3>1. Created(r) /\ req[r].i = Len(Targets[r])
      BY <1>2, <1>4, <1>6, <2>2, LoopIndex DEF Placed
    <3>2. r \in alone[Name[r]] =>
            d.volumes > 0 /\ \A e \in ToSet(Targets[r]) : d.place[e] = "diskful"
      BY <1>4, <1>5, <3>1, MembersOf
    <3> QED BY <1>1, <1>3, <1>6, <3>1, <3>2, CreatedStep DEF PutDef, CreatePcs
  <2> QED BY <2>1, <2>2
<1>7. ASSUME PutDef(r, d), Goto(r, "rollback"), intact' = intact PROVE IndInv'
  BY <1>1, <1>2, <1>3, <1>7, KindsApart, GotoStep DEF PutDef
<1>8. ASSUME UNCHANGED <<defs, intact>>, Goto(r, "rollback") PROVE IndInv'
  BY <1>1, <1>2, <1>8, SameDef, KindsApart, GotoStep
<1> QED BY <1>6, <1>7, <1>8 DEF PlaceReplica, d

\* A creation is rolled back.
LEMMA RollbackInd ==
  ASSUME IndInv, NEW r \in Requests, Rollback(r) PROVE IndInv'
<1>1. req[r].pc = "rollback" /\ UNCHANGED <<intact, alone, sshVars>>
  BY DEF Rollback, At
<1>2. /\ req[r].kind = "create" /\ Def(r) \in DefState /\ intact \in SUBSET Requests
      /\ \A x \in intact : Name[x] # Name[r]
  BY <1>1, ARequest, NoneIntact DEF Control, CreatePcs, IndInv, TypeInv
<1>3. CASE PutDef(r, NoDef) /\ Answer(r, "failed")
  BY <1>1, <1>2, <1>3, NoDefType, KindsApart, AnswerStep DEF PutDef, Answers
<1>4. CASE UNCHANGED defs /\ Answer(r, "not rolled back")
  BY <1>1, <1>2, <1>4, SameDef, KindsApart, AnswerStep DEF Answers
<1> QED BY <1>3, <1>4 DEF Rollback

\* A resource is deleted.
LEMMA DeleteResourceInd ==
  ASSUME IndInv, NEW r \in Requests, DeleteResource(r) PROVE IndInv'
<1>1. /\ req[r].pc = "delete" /\ UNCHANGED <<alone, sshVars>>
      /\ intact' = {s \in intact : Name[s] # Name[r]}
  BY DEF DeleteResource, At
<1>2. req[r].kind = "delete" /\ Def(r) \in DefState /\ intact \in SUBSET Requests
  BY <1>1, ARequest DEF Control, IndInv, TypeInv
<1>3. PICK a \in {"done", "failed"} : Answer(r, a)
  BY DEF DeleteResource
<1>4. PICK d \in DefState : defs' = [defs EXCEPT ![Name[r]] = d]
  <2>1. CASE PutDef(r, NoDef)
    BY <2>1, NoDefType DEF PutDef
  <2>2. CASE UNCHANGED defs
    BY <1>2, <2>2, SameDef
  <2> QED BY <2>1, <2>2 DEF DeleteResource
<1>5. a \in Answers
  BY DEF Answers
<1> QED BY <1>1, <1>2, <1>3, <1>4, <1>5, KindsApart, AnswerStep

\* A request that changes replicas is answered, and a resource that was made is
\* not disturbed.
LEMMA AnswerKeep ==
  ASSUME IndInv, NEW r \in Requests, req[r].pc \notin {"new", "done"},
         req[r].kind \in ResourceKinds \ {"create"}, NEW a \in Answers, Answer(r, a),
         NEW d \in DefState, defs' = [defs EXCEPT ![Name[r]] = d],
         UNCHANGED <<alone, sshVars, intact>>,
         d.exists = Def(r).exists, d.volumes = Def(r).volumes,
         \A e \in Nodes : Def(r).place[e] = "diskful" /\ e \notin Removed(Name[r]) =>
                            d.place[e] = "diskful"
  PROVE  IndInv'
<1> DEFINE q == [req[r] EXCEPT !.pc = "done", !.answer = a]
<1>1. /\ req' = [req EXCEPT ![r] = q] /\ q.kind = req[r].kind /\ q.pc = "done"
      /\ intact \in SUBSET Requests
  BY ARequest DEF Answer, RequestState, IndInv, TypeInv
<1> HIDE DEF q
<1>2. \A x \in intact : Name[x] = Name[r] => Intact(x)'
  BY <1>1, IntactKept DEF CreatePcs
<1> QED BY <1>1, <1>2, AnswerStep

\* ... or its loop goes on with the next node.
LEMMA ContinueStep ==
  ASSUME IndInv, NEW r \in Requests, NEW p,
         \/ p = "add" /\ req[r].pc = "add"
         \/ p = "replicas" /\ req[r].pc \in RemovePcs,
         Continue(r, p),
         NEW d \in DefState, defs' = [defs EXCEPT ![Name[r]] = d],
         UNCHANGED <<alone, sshVars, intact>>,
         d.exists = Def(r).exists, d.volumes = Def(r).volumes,
         \A e \in Nodes : Def(r).place[e] = "diskful" /\ e \notin Removed(Name[r]) =>
                            d.place[e] = "diskful"
  PROVE  IndInv'
<1>1. /\ req[r].i \in Nat \ {0} /\ Len(Targets[r]) \in Nat /\ req[r].i <= Len(Targets[r])
      /\ req[r].kind \in ResourceKinds \ {"create"} /\ req[r].pc \notin {"new", "done"}
      /\ p = "add" => req[r].kind \in {"increase", "diskless"}
      /\ p = "replicas" => req[r].kind = "decrease"
  BY ARequest, KindsApart DEF RequestState, Control, RemovePcs
<1>2. CASE req[r].i < Len(Targets[r])
  <2> DEFINE q == [req[r] EXCEPT !.i = @ + 1, !.pc = p]
  <2>1. req' = [req EXCEPT ![r] = q]
    BY <1>2 DEF Continue
  <2>2. req[r].i + 1 \in Nat \ {0} /\ req[r].i + 1 <= Len(Targets[r])
    BY <1>1, <1>2, LoopIndex
  <2>3. /\ q \in RequestState /\ q.kind = req[r].kind /\ q.pc = p /\ q.i = req[r].i + 1
        /\ q.answer = req[r].answer
    BY <2>2, ARequest DEF RequestState, Pcs, RemovePcs
  <2> HIDE DEF q
  <2>4. req'[r] = q /\ intact \in SUBSET Requests
    BY <2>1 DEF IndInv, TypeInv
  <2>5. Control(r)'
    BY <1>1, <2>2, <2>3, <2>4, KindsApart DEF Control, CreatePcs, RemovePcs, SshPcs
  <2>6. AloneState(r)'
    BY <1>1, <2>3, <2>4 DEF AloneState
  <2>7. \A x \in intact : Name[x] = Name[r] => Intact(x)'
    BY <1>1, <2>1, <2>3, IntactKept DEF CreatePcs
  <2> QED BY <1>1, <2>1, <2>3, <2>4, <2>5, <2>6, <2>7, ResourceStep
<1>3. CASE ~(req[r].i < Len(Targets[r]))
  <2>1. Answer(r, "done") /\ "done" \in Answers
    BY <1>3 DEF Continue, Answers
  <2> QED BY <1>1, <2>1, AnswerKeep
<1> QED BY <1>2, <1>3

\* A replica is added.
LEMMA AddReplicaInd ==
  ASSUME IndInv, NEW r \in Requests, AddReplica(r) PROVE IndInv'
<1>1. req[r].pc = "add" /\ UNCHANGED <<intact, alone, sshVars>>
  BY DEF AddReplica, At
<1>2. /\ req[r].kind \in ResourceKinds \ {"create"} /\ req[r].i <= Len(Targets[r])
      /\ Def(r) \in DefState
  BY <1>1, ARequest, KindsApart DEF Control
<1>3. "failed" \in Answers
  BY DEF Answers
<1>4. Continue(r, "add") \/ Answer(r, "failed")
  BY DEF AddReplica
<1>5. ASSUME NEW m \in Modes, Def(r).place[Target(r)] = "none",
             PutDef(r, [Def(r) EXCEPT !.place[Target(r)] = m])
      PROVE  IndInv'
  <2> DEFINE d == [Def(r) EXCEPT !.place[Target(r)] = m]
  <2>1. d = [Def(r) EXCEPT !.place[Target(r)] = m] /\ defs' = [defs EXCEPT ![Name[r]] = d]
    BY <1>5 DEF PutDef
  <2> HIDE DEF d
  <2>2. /\ d \in DefState /\ d.exists = Def(r).exists /\ d.volumes = Def(r).volumes
        /\ \A e \in Nodes : e # Target(r) => d.place[e] = Def(r).place[e]
    BY <1>2, <2>1, PlaceDef
  <2>3. \A e \in Nodes : Def(r).place[e] = "diskful" /\ e \notin Removed(Name[r]) =>
                           d.place[e] = "diskful"
    BY <1>5, <2>2
  <2> QED BY <1>1, <1>2, <1>3, <1>4, <2>1, <2>2, <2>3, AnswerKeep, ContinueStep
<1>6. CASE UNCHANGED defs
  BY <1>1, <1>2, <1>3, <1>4, <1>6, SameDef, AnswerKeep, ContinueStep
<1>7. "diskful" \in Modes /\ "diskless" \in Modes
  BY DEF Modes
<1> QED BY <1>5, <1>6, <1>7 DEF AddReplica

\* The replicas are listed before one is removed.
LEMMA GetReplicasInd ==
  ASSUME IndInv, NEW r \in Requests, GetReplicas(r) PROVE IndInv'
<1>1. /\ req[r].pc = "replicas" /\ UNCHANGED <<intact, alone, sshVars>>
      /\ defs' = [defs EXCEPT ![Name[r]] = Def(r)]
  BY SameDef DEF GetReplicas, At, storeVars
<1>2. /\ req[r].kind = "decrease" /\ req[r].i <= Len(Targets[r]) /\ Def(r) \in DefState
      /\ intact \in SUBSET Requests /\ req[r] \in RequestState
  BY <1>1, ARequest DEF Control, RemovePcs, IndInv, TypeInv
<1>3. CASE Answer(r, "failed")
  BY <1>1, <1>2, <1>3, KindsApart, AnswerKeep DEF Answers
<1>4. CASE Goto(r, "remove")
  <2> DEFINE q == [req[r] EXCEPT !.pc = "remove"]
  <2>1. req' = [req EXCEPT ![r] = q] /\ q.kind = req[r].kind /\ q.pc = "remove"
    BY <1>2, <1>4 DEF Goto, RequestState
  <2> HIDE DEF q
  <2>2. \A x \in intact : Name[x] = Name[r] => Intact(x)'
    BY <1>1, <2>1, IntactKept DEF CreatePcs
  <2> QED BY <1>1, <1>2, <1>4, <2>2, KindsApart, GotoStep DEF RemovePcs
<1> QED BY <1>3, <1>4 DEF GetReplicas

\* A replica is removed: its node was named by a request to remove replicas.
LEMMA RemoveReplicaInd ==
  ASSUME IndInv, NEW r \in Requests, RemoveReplica(r) PROVE IndInv'
<1>1. req[r].pc \in {"remove", "remove again"} /\ UNCHANGED <<intact, alone, sshVars>>
  BY DEF RemoveReplica, At
<1>2. /\ req[r].kind = "decrease" /\ req[r].i <= Len(Targets[r]) /\ Def(r) \in DefState
      /\ intact \in SUBSET Requests /\ req[r] \in RequestState
  BY <1>1, ARequest DEF Control, RemovePcs, IndInv, TypeInv
<1>3. \/ Goto(r, "remove again") \/ Continue(r, "replicas") \/ Answer(r, "failed")
  BY DEF RemoveReplica
<1>4. ASSUME NEW d \in DefState, defs' = [defs EXCEPT ![Name[r]] = d],
             d.exists = Def(r).exists, d.volumes = Def(r).volumes,
             \A e \in Nodes : Def(r).place[e] = "diskful" /\ e \notin Removed(Name[r]) =>
                                d.place[e] = "diskful"
      PROVE  IndInv'
  <2>1. CASE Answer(r, "failed")
    BY <1>1, <1>2, <1>4, <2>1, KindsApart, AnswerKeep DEF Answers
  <2>2. CASE Continue(r, "replicas")
    BY <1>1, <1>2, <1>4, <2>2, ContinueStep DEF RemovePcs
  <2>3. CASE Goto(r, "remove again")
    <3> DEFINE q == [req[r] EXCEPT !.pc = "remove again"]
    <3>1. req' = [req EXCEPT ![r] = q] /\ q.kind = req[r].kind /\ q.pc = "remove again"
      BY <1>2, <2>3 DEF Goto, RequestState
    <3> HIDE DEF q
    <3>2. \A x \in intact : Name[x] = Name[r] => Intact(x)'
      BY <1>1, <1>4, <3>1, IntactKept DEF CreatePcs
    <3> QED BY <1>1, <1>2, <1>4, <2>3, <3>2, KindsApart, GotoStep DEF RemovePcs
  <2> QED BY <1>3, <2>1, <2>2, <2>3
<1>5. CASE PutDef(r, [Def(r) EXCEPT !.place[Target(r)] = "none"])
  <2> DEFINE d == [Def(r) EXCEPT !.place[Target(r)] = "none"]
  <2>1. /\ d = [Def(r) EXCEPT !.place[Target(r)] = "none"] /\ "none" \in Modes
        /\ defs' = [defs EXCEPT ![Name[r]] = d]
    BY <1>5 DEF PutDef, Modes
  <2> HIDE DEF d
  <2>2. /\ d \in DefState /\ d.exists = Def(r).exists /\ d.volumes = Def(r).volumes
        /\ \A e \in Nodes : e # Target(r) => d.place[e] = Def(r).place[e]
    BY <1>2, <2>1, PlaceDef
  <2>3. Target(r) \in Removed(Name[r])
    BY <1>2, TargetNode DEF Removed
  <2> QED BY <1>4, <2>1, <2>2, <2>3
<1>6. CASE UNCHANGED defs
  BY <1>2, <1>4, <1>6, SameDef
<1> QED BY <1>5, <1>6 DEF RemoveReplica

-----------------------------------------------------------------------------
(* A request for a resource starts.                                          *)

LEMMA StartInd ==
  ASSUME IndInv, NEW r \in Requests, Start(r) PROVE IndInv'
<1>1. PICK k \in Kinds[r] \cap ResourceKinds :
        req' = [req EXCEPT ![r].kind = k,
                           ![r].pc = IF k \in {"create", "delete"} \/ Targets[r] # <<>>
                                     THEN FirstPc(k) ELSE "done"]
  BY DEF Start
<1> DEFINE p == IF k \in {"create", "delete"} \/ Targets[r] # <<>> THEN FirstPc(k) ELSE "done"
           q == [req[r] EXCEPT !.kind = k, !.pc = p]
           n == Name[r]
<1>2. /\ req[r].pc = "new" /\ UNCHANGED <<defs, intact, sshVars>>
      /\ alone' = [alone EXCEPT ![n] = IF InFlight(r) = {} THEN {r} ELSE {}]
  BY DEF Start, At
<1>3. k \in ResourceKinds /\ k \in {"create", "delete", "increase", "diskless", "decrease"}
  BY DEF ResourceKinds
<1>4. /\ p \in {"get", "delete", "add", "replicas", "done"}
      /\ p = "get" => k = "create"
      /\ p = "delete" => k = "delete"
      /\ p = "add" => k \in {"increase", "diskless"} /\ Targets[r] # <<>>
      /\ p = "replicas" => k = "decrease" /\ Targets[r] # <<>>
  BY <1>3 DEF FirstPc
<1>5. req' = [req EXCEPT ![r] = q]
  BY <1>1
<1> HIDE DEF p
<1>6. req[r] \in RequestState /\ Control(r) /\ n \in Names
  BY ARequest
<1>7. /\ q \in RequestState /\ q.kind = k /\ q.pc = p /\ q.i = req[r].i
      /\ q.answer = req[r].answer
  BY <1>3, <1>4, <1>6 DEF RequestState, Pcs, CreatePcs, RemovePcs
<1> HIDE DEF q
<1>8. /\ \A x \in Requests : req'[x] = IF x = r THEN q ELSE req[x]
      /\ req' \in [Requests -> RequestState]
  BY <1>5, <1>7 DEF IndInv, TypeInv
<1>9. q.i = 1 /\ q.answer = "" /\ req[r].kind = ""
  BY <1>2, <1>6, <1>7 DEF Control
<1>10. p \in {"add", "replicas"} => 1 <= Len(Targets[r])
  BY <1>4, Constants, EmptySeq
<1>11. TypeInv'
  BY <1>2, <1>6, <1>8 DEF IndInv, TypeInv, sshVars
<1>12. Control(r)'
  BY <1>3, <1>4, <1>7, <1>8, <1>9, <1>10, KindsApart DEF Control, CreatePcs, RemovePcs, SshPcs
<1>13. \A x \in Requests : Control(x)'
  BY <1>8, <1>12, OtherControl DEF IndInv
<1>14. ASSUME NEW m \in Names, NEW x \in alone'[m] PROVE Name[x] = m /\ Alone(x)'
  <2>1. CASE m = n
    <3>1. x = r /\ InFlight(r) = {}
      BY <1>2, <1>6, <1>14, <2>1 DEF IndInv, TypeInv
    <3>2. InFlight(r)' = {}
      BY <1>8, <3>1 DEF InFlight
    <3> QED BY <1>3, <1>4, <1>7, <1>8, <1>9, <2>1, <3>1, <3>2 DEF Alone, AloneState
  <2>2. CASE m # n
    <3>1. x \in alone[m] /\ x \in Requests /\ Name[x] = m /\ Alone(x)
      BY <1>2, <1>6, <1>14, <2>2 DEF IndInv, TypeInv, StoreInv
    <3>2. x # r /\ req'[x] = req[x] /\ Def(x)' = Def(x)
      BY <1>2, <1>8, <2>2, <3>1 DEF Def
    <3>3. InFlight(x)' \subseteq InFlight(x)
      BY <1>8, <2>2, <3>1 DEF InFlight
    <3> QED BY <3>1, <3>2, <3>3 DEF Alone, AloneState
  <2> QED BY <2>1, <2>2
<1>15. ASSUME NEW x \in intact PROVE Intact(x)'
  <2>1. x \in Requests /\ Intact(x)
    BY DEF IndInv, TypeInv, StoreInv
  <2>2. x # r /\ req'[x] = req[x] /\ Def(x)' = Def(x)
    BY <1>2, <1>8, <2>1 DEF Def, Intact
  <2>3. Removed(Name[x]) \subseteq Removed(Name[x])'
    BY <1>8, <1>9, RemovedGrows
  <2>4. Made(x)'
    BY <2>1, <2>2, <2>3 DEF Made, Intact
  <2>5. ASSUME NEW s \in Requests, Name[s] = Name[x]
        PROVE  req'[s].pc \notin CreatePcs \ {"get"}
    BY <1>4, <1>7, <1>8, <2>1, <2>5 DEF Intact, CreatePcs
  <2> QED BY <2>1, <2>2, <2>4, <2>5 DEF Intact
<1>16. StoreInv'
  BY <1>2, <1>14, <1>15 DEF StoreInv
<1>17. ConnectInv'
  BY <1>2, <1>4, <1>5, <1>7, ConnectKept DEF sshVars
<1>18. CommandInv'
  BY <1>2, <1>8, CommandKept DEF sshVars
<1> QED BY <1>11, <1>13, <1>16, <1>17, <1>18 DEF IndInv

-----------------------------------------------------------------------------
(* The requests for LVM.                                                     *)

\* Such a request moves on to q.
LEMMA SshStep ==
  ASSUME IndInv, NEW r \in Requests, req[r].pc # "done", req[r].kind \notin ResourceKinds,
         NEW q \in RequestState, q.kind \in LvmKinds, req' = [req EXCEPT ![r] = q],
         UNCHANGED storeVars, connects' \in Seq(Nodes), cut' \in BOOLEAN,
         executed' \in Seq(Requests \X Nodes),
         Control(r)', ConnectInv', CommandInv'
  PROVE  IndInv'
<1>1. /\ \A x \in Requests : req'[x] = IF x = r THEN q ELSE req[x]
      /\ req' \in [Requests -> RequestState]
  BY DEF IndInv, TypeInv
<1>2. TypeInv'
  BY <1>1 DEF IndInv, TypeInv, storeVars
<1>3. \A x \in Requests : Control(x)'
  BY <1>1, OtherControl DEF IndInv
<1>4. q.pc \notin CreatePcs /\ q.kind \notin ResourceKinds
  BY <1>1, KindsApart DEF Control
<1>5. StoreInv'
  BY <1>1, <1>4, StoreKept
<1> QED BY <1>2, <1>3, <1>5 DEF IndInv

\* The same when no command that changes a disk is run.
LEMMA SshMove ==
  ASSUME IndInv, NEW r \in Requests, req[r].pc # "done", req[r].kind \notin ResourceKinds,
         NEW q \in RequestState, q.kind \in LvmKinds, req' = [req EXCEPT ![r] = q],
         UNCHANGED <<storeVars, executed>>, connects' \in Seq(Nodes), cut' \in BOOLEAN,
         Control(r)', ConnectInv'
  PROVE  IndInv'
<1>1. CommandInv'
  BY CommandKept DEF IndInv, TypeInv
<1>2. executed' \in Seq(Requests \X Nodes)
  BY DEF IndInv, TypeInv
<1> QED BY <1>1, <1>2, SshStep

LEMMA SshRequest ==
  ASSUME IndInv, NEW r \in Requests, req[r].pc \in SshPcs
  PROVE  /\ req[r] \in RequestState /\ Control(r) /\ req[r].kind \in LvmKinds
         /\ req[r].kind \notin ResourceKinds /\ req[r].pc \notin {"new", "done"}
         /\ connects \in Seq(Nodes) /\ cut \in BOOLEAN /\ req[r].conns \in Seq(Nodes)
<1>1. req[r] \in RequestState /\ Control(r)
  BY ARequest
<1>2. req[r].kind \in LvmKinds
  BY <1>1 DEF Control
<1> QED BY <1>1, <1>2, KindsApart DEF IndInv, TypeInv, RequestState, SshPcs

LEMMA GetSshListInd ==
  ASSUME IndInv, NEW r \in Requests, GetSshList(r) PROVE IndInv'
<1> DEFINE p == IF connects = <<>> THEN "dial" ELSE "range"
<1>1. UNCHANGED <<storeVars, sshVars>>
  BY DEF GetSshList
<1>2. ASSUME NEW q \in RequestState, req' = [req EXCEPT ![r] = q], q.pc = p,
             q.kind \in LvmKinds, q.i = 1, req[r].pc \in {"new", "again"},
             req[r].kind \notin ResourceKinds
      PROVE  IndInv'
  <2>1. req'[r] = q
    BY <1>2 DEF IndInv, TypeInv
  <2>2. Control(r)'
    BY <1>2, <2>1, KindsApart DEF Control, CreatePcs, RemovePcs, SshPcs
  <2>3. ConnectInv'
    BY <1>1, <1>2, ConnectKept DEF sshVars
  <2>4. UNCHANGED <<storeVars, executed>> /\ connects' \in Seq(Nodes) /\ cut' \in BOOLEAN
    BY <1>1 DEF sshVars, IndInv, TypeInv
  <2> QED BY <1>2, <2>2, <2>3, <2>4, SshMove
<1>3. p \in Pcs
  BY DEF Pcs, SshPcs
<1>4. req[r] \in RequestState /\ Control(r)
  BY ARequest
<1>5. ASSUME At(r, "new"), NEW k \in Kinds[r] \cap LvmKinds,
             req' = [req EXCEPT ![r].kind = k, ![r].pc = p]
      PROVE  IndInv'
  <2> DEFINE q == [req[r] EXCEPT !.kind = k, !.pc = p]
  <2>1. req' = [req EXCEPT ![r] = q]
    BY <1>5
  <2>2. req[r].kind = "" /\ req[r].i = 1 /\ req[r].pc = "new"
    BY <1>4, <1>5 DEF Control, At
  <2> HIDE DEF p
  <2>3. q \in RequestState /\ q.pc = p /\ q.kind = k /\ q.i = 1
    BY <1>3, <1>4, <2>2 DEF RequestState
  <2> HIDE DEF q
  <2> QED BY <1>2, <2>1, <2>2, <2>3, KindsApart
<1>6. ASSUME At(r, "again"), Goto(r, p) PROVE IndInv'
  <2> DEFINE q == [req[r] EXCEPT !.pc = p]
  <2>1. req' = [req EXCEPT ![r] = q]
    BY <1>6 DEF Goto
  <2>2. req[r].kind \in LvmKinds /\ req[r].i = 1 /\ req[r].pc = "again"
    BY <1>4, <1>6 DEF Control, At, SshPcs
  <2> HIDE DEF p
  <2>3. q \in RequestState /\ q.pc = p /\ q.kind = req[r].kind /\ q.i = 1
    BY <1>3, <1>4, <2>2 DEF RequestState
  <2> HIDE DEF q
  <2> QED BY <1>2, <2>1, <2>2, <2>3, KindsApart
<1> QED BY <1>5, <1>6 DEF GetSshList

\* The list is read ...
LEMMA DialInd ==
  ASSUME IndInv, NEW r \in Requests, Dial(r) PROVE IndInv'
<1>1. req[r].pc = "dial" /\ UNCHANGED <<storeVars, sshVars>>
  BY DEF Dial, At
<1>2. /\ req[r] \in RequestState /\ Control(r) /\ req[r].kind \in LvmKinds
      /\ req[r].kind \notin ResourceKinds
      /\ connects' \in Seq(Nodes) /\ cut' \in BOOLEAN /\ connects \in Seq(Nodes)
      /\ connects' = connects /\ cut' = cut /\ UNCHANGED <<storeVars, executed>>
  BY <1>1, SshRequest DEF SshPcs, sshVars
<1>3. ConnectInv /\ req \in [Requests -> RequestState]
  BY DEF IndInv, TypeInv
<1>4. req[r].i \in Nat \ {0} /\ Len(Hosts) \in Nat /\ (Hosts # <<>> => 1 <= Len(Hosts))
  <2>1. req[r].i \in Nat \ {0}
    BY <1>2 DEF RequestState
  <2>2. Len(Hosts) \in Nat /\ (Hosts # <<>> => 1 <= Len(Hosts))
    BY Constants, EmptySeq
  <2> QED BY <2>1, <2>2
<1>5. req[r].i = 1 \/ req[r].i <= Len(Hosts)
  BY <1>1, <1>2 DEF Control
<1>6. CASE Hosts = <<>>
  <2> DEFINE q == [req[r] EXCEPT !.pc = "range"]
  <2>1. req' = [req EXCEPT ![r] = q]
    BY <1>6 DEF Dial, Goto
  <2>2. q \in RequestState /\ q.kind = req[r].kind /\ q.pc = "range" /\ q.i = req[r].i
    BY <1>2 DEF RequestState, Pcs, SshPcs
  <2> HIDE DEF q
  <2>3. Len(Hosts) = 0
    BY <1>6, EmptySeq
  <2>4. req[r].i = 1
    BY <1>4, <1>5, <2>3
  <2>5. req'[r] = q /\ \A x \in Requests : x # r => req'[x] = req[x]
    BY <1>3, <2>1
  <2>6. Control(r)'
    BY <1>2, <2>2, <2>4, <2>5, KindsApart DEF Control, CreatePcs, RemovePcs, SshPcs
  <2>7. connects = <<>>
    BY <1>3, <1>6 DEF ConnectInv
  <2>8. ASSUME NEW x \in Requests, ~cut
        PROVE  /\ req'[x].pc = "dial" /\ req'[x].i > 1 => Headed(connects)
               /\ req'[x].pc = "append" /\ req'[x].i > 1 => Headed(req'[x].conns)
               /\ req'[x].pc = "append" /\ req'[x].i = 1 =>
                    req'[x].conns = <<>> \/ Headed(req'[x].conns)
    BY <1>3, <2>2, <2>5, <2>8 DEF ConnectInv
  <2>9. ConnectInv'
    BY <1>2, <2>7, <2>8 DEF ConnectInv, Headed
  <2> QED BY <1>1, <1>2, <2>1, <2>2, <2>6, <2>9, SshMove
<1>7. CASE Hosts # <<>>
  <2> DEFINE q == [req[r] EXCEPT !.pc = "append", !.conns = connects]
  <2>1. req' = [req EXCEPT ![r] = q]
    BY <1>7 DEF Dial
  <2>2. /\ q \in RequestState /\ q.kind = req[r].kind /\ q.pc = "append"
        /\ q.i = req[r].i /\ q.conns = connects
    BY <1>2 DEF RequestState, Pcs, SshPcs
  <2> HIDE DEF q
  <2>3. req'[r] = q /\ \A x \in Requests : x # r => req'[x] = req[x]
    BY <1>3, <2>1
  <2>4. req[r].i <= Len(Hosts)
    BY <1>4, <1>5, <1>7
  <2>5. Control(r)'
    BY <1>2, <2>2, <2>3, <2>4, KindsApart DEF Control, CreatePcs, RemovePcs, SshPcs
  <2>6. ASSUME NEW x \in Requests, ~cut
        PROVE  /\ req'[x].pc = "dial" /\ req'[x].i > 1 => Headed(connects)
               /\ req'[x].pc = "append" /\ req'[x].i > 1 => Headed(req'[x].conns)
               /\ req'[x].pc = "append" /\ req'[x].i = 1 =>
                    req'[x].conns = <<>> \/ Headed(req'[x].conns)
    <3>1. CASE x = r
      BY <1>1, <1>3, <2>2, <2>3, <2>6, <3>1 DEF ConnectInv
    <3>2. CASE x # r
      BY <1>3, <2>3, <2>6, <3>2 DEF ConnectInv
    <3> QED BY <3>1, <3>2
  <2>7. ~(\A x \in Requests : req'[x].pc \notin {"dial", "append"})
    BY <2>2, <2>3
  <2>8. ConnectInv'
    BY <1>2, <1>3, <1>7, <2>6, <2>7 DEF ConnectInv, Headed
  <2> QED BY <1>1, <1>2, <2>1, <2>2, <2>5, <2>8, SshMove
<1> QED BY <1>6, <1>7

\* ... and stored: the first host is the first that is ever stored, and whoever
\* stops building has stored the last.
LEMMA AppendConnectInd ==
  ASSUME IndInv, NEW r \in Requests, AppendConnect(r) PROVE IndInv'
<1> DEFINE h == Hosts[req[r].i]
           more == req[r].i < Len(Hosts)
           p == IF more THEN "dial" ELSE "range"
           j == IF more THEN req[r].i + 1 ELSE 1
           q == [req[r] EXCEPT !.conns = <<>>, !.pc = p, !.i = j]
<1>1. /\ req[r].pc = "append" /\ connects' = Append(req[r].conns, h)
      /\ req' = [req EXCEPT ![r] = q]
      /\ UNCHANGED <<storeVars, executed, cut>>
  BY DEF AppendConnect, At
<1>2. /\ req[r] \in RequestState /\ Control(r) /\ req[r].kind \in LvmKinds
      /\ req[r].kind \notin ResourceKinds
      /\ cut \in BOOLEAN /\ req[r].conns \in Seq(Nodes)
  BY <1>1, SshRequest DEF SshPcs
<1>3. ConnectInv /\ req \in [Requests -> RequestState]
  BY DEF IndInv, TypeInv
<1>4. /\ req[r].i \in Nat \ {0} /\ Len(Hosts) \in Nat /\ req[r].i <= Len(Hosts)
      /\ Hosts \in Seq(Nodes)
  BY <1>1, <1>2, Constants DEF RequestState, Control
<1>5. /\ req[r].i \in 1..Len(Hosts) /\ req[r].i + 1 \in Nat \ {0}
      /\ more => req[r].i + 1 <= Len(Hosts)
      /\ ~more => req[r].i = Len(Hosts)
  BY <1>4, LoopIndex
<1>6. h \in Nodes /\ Hosts # <<>>
  BY <1>4, <1>5, ElementOfSeq, EmptySeq
<1>7. connects' \in Seq(Nodes) /\ connects' # <<>> /\ Last(connects') = h
      /\ (req[r].conns = <<>> => Head(connects') = h)
      /\ (req[r].conns # <<>> => Head(connects') = Head(req[r].conns))
  <2>1. \A c \in Seq(Nodes), e \in Nodes :
          /\ Append(c, e) \in Seq(Nodes) /\ Append(c, e) # <<>>
          /\ Append(c, e)[Len(Append(c, e))] = e
          /\ c = <<>> => Append(c, e)[1] = e
          /\ c # <<>> => Append(c, e)[1] = c[1]
    OBVIOUS
  <2> QED BY <1>1, <1>2, <1>6, <2>1 DEF Last
<1>8. /\ q \in RequestState /\ q.kind = req[r].kind
      /\ more => q.pc = "dial" /\ q.i = req[r].i + 1
      /\ ~more => q.pc = "range" /\ q.i = 1
  <2>1. p \in Pcs /\ j \in Nat \ {0} /\ <<>> \in Seq(Nodes)
    BY <1>5, EmptySeq DEF Pcs, SshPcs
  <2>2. /\ more => p = "dial" /\ j = req[r].i + 1
        /\ ~more => p = "range" /\ j = 1
    OBVIOUS
  <2> HIDE DEF p, j
  <2>3. q \in RequestState /\ q.kind = req[r].kind /\ q.pc = p /\ q.i = j
    BY <1>2, <2>1 DEF RequestState
  <2> QED BY <2>2, <2>3
<1> HIDE DEF q
<1>9. req'[r] = q /\ \A x \in Requests : x # r => req'[x] = req[x]
  BY <1>1, <1>3
<1>10. Control(r)'
  <2>1. CASE more
    BY <1>2, <1>5, <1>8, <1>9, <2>1, KindsApart DEF Control, CreatePcs, RemovePcs, SshPcs
  <2>2. CASE ~more
    BY <1>2, <1>8, <1>9, <2>2, KindsApart DEF Control, CreatePcs, RemovePcs, SshPcs
  <2> QED BY <2>1, <2>2
<1>11. ASSUME ~cut PROVE Headed(connects)'
  <2>1. req[r].conns = <<>> => req[r].i = 1
    BY <1>1, <1>3, <1>4, <1>11 DEF ConnectInv, Headed
  <2>2. req[r].conns # <<>> => Head(req[r].conns) = Head(Hosts)
    BY <1>1, <1>3, <1>4, <1>11 DEF ConnectInv, Headed
  <2>3. req[r].i = 1 => h = Head(Hosts)
    BY <1>4, <1>6
  <2> QED BY <1>7, <2>1, <2>2, <2>3 DEF Headed
<1>12. ASSUME NEW x \in Requests, ~cut
       PROVE  /\ req'[x].pc = "append" /\ req'[x].i > 1 => Headed(req'[x].conns)
              /\ req'[x].pc = "append" /\ req'[x].i = 1 =>
                   req'[x].conns = <<>> \/ Headed(req'[x].conns)
  <2>1. CASE x = r
    BY <1>8, <1>9, <2>1
  <2>2. CASE x # r
    BY <1>3, <1>9, <1>12, <2>2 DEF ConnectInv
  <2> QED BY <2>1, <2>2
<1>13. ASSUME \A x \in Requests : req'[x].pc \notin {"dial", "append"}
       PROVE  Last(connects') = Last(Hosts)
  <2>1. req[r].i = Len(Hosts)
    BY <1>5, <1>8, <1>9, <1>13
  <2> QED BY <1>7, <2>1 DEF Last
<1>14. ConnectInv'
  BY <1>1, <1>6, <1>11, <1>12, <1>13 DEF ConnectInv, Headed
<1> QED BY <1>1, <1>2, <1>7, <1>8, <1>10, <1>14, SshMove

\* The process ends: everybody is cut off and the list is gone.
LEMMA FatalInd ==
  ASSUME IndInv, NEW r \in Requests, Fatal(r) PROVE IndInv'
<1>1. /\ req' = [s \in Requests |->
                   IF req[s].pc \in {"new", "done"} THEN req[s]
                   ELSE [req[s] EXCEPT !.pc = "done", !.answer = "cut off"]]
      /\ connects' = <<>> /\ UNCHANGED <<storeVars, executed, cut>>
  BY DEF Fatal
<1>2. ASSUME NEW x \in Requests
      PROVE  /\ req'[x] \in RequestState
             /\ req[x].pc \in {"new", "done"} => req'[x] = req[x]
             /\ req[x].pc \notin {"new", "done"} =>
                  /\ req'[x].pc = "done" /\ req'[x].answer = "cut off"
                  /\ req'[x].kind = req[x].kind
  <2>1. req[x] \in RequestState
    BY ARequest
  <2> QED BY <1>1, <2>1 DEF RequestState, Pcs, Answers
<1>3. TypeInv'
  BY <1>1, <1>2, EmptySeq DEF IndInv, TypeInv, storeVars
<1>4. ASSUME NEW x \in Requests PROVE Control(x)'
  <2>1. Control(x)
    BY ARequest
  <2>2. CASE req[x].pc \in {"new", "done"}
    BY <1>2, <2>1, <2>2, OtherControl
  <2>3. CASE req[x].pc \notin {"new", "done"}
    BY <1>2, <2>1, <2>3 DEF Control, CreatePcs, RemovePcs, SshPcs
  <2> QED BY <2>2, <2>3
<1>5. StoreInv'
  BY <1>1, <1>2, StoreKept
<1>6. \A x \in Requests : req'[x].pc \in {"new", "done"}
  BY <1>2
<1>7. ConnectInv'
  BY <1>1, <1>6 DEF ConnectInv
<1>8. CommandInv'
  BY <1>1, <1>2, CommandKept
<1> QED BY <1>3, <1>4, <1>5, <1>7, <1>8 DEF IndInv

\* The list is evaluated.
LEMMA RangeConnectsInd ==
  ASSUME IndInv, NEW r \in Requests, RangeConnects(r) PROVE IndInv'
<1> DEFINE q == [req[r] EXCEPT !.pc = "run", !.conns = connects]
<1>1. /\ req[r].pc = "range" /\ req' = [req EXCEPT ![r] = q]
      /\ UNCHANGED <<storeVars, executed, connects, cut>>
  BY DEF RangeConnects, At, sshVars
<1>2. /\ req[r] \in RequestState /\ Control(r) /\ req[r].kind \in LvmKinds
      /\ req[r].kind \notin ResourceKinds /\ connects \in Seq(Nodes) /\ cut \in BOOLEAN
  BY <1>1, SshRequest DEF SshPcs
<1>3. q \in RequestState /\ q.kind = req[r].kind /\ q.pc = "run" /\ q.i = req[r].i
  BY <1>2 DEF RequestState, Pcs, SshPcs
<1> HIDE DEF q
<1>4. req'[r] = q
  BY <1>1 DEF IndInv, TypeInv
<1>5. Control(r)'
  BY <1>1, <1>2, <1>3, <1>4, KindsApart DEF Control, CreatePcs, RemovePcs, SshPcs
<1>6. ConnectInv'
  BY <1>1, <1>3, ConnectKept
<1> QED BY <1>1, <1>2, <1>3, <1>5, <1>6, SshMove

\* A request for LVM that runs commands is answered or goes on.
LEMMA RunFacts ==
  ASSUME IndInv, NEW r \in Requests, req[r].pc = "run",
         NEW q \in RequestState, q.kind = req[r].kind, req' = [req EXCEPT ![r] = q],
         q.pc \in {"run", "again"} => q.i = 1, q.pc \in {"run", "again", "done"},
         \/ connects' = connects /\ cut' = cut
         \/ connects' = <<>> /\ cut' = TRUE
  PROVE  /\ Control(r)' /\ ConnectInv' /\ connects' \in Seq(Nodes) /\ cut' \in BOOLEAN
         /\ req[r].kind \notin ResourceKinds /\ q.kind \in LvmKinds
<1>1. /\ req[r] \in RequestState /\ Control(r) /\ req[r].kind \in LvmKinds
      /\ req[r].kind \notin ResourceKinds /\ connects \in Seq(Nodes) /\ cut \in BOOLEAN
  BY SshRequest DEF SshPcs
<1>2. req'[r] = q
  BY DEF IndInv, TypeInv
<1>3. Control(r)'
  BY <1>1, <1>2, KindsApart DEF Control, CreatePcs, RemovePcs, SshPcs
<1>4. ConnectInv'
  BY ConnectKept
<1>5. connects' \in Seq(Nodes) /\ cut' \in BOOLEAN
  BY <1>1, EmptySeq
<1> QED BY <1>1, <1>3, <1>4, <1>5

\* A command that changes a disk is run: this request has not run one before.
LEMMA RunCommandInd ==
  ASSUME IndInv, NEW r \in Requests, RunCommand(r) PROVE IndInv'
<1> DEFINE n == DiskNode(r)
<1>1. req[r].pc = "run" /\ UNCHANGED storeVars
  BY DEF RunCommand, At
<1>2. req[r] \in RequestState /\ req[r].conns \in Seq(Nodes) /\ req \in [Requests -> RequestState]
  BY <1>1, SshRequest DEF SshPcs, IndInv, TypeInv
<1>3. ASSUME NEW a \in Answers, Answer(r, a),
             NEW q, q = [req[r] EXCEPT !.pc = "done", !.answer = a]
      PROVE  /\ q \in RequestState /\ q.kind = req[r].kind /\ q.pc = "done"
             /\ req' = [req EXCEPT ![r] = q]
             /\ req'[r] = q /\ \A x \in Requests : x # r => req'[x] = req[x]
  <2>1. req' = [req EXCEPT ![r] = q]
    BY <1>3 DEF Answer
  <2> QED BY <1>2, <1>3, <2>1 DEF RequestState, Pcs
<1>4. CASE n \notin ToSet(req[r].conns)
  <2> DEFINE q == [req[r] EXCEPT !.pc = "done", !.answer = "no such node"]
  <2>1. Answer(r, "no such node") /\ UNCHANGED sshVars /\ "no such node" \in Answers
    BY <1>4 DEF RunCommand, Answers
  <2>2. /\ q \in RequestState /\ q.kind = req[r].kind /\ q.pc = "done"
        /\ req' = [req EXCEPT ![r] = q]
    BY <1>3, <2>1
  <2> HIDE DEF q
  <2>3. connects' = connects /\ cut' = cut /\ executed' = executed
    BY <2>1 DEF sshVars
  <2> QED BY <1>1, <2>2, <2>3, RunFacts, SshMove
<1>5. CASE n \in ToSet(req[r].conns)
  <2>1. /\ n \in Nodes /\ executed' = Append(executed, <<r, n>>)
    BY <1>2, <1>5, MembersOf DEF RunCommand
  <2>2. PICK a \in {"done", "panicked"} : Answer(r, a)
    BY <1>5 DEF RunCommand, SshCmd
  <2>3. \/ connects' = connects /\ cut' = cut
        \/ connects' = <<>> /\ cut' = TRUE
    BY <1>5 DEF RunCommand, SshCmd
  <2> DEFINE q == [req[r] EXCEPT !.pc = "done", !.answer = a]
  <2>4. a \in Answers
    BY DEF Answers
  <2>5. /\ q \in RequestState /\ q.kind = req[r].kind /\ q.pc = "done"
        /\ req' = [req EXCEPT ![r] = q]
        /\ req'[r] = q /\ \A x \in Requests : x # r => req'[x] = req[x]
    BY <1>3, <2>2, <2>4
  <2> HIDE DEF q
  <2>6. executed \in Seq(Requests \X Nodes) /\ <<r, n>> \in Requests \X Nodes
    BY <2>1 DEF IndInv, TypeInv
  <2>7. /\ executed' \in Seq(Requests \X Nodes)
        /\ DOMAIN executed' = DOMAIN executed \cup {Len(executed) + 1}
        /\ Len(executed) + 1 \notin DOMAIN executed
        /\ \A k \in DOMAIN executed : executed'[k] = executed[k]
        /\ executed'[Len(executed) + 1] = <<r, n>>
    <3> HIDE DEF n
    <3> QED BY <2>1, <2>6
  <2>8. \A x \in Requests : req'[x].kind = req[x].kind
    BY <2>5
  <2>9. ASSUME NEW k \in DOMAIN executed
        PROVE  /\ executed[k][1] \in Requests /\ executed[k][1] # r
               /\ req'[executed[k][1]].pc = "done"
               /\ executed[k][2] = DiskNode(executed[k][1])
    <3>1. executed[k] \in Requests \X Nodes
      BY <2>6, ElementOfSeq, LenProperties
    <3>2. /\ executed[k][1] \in Requests /\ req[executed[k][1]].pc = "done"
          /\ executed[k][2] = DiskNode(executed[k][1])
      BY <3>1 DEF IndInv, CommandInv, CommandOnce
    <3> QED BY <1>1, <2>5, <3>2
  <2>10. CommandInv'
    <3>1. ASSUME NEW k \in DOMAIN executed', NEW x, x = executed'[k][1]
          PROVE  x \in Requests /\ req'[x].pc = "done" /\ executed'[k][2] = DiskNode(x)
      <4>1. CASE k \in DOMAIN executed
        BY <2>7, <2>9, <3>1, <4>1
      <4>2. CASE k = Len(executed) + 1
        BY <2>5, <2>7, <3>1, <4>2
      <4> QED BY <2>7, <4>1, <4>2
    <3>2. ASSUME NEW k \in DOMAIN executed', NEW l \in DOMAIN executed',
                 executed'[k][1] = executed'[l][1]
          PROVE  k = l
      BY <2>7, <2>9, <3>2 DEF IndInv, CommandInv, CommandOnce
    <3>3. ASSUME NEW k \in DOMAIN executed', NEW x, x = executed'[k][1]
          PROVE  executed'[k][2] = IF req'[x].kind = "lvm list lvs" THEN PVNode
                                   ELSE Targets[x][1]
      BY <2>8, <3>1, <3>3 DEF DiskNode
    <3> QED BY <3>1, <3>2, <3>3 DEF CommandInv, CommandOnce, DiskNode
  <2> QED BY <1>1, <2>3, <2>5, <2>7, <2>10, RunFacts, SshStep
<1> QED BY <1>4, <1>5

\* A command that lists is run on the next connection.
LEMMA ListLvmInd ==
  ASSUME IndInv, NEW r \in Requests, ListLvm(r) PROVE IndInv'
<1>1. req[r].pc = "run" /\ UNCHANGED <<storeVars, executed>>
  BY DEF ListLvm, At
<1>2. /\ req[r] \in RequestState /\ req[r].conns \in Seq(Nodes) /\ Control(r)
  BY <1>1, SshRequest DEF SshPcs
<1>3. req[r].i = 1
  BY <1>1, <1>2 DEF Control
<1>4. ASSUME NEW q \in RequestState, q.kind = req[r].kind, req' = [req EXCEPT ![r] = q],
             q.pc \in {"run", "again"} => q.i = 1, q.pc \in {"run", "again", "done"},
             \/ connects' = connects /\ cut' = cut
             \/ connects' = <<>> /\ cut' = TRUE
      PROVE  IndInv'
  BY <1>1, <1>4, RunFacts, SshMove
<1>5. \/ connects' = connects /\ cut' = cut
      \/ connects' = <<>> /\ cut' = TRUE
  BY DEF ListLvm, SshCmd
<1>6. ASSUME NEW a \in Answers, Answer(r, a) PROVE IndInv'
  <2> DEFINE q == [req[r] EXCEPT !.pc = "done", !.answer = a]
  <2>1. q \in RequestState /\ q.kind = req[r].kind /\ q.pc = "done"
    BY <1>2 DEF RequestState, Pcs
  <2>2. req' = [req EXCEPT ![r] = q]
    BY <1>6 DEF Answer
  <2> HIDE DEF q
  <2> QED BY <1>4, <1>5, <2>1, <2>2
<1>7. ASSUME req[r].conns # <<>>, req' = [req EXCEPT ![r].conns = Tail(@)] PROVE IndInv'
  <2> DEFINE c == Tail(req[r].conns)  q == [req[r] EXCEPT !.conns = c]
  <2>1. req' = [req EXCEPT ![r] = q]
    BY <1>7
  <2>2. c \in Seq(Nodes)
    BY <1>2, <1>7, HeadTailProperties
  <2> HIDE DEF c
  <2>3. q \in RequestState /\ q.kind = req[r].kind /\ q.pc = "run" /\ q.i = 1
    BY <1>1, <1>2, <1>3, <2>2 DEF RequestState
  <2> HIDE DEF q
  <2> QED BY <1>4, <1>5, <2>1, <2>3
<1>8. ASSUME req' = [req EXCEPT ![r].pc = "again", ![r].answer = "listed"] PROVE IndInv'
  <2> DEFINE q == [req[r] EXCEPT !.pc = "again", !.answer = "listed"]
  <2>1. req' = [req EXCEPT ![r] = q]
    BY <1>8
  <2>2. q \in RequestState /\ q.kind = req[r].kind /\ q.pc = "again" /\ q.i = 1
    BY <1>2, <1>3 DEF RequestState, Pcs, SshPcs, Answers
  <2> HIDE DEF q
  <2> QED BY <1>4, <1>5, <2>1, <2>2
<1>9. "panicked" \in Answers /\ "done" \in Answers
  BY DEF Answers
<1> QED BY <1>6, <1>7, <1>8, <1>9 DEF ListLvm, SshCmd

-----------------------------------------------------------------------------
(* The invariant of the whole specification, and what follows from it.       *)

LEMMA InitInd == Init => IndInv
<1> SUFFICES ASSUME Init PROVE IndInv
  OBVIOUS
<1>1. /\ defs = [n \in Names |-> NoDef] /\ req = [r \in Requests |-> NewRequest]
      /\ connects = <<>> /\ executed = <<>> /\ cut = FALSE
      /\ intact = {} /\ alone = [n \in Names |-> {}]
  BY DEF Init
<1>2. NewRequest \in RequestState
  BY EmptySeq DEF NewRequest, RequestState, Pcs, Answers
<1>3. TypeInv
  BY <1>1, <1>2, NoDefType, EmptySeq DEF TypeInv
<1>4. \A r \in Requests : /\ req[r].pc = "new" /\ req[r].kind = "" /\ req[r].i = 1
                          /\ req[r].answer = ""
  BY <1>1 DEF NewRequest
<1>5. \A r \in Requests : Control(r)
  BY <1>4 DEF Control, CreatePcs, RemovePcs, SshPcs
<1>6. StoreInv
  BY <1>1 DEF StoreInv
<1>7. ConnectInv
  BY <1>1, <1>4 DEF ConnectInv
<1>8. DOMAIN executed = {}
  <2>1. executed \in Seq(Nodes) /\ Len(executed) = 0
    BY <1>1, EmptySeq
  <2>2. DOMAIN executed = 1..0
    BY <2>1, LenProperties
  <2> QED BY <2>2
<1>9. CommandInv
  BY <1>8 DEF CommandInv, CommandOnce
<1> QED BY <1>3, <1>5, <1>6, <1>7, <1>9 DEF IndInv

LEMMA StutterInd ==
  ASSUME IndInv, UNCHANGED vars PROVE IndInv'
<1>1. UNCHANGED <<defs, intact, alone, connects, executed, cut, req, storeVars>>
  BY DEF vars, storeVars, sshVars
<1>2. TypeInv'
  BY <1>1 DEF IndInv, TypeInv
<1>3. \A r \in Requests : Control(r)'
  BY <1>1, OtherControl DEF IndInv
<1>4. StoreInv'
  BY <1>1, StoreKept
<1>5. ConnectInv'
  BY <1>1 DEF IndInv, ConnectInv, Headed
<1>6. CommandInv'
  BY <1>1, CommandKept
<1> QED BY <1>2, <1>3, <1>4, <1>5, <1>6 DEF IndInv

\* The invariant holds in every reachable state.
THEOREM LinstorInductive == Spec => []IndInv
<1>1. IndInv /\ [Next]_vars => IndInv'
  <2> SUFFICES ASSUME IndInv, [Next]_vars PROVE IndInv'
    OBVIOUS
  <2>1. CASE Next
    BY <2>1, StartInd, GetDefinitionInd, CreateDefinitionInd, CreateVolumeDefinitionInd,
       PlaceReplicaInd, RollbackInd, DeleteResourceInd, AddReplicaInd, GetReplicasInd,
       RemoveReplicaInd, GetSshListInd, DialInd, AppendConnectInd, FatalInd,
       RangeConnectsInd, RunCommandInd, ListLvmInd DEF Next
  <2>2. CASE UNCHANGED vars
    BY <2>2, StutterInd
  <2> QED BY <2>1, <2>2
<1> QED BY InitInd, <1>1, PTL DEF Spec

\* A resource that was created undisturbed keeps its definition, its volume and
\* its replicas until somebody removes them, whoever comes later.
THEOREM LinstorCreatedStays == Spec => []CreatedStays
<1>1. IndInv => CreatedStays
  BY DEF IndInv, StoreInv, Intact, Made, CreatedStays
<1> QED BY LinstorInductive, <1>1, PTL

\* A creation that was by itself and failed has left nothing.
THEOREM LinstorRollsBack == Spec => []RollsBack
<1>1. IndInv => RollsBack
  BY DEF IndInv, StoreInv, Alone, AloneState, RollsBack, Def
<1> QED BY LinstorInductive, <1>1, PTL

\* A command that changes a disk is run at most once for a request, on the node
\* that was named, whatever the list of connections has become.
THEOREM LinstorCommandOnce == Spec => []CommandOnce
<1>1. IndInv => CommandOnce
  BY DEF IndInv, CommandInv
<1> QED BY LinstorInductive, <1>1, PTL

\* The list of connections goes from the first host to the last.
THEOREM LinstorConnectionsSpan == Spec => []ConnectionsSpan
<1>1. IndInv => ConnectionsSpan
  BY DEF IndInv, ConnectInv, Headed, ConnectionsSpan
<1> QED BY LinstorInductive, <1>1, PTL
=============================================================================
