------------------------------ MODULE Linstor ------------------------------
(***************************************************************************)
(* Storage management: the handlers of pkg/kapis/versatel/v1alpha1 and     *)
(* pkg/models/versatel/v1alpha1/linstor that change something, for any     *)
(* number of HTTP requests at once.                                        *)
(*                                                                         *)
(* Resources are kept by a remote LINSTOR controller; a handler is a       *)
(* sequence of calls to it and every call is a step.  A call may be        *)
(* refused, may fail, and may be carried out although its answer is lost.  *)
(* LVM commands are run on the nodes over SSH connections that all         *)
(* handlers share in one variable (sshlist of versassh.go), which they     *)
(* read and write without a lock: every access is a step.                  *)
(***************************************************************************)
EXTENDS Integers, SequencesExt

CONSTANTS
  Requests,   \* HTTP requests
  Kinds,      \* Kinds[r]: what r may be: a subset of RequestKinds
  Names,      \* names of resources
  Name,       \* Name[r]: the resource r is about
  Nodes,      \* LINSTOR nodes
  Targets,    \* Targets[r]: the nodes r names, a sequence
  Hosts,      \* the nodes DoSshs connects to, in the order of GetNodeData
  PVNode      \* the node whose disk handleListLvmLVs initialises ("ben2")

ResourceKinds == {"create", "delete", "increase", "decrease", "diskless"}
LvmKinds == {"lvm create", "lvm list", "lvm list lvs"}

ASSUME LinstorAssumption ==
  /\ \A r \in Requests : /\ Kinds[r] \subseteq ResourceKinds \cup LvmKinds
                         /\ Name[r] \in Names
                         /\ Targets[r] \in Seq(Nodes)
                         /\ "lvm create" \in Kinds[r] => Targets[r] # <<>>
  /\ Hosts \in Seq(Nodes) /\ IsInjective(Hosts)

VARIABLES
  defs,       \* defs[n]: the resource definition n in the LINSTOR controller
  req,        \* req[r]: the local state of request r
  connects,   \* sshlist.Connects: the nodes of the connections; <<>> is nil
  executed,   \* history: commands issued that change a disk, <<request, node>>
  cut,        \* history: a command failed and Connects was set to nil
  intact,     \* history: resources that were made and that nobody disturbed
  alone       \* history: the last request for each resource, if by itself

storeVars == <<defs, intact, alone>>
sshVars == <<connects, executed, cut>>
vars == <<storeVars, sshVars, req>>

NoDef == [exists |-> FALSE, volumes |-> 0, place |-> [d \in Nodes |-> "none"]]

\* i counts the loops; conns is what was read of sshlist.Connects.
NewRequest ==
  [pc |-> "new", kind |-> "", i |-> 1, conns |-> <<>>, answer |-> ""]

Init ==
  /\ defs = [n \in Names |-> NoDef]
  /\ req = [r \in Requests |-> NewRequest]
  /\ connects = <<>> /\ executed = <<>> /\ cut = FALSE
  /\ intact = {} /\ alone = [n \in Names |-> {}]

At(r, pc) == req[r].pc = pc
Goto(r, pc) == req' = [req EXCEPT ![r].pc = pc]
Answer(r, a) == req' = [req EXCEPT ![r].pc = "done", ![r].answer = a]

Def(r) == defs[Name[r]]
PutDef(r, d) == defs' = [defs EXCEPT ![Name[r]] = d]
Target(r) == Targets[r][req[r].i]

\* The requests for the resource of r that are being handled.
InFlight(r) ==
  {s \in Requests \ {r} : /\ Name[s] = Name[r] /\ req[s].kind \in ResourceKinds
                          /\ req[s].pc \notin {"new", "done"}}

\* Where a request for a resource, or for LVM, starts.
FirstPc(k) ==
  CASE k = "create" -> "get"
    [] k = "delete" -> "delete"
    [] k \in {"increase", "diskless"} -> "add"
    [] k = "decrease" -> "replicas"

\* A handler for resources starts.  An empty list of nodes ends some at once.
Start(r) ==
  /\ At(r, "new")
  /\ \E k \in Kinds[r] \cap ResourceKinds :
       req' = [req EXCEPT ![r].kind = k,
                          ![r].pc = IF k \in {"create", "delete"} \/ Targets[r] # <<>>
                                    THEN FirstPc(k) ELSE "done"]
  /\ alone' = [alone EXCEPT ![Name[r]] = IF InFlight(r) = {} THEN {r} ELSE {}]
  /\ UNCHANGED <<defs, intact, sshVars>>

-----------------------------------------------------------------------------
(* CreateResource.                                                           *)

\* Mutant of GetDefinition: a definition that exists is not noticed.
GetDefinitionUnseen(r) ==
  /\ At(r, "get")
  /\ Goto(r, "define")
  /\ UNCHANGED <<defs, alone, intact, sshVars>>

\* The size does not parse, or ResourceDefinitions.Get finds the name; any
\* error of Get means that it is free.
GetDefinition(r) ==
  /\ At(r, "get")
  /\ \/ Answer(r, "bad size") /\ UNCHANGED intact
     \/ Def(r).exists /\ Answer(r, "exists") /\ UNCHANGED intact
     \/ ~Def(r).exists /\ Goto(r, "define") /\ UNCHANGED intact
     \/ /\ Def(r).exists
        /\ Goto(r, "define")
        /\ intact' = {s \in intact : Name[s] # Name[r]}
  /\ UNCHANGED <<defs, alone, sshVars>>

\* ResourceDefinitions.Create
CreateDefinition(r) ==
  /\ At(r, "define")
  /\ \/ /\ ~Def(r).exists
        /\ PutDef(r, [NoDef EXCEPT !.exists = TRUE])
        /\ Goto(r, "volume") \/ Goto(r, "rollback")
     \/ UNCHANGED defs /\ Goto(r, "rollback")
  /\ UNCHANGED <<intact, alone, sshVars>>

\* The resource is complete; history: no other request was in the way.
Created(r) ==
  /\ Answer(r, "created")
  /\ intact' = IF r \in alone[Name[r]] THEN intact \cup {r} ELSE intact

\* The next of the nodes, or the end.
Placed(r) ==
  IF req[r].i < Len(Targets[r])
  THEN req' = [req EXCEPT ![r].i = @ + 1] /\ UNCHANGED intact
  ELSE Created(r)

\* ResourceDefinitions.CreateVolumeDefinition
CreateVolumeDefinition(r) ==
  /\ At(r, "volume")
  /\ \/ /\ Def(r).exists
        /\ PutDef(r, [Def(r) EXCEPT !.volumes = @ + 1])
        /\ \/ Targets[r] = <<>> /\ Created(r)
           \/ Targets[r] # <<>> /\ Goto(r, "place") /\ UNCHANGED intact
           \/ Goto(r, "rollback") /\ UNCHANGED intact
     \/ UNCHANGED <<defs, intact>> /\ Goto(r, "rollback")
  /\ UNCHANGED <<alone, sshVars>>

\* Mutant of PlaceReplica: what was made before an error stays.
PlaceReplicaOrStop(r) ==
  /\ At(r, "place")
  /\ \/ /\ Def(r).exists /\ Def(r).place[Target(r)] = "none"
        /\ PutDef(r, [Def(r) EXCEPT !.place[Target(r)] = "diskful"])
        /\ Placed(r)
     \/ UNCHANGED <<defs, intact>> /\ Answer(r, "failed")
  /\ UNCHANGED <<alone, sshVars>>

\* Resources.Create on the next node.
PlaceReplica(r) ==
  /\ At(r, "place")
  /\ \/ /\ Def(r).exists /\ Def(r).place[Target(r)] = "none"
        /\ PutDef(r, [Def(r) EXCEPT !.place[Target(r)] = "diskful"])
        /\ Placed(r) \/ (Goto(r, "rollback") /\ UNCHANGED intact)
     \/ UNCHANGED <<defs, intact>> /\ Goto(r, "rollback")
  /\ UNCHANGED <<alone, sshVars>>

\* ResourceDefinitions.Delete on the way out, whose error is dropped.
Rollback(r) ==
  /\ At(r, "rollback")
  /\ \/ PutDef(r, NoDef) /\ Answer(r, "failed")
     \/ Def(r).exists /\ UNCHANGED defs /\ Answer(r, "not rolled back")
  /\ UNCHANGED <<intact, alone, sshVars>>

-----------------------------------------------------------------------------
(* DeleteResource, CreateDiskless, IncreaseReplicas (up and down).           *)

DeleteResource(r) ==
  /\ At(r, "delete")
  /\ intact' = {s \in intact : Name[s] # Name[r]}
  /\ \/ Def(r).exists /\ PutDef(r, NoDef)
     \/ UNCHANGED defs
  /\ Answer(r, "done") \/ Answer(r, "failed")
  /\ UNCHANGED <<alone, sshVars>>

\* The loop goes on with the next node, at pc, or ends.
Continue(r, pc) ==
  IF req[r].i < Len(Targets[r])
  THEN req' = [req EXCEPT ![r].i = @ + 1, ![r].pc = pc]
  ELSE Answer(r, "done")

\* Resources.Create: UpdateDiskfulResource returns the first error, CreateDiskless
\* goes on with the next node.
AddReplica(r) ==
  LET mode == IF req[r].kind = "diskless" THEN "diskless" ELSE "diskful"
      error == IF mode = "diskless" THEN Continue(r, "add") ELSE Answer(r, "failed")
  IN
  /\ At(r, "add")
  /\ \/ /\ Def(r).exists /\ Def(r).place[Target(r)] = "none"
        /\ PutDef(r, [Def(r) EXCEPT !.place[Target(r)] = mode])
        /\ Continue(r, "add") \/ error
     \/ UNCHANGED defs /\ error
  /\ UNCHANGED <<intact, alone, sshVars>>

\* Resources.GetAll: a node without a replica ends the request.
GetReplicas(r) ==
  /\ At(r, "replicas")
  /\ \/ Answer(r, "failed")
     \/ Def(r).place[Target(r)] # "none" /\ Goto(r, "remove")
  /\ UNCHANGED <<storeVars, sshVars>>

\* Resources.Delete, which is called twice.  The controller may or may not
\* complain about a replica that is not there.
RemoveReplica(r) ==
  LET there == Def(r).place[Target(r)] # "none"
      deleted == IF At(r, "remove") THEN Goto(r, "remove again")
                 ELSE Continue(r, "replicas")
  IN
  /\ At(r, "remove") \/ At(r, "remove again")
  /\ \/ /\ there
        /\ PutDef(r, [Def(r) EXCEPT !.place[Target(r)] = "none"])
        /\ deleted \/ Answer(r, "failed")
     \/ ~there /\ UNCHANGED defs /\ deleted
     \/ UNCHANGED defs /\ Answer(r, "failed")
  /\ UNCHANGED <<intact, alone, sshVars>>

-----------------------------------------------------------------------------
(* LVM commands over SSH.                                                    *)

\* A handler for LVM calls GetSshList: is sshlist.Connects nil?
GetSshList(r) ==
  /\ \/ /\ At(r, "new")
        /\ \E k \in Kinds[r] \cap LvmKinds :
             req' = [req EXCEPT ![r].kind = k,
                       ![r].pc = IF connects = <<>> THEN "dial" ELSE "range"]
     \/ /\ At(r, "again")
        /\ Goto(r, IF connects = <<>> THEN "dial" ELSE "range")
  /\ UNCHANGED <<storeVars, sshVars>>

\* DoSshs connects to the next node and reads the list it appends to ...
Dial(r) ==
  /\ At(r, "dial")
  /\ IF Hosts = <<>> THEN Goto(r, "range")
     ELSE req' = [req EXCEPT ![r].pc = "append", ![r].conns = connects]
  /\ UNCHANGED <<storeVars, sshVars>>

\* Mutant of AppendConnect: the list is replaced.
AppendConnectOnly(r) ==
  /\ At(r, "append")
  /\ connects' = <<Hosts[req[r].i]>>
  /\ req' = [req EXCEPT ![r].conns = <<>>,
               ![r].pc = IF req[r].i < Len(Hosts) THEN "dial" ELSE "range",
               ![r].i = IF req[r].i < Len(Hosts) THEN @ + 1 ELSE 1]
  /\ UNCHANGED <<storeVars, executed, cut>>

\* ... and stores it.
AppendConnect(r) ==
  /\ At(r, "append")
  /\ connects' = Append(req[r].conns, Hosts[req[r].i])
  /\ req' = [req EXCEPT ![r].conns = <<>>,
               ![r].pc = IF req[r].i < Len(Hosts) THEN "dial" ELSE "range",
               ![r].i = IF req[r].i < Len(Hosts) THEN @ + 1 ELSE 1]
  /\ UNCHANGED <<storeVars, executed, cut>>

\* GetNodeData cannot list the nodes, or a connection fails: log.Fatal ends the
\* process with all its requests; it is started again.
Fatal(r) ==
  /\ At(r, "dial")
  /\ req' = [s \in Requests |->
               IF req[s].pc \in {"new", "done"} THEN req[s]
               ELSE [req[s] EXCEPT !.pc = "done", !.answer = "cut off"]]
  /\ connects' = <<>>
  /\ UNCHANGED <<storeVars, executed, cut>>

\* The range loop evaluates the list once.
RangeConnects(r) ==
  /\ At(r, "range")
  /\ req' = [req EXCEPT ![r].pc = "run", ![r].conns = connects]
  /\ UNCHANGED <<storeVars, sshVars>>

\* SshCmd: the command is run, fails, or finds no session, which panics.
SshCmd(r, then) ==
  \/ then /\ UNCHANGED <<connects, cut>>
  \/ then /\ connects' = <<>> /\ cut' = TRUE
  \/ Answer(r, "panicked") /\ connects' = <<>> /\ cut' = TRUE

\* The node a command that changes a disk is for.
DiskNode(r) == IF req[r].kind = "lvm list lvs" THEN PVNode ELSE Targets[r][1]

\* Mutant of RunCommand: the loop is not left after the command was run.
RunCommandOnEach(r) ==
  LET n == Head(req[r].conns) IN
  /\ At(r, "run") /\ (req[r].kind = "lvm create" \/ req[r].answer = "listed")
  /\ req[r].conns # <<>>
  /\ req' = [req EXCEPT ![r].conns = Tail(@)]
  /\ executed' = IF n = DiskNode(r) THEN Append(executed, <<r, n>>) ELSE executed
  /\ UNCHANGED <<storeVars, connects, cut>>

\* CreatePV, CreateVG, CreateThinPool, CreateLV: the first connection to the
\* node is used, and the loop is left.
RunCommand(r) ==
  LET n == DiskNode(r) IN
  /\ At(r, "run") /\ (req[r].kind = "lvm create" \/ req[r].answer = "listed")
  /\ IF n \notin ToSet(req[r].conns)
     THEN Answer(r, "no such node") /\ UNCHANGED sshVars
     ELSE /\ SshCmd(r, Answer(r, "done"))
          /\ executed' = Append(executed, <<r, n>>)
  /\ UNCHANGED storeVars

\* GetLvmDevices, GetLvmPVs, GetLvmVGs, GetLvmLVs: a command on every connection.
\* handleListLvmLVs then calls CreatePV.
ListLvm(r) ==
  LET listed == req' = [req EXCEPT ![r].conns = Tail(@)] IN
  /\ At(r, "run") /\ req[r].kind # "lvm create" /\ req[r].answer # "listed"
  /\ IF req[r].conns # <<>> THEN SshCmd(r, listed)
     ELSE /\ IF req[r].kind = "lvm list" THEN Answer(r, "done")
             ELSE req' = [req EXCEPT ![r].pc = "again", ![r].answer = "listed"]
          /\ UNCHANGED <<connects, cut>>
  /\ UNCHANGED <<storeVars, executed>>

-----------------------------------------------------------------------------
Next ==
  \E r \in Requests :
    \/ Start(r) \/ GetDefinition(r) \/ CreateDefinition(r)
    \/ CreateVolumeDefinition(r) \/ PlaceReplica(r) \/ Rollback(r)
    \/ DeleteResource(r) \/ AddReplica(r) \/ GetReplicas(r) \/ RemoveReplica(r)
    \/ GetSshList(r) \/ Dial(r) \/ AppendConnect(r) \/ Fatal(r) \/ RangeConnects(r)
    \/ RunCommand(r) \/ ListLvm(r)

Spec == Init /\ [][Next]_vars
-----------------------------------------------------------------------------
\* Nodes a request to remove replicas of n names.
Removed(n) ==
  UNION {ToSet(Targets[r]) : r \in {s \in Requests : /\ req[s].kind = "decrease"
                                                    /\ Name[s] = n}}

(***************************************************************************)
(* The existence check of CreateResource protects what is there: a         *)
(* resource that was created undisturbed keeps its definition, its volume  *)
(* and its replicas until somebody removes them, whichever requests for it *)
(* come later, fail, roll back or are cut off.  (Excepted, see intact: a   *)
(* later creator whose check fails with an error, for it goes on to create *)
(* the definition, is refused, and rolls back what it did not make.)       *)
(***************************************************************************)
CreatedStays ==
  \A r \in intact :
    /\ Def(r).exists /\ Def(r).volumes > 0
    /\ \A d \in ToSet(Targets[r]) \ Removed(Name[r]) : Def(r).place[d] = "diskful"

(***************************************************************************)
(* A creation that fails half way leaves nothing: whichever of its calls   *)
(* fails, also one that was carried out although its answer was lost, the  *)
(* definition is gone when the request is answered, unless the deletion    *)
(* itself failed or another request for that resource has come between.    *)
(***************************************************************************)
RollsBack ==
  \A n \in Names : \A r \in alone[n] :
    req[r].kind = "create" /\ req[r].answer = "failed" => ~defs[n].exists

(***************************************************************************)
(* A command that changes a disk is run at most once for a request, and on *)
(* the node that was named, although handlers that build the list of       *)
(* connections together put several connections to a node into it.         *)
(***************************************************************************)
CommandOnce ==
  \A i, j \in DOMAIN executed :
    /\ executed[i][1] = executed[j][1] => i = j
    /\ executed[i][2] = DiskNode(executed[i][1])

(***************************************************************************)
(* When nobody is building the list of connections, it is nil or goes from *)
(* the first node to the last, although handlers that build it together    *)
(* overwrite each other's entries (a node in between may be lost, and is   *)
(* then never connected); the first one only as long as no command has     *)
(* failed, for a handler that sets the list to nil while another one       *)
(* builds it leaves a list without the first nodes.                        *)
(***************************************************************************)
ConnectionsSpan ==
  (\A r \in Requests : req[r].pc \notin {"dial", "append"}) =>
    \/ connects = <<>>
    \/ /\ Last(connects) = Last(Hosts)
       /\ ~cut => Head(connects) = Head(Hosts)
=============================================================================
