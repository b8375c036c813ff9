------------------------------ MODULE CloudMap ------------------------------
(***************************************************************************)
(* AWS Cloud Map (provider/awssd/aws_sd.go) with its registry              *)
(* (registry/awssd/registry.go), shared by several ExternalDNS processes.  *)
(* A name is a service whose description names its owner, its targets are  *)
(* the instances registered with it.  A service outlives its instances;    *)
(* reading the records removes the empty services of the reader.           *)
(***************************************************************************)
EXTENDS Integers, Sequences, FiniteSets, SequencesExt

CONSTANTS
  Owners, Names, Targets,
  Matches,        \* owner |-> the owners whose description begins like its own
  Cleanup,        \* --aws-sd-service-cleanup
  TTL,            \* owner |-> the TTL it configures, 0 for none
  DefaultTTL,
  Wants,          \* owner |-> what it may want: functions from names to targets
  MaxServices,    \* bound on the services that are ever created
  MaxFaults,      \* bound on failing calls and crashes
  MaxEdits        \* bound on the changes of the sources

VARIABLES
  svc,      \* name |-> its service [id, owner, ttl], id 0 if there is none
  inst,     \* name |-> the targets registered with the service
  created,  \* the number of services created so far
  want,
  pc,       \* owner |-> "idle", "read", "delete", "deletes", "creates"
  list,     \* owner |-> the services it has listed; Records takes off those
            \* it has looked at
  view,     \* owner |-> the endpoints Records has found
  todo,     \* owner |-> the calls that are left
  then,     \* owner |-> the creates that follow the deletes
  faults, edits

(* TTLs are not negative, and a namespace has finitely many names.         *)
ASSUME CloudMapAssumption ==
  /\ IsFiniteSet(Names)
  /\ DefaultTTL \in Nat /\ TTL \in [Owners -> Nat]
  /\ \A o \in Owners : Wants[o] \subseteq [Names -> SUBSET Targets]

vars == <<svc, inst, created, want, pc, list, view, todo, then, faults, edits>>
store == <<svc, inst, created>>

NoService == [id |-> 0, owner |-> "", ttl |-> 0]
Existing == {n \in Names : svc[n].id # 0}

Init ==
  /\ svc = [n \in Names |-> NoService] /\ inst = [n \in Names |-> {}] /\ created = 0
  /\ want \in {w \in [Owners -> UNION {Wants[o] : o \in Owners}] : \A o \in Owners : w[o] \in Wants[o]}
  /\ pc = [o \in Owners |-> "idle"]
  /\ list = [o \in Owners |-> {}] /\ view = [o \in Owners |-> {}]
  /\ todo = [o \in Owners |-> <<>>] /\ then = [o \in Owners |-> {}]
  /\ faults = 0 /\ edits = 0

(* ListServicesByNamespaceID, and what has been listed for a name.         *)
Listing == {<<n, svc[n]>> : n \in Existing}
Listed(o, n) == {e[2] : e \in {d \in list[o] : d[1] = n}}

(* Records lists the services.                                             *)
ListServices(o) ==
  /\ pc[o] = "idle"
  /\ pc' = [pc EXCEPT ![o] = "read"]
  /\ list' = [list EXCEPT ![o] = Listing]
  /\ UNCHANGED <<store, want, view, todo, then, faults, edits>>

(* The run ends, with or without an error.                                 *)
Return(o) == /\ pc' = [pc EXCEPT ![o] = "idle"]
             /\ list' = [list EXCEPT ![o] = {}]
             /\ view' = [view EXCEPT ![o] = {}]
             /\ todo' = [todo EXCEPT ![o] = <<>>]
             /\ then' = [then EXCEPT ![o] = {}]

(* Records: DiscoverInstances for one service, by its name.  That there is *)
(* no such service any more is an error; an empty one may be deleted.      *)
Discover(o) ==
  /\ pc[o] = "read"
  /\ \E e \in list[o] :
       LET n == e[1]
           s == e[2]
       IN  \/ /\ n \notin Existing
              /\ Return(o)
           \/ /\ n \in Existing /\ inst[n] # {}
              /\ list' = [list EXCEPT ![o] = @ \ {e}]
              /\ view' = [view EXCEPT ![o] = @ \union
                   {[name |-> n, tgts |-> inst[n], owner |-> s.owner, ttl |-> s.ttl]}]
              /\ UNCHANGED <<pc, todo, then>>
           \/ /\ n \in Existing /\ inst[n] = {}
              /\ pc' = [pc EXCEPT ![o] = "delete"]
              /\ todo' = [todo EXCEPT ![o] = <<<<"delete", n, {}>>>>]
              /\ UNCHANGED <<list, view, then>>
  /\ UNCHANGED <<store, want, faults, edits>>

(* DeleteService: only its own services, by the id that was listed; the    *)
(* service must be empty still.  An error is only logged.                  *)
Deletes(o, s) == Cleanup /\ s.owner \in Matches[o]
DeleteService(o) ==
  /\ pc[o] = "delete"
  /\ \E e \in list[o] :
       /\ e[1] = todo[o][1][2]
       /\ list' = [list EXCEPT ![o] = @ \ {e}]
       /\ \/ /\ svc' = [svc EXCEPT ![e[1]] =
                   IF Deletes(o, e[2]) /\ inst[e[1]] = {} /\ e[2].id = @.id
                   THEN NoService ELSE @]
             /\ UNCHANGED faults
          \/ /\ Deletes(o, e[2]) /\ faults < MaxFaults
             /\ faults' = faults + 1
             /\ UNCHANGED svc
  /\ pc' = [pc EXCEPT ![o] = "read"]
  /\ todo' = [todo EXCEPT ![o] = <<>>]
  /\ UNCHANGED <<inst, created, want, view, then, edits>>

(* The plan, with the registry's filter by owner: an update deregisters    *)
(* the targets that go (updatesToCreates) and creates the others.          *)
Wanted(o) == {n \in Names : want[o][n] # {}}
NeedsUpdate(o, e) ==
  /\ e.owner = o /\ e.name \in Wanted(o)
  /\ e.tgts # want[o][e.name] \/ (TTL[o] > 0 /\ TTL[o] # e.ttl)

(* A mutant of PlanDeletes: an update leaves the old targets registered.   *)
PlanDeletesGone(o) ==
  {<<"deregister", e.name, e.tgts>> : e \in {d \in view[o] : d.owner = o /\ d.name \notin Wanted(o)}}

PlanDeletes(o) ==
  {<<"deregister", e.name, e.tgts>> : e \in {d \in view[o] : d.owner = o /\ d.name \notin Wanted(o)}}
    \union {<<"deregister", e.name, e.tgts \ want[o][e.name]>> :
              e \in {d \in view[o] : NeedsUpdate(o, d) /\ d.tgts # want[o][d.name]}}
PlanCreates(o) ==
  {<<"service", n, want[o][n]>> :
     n \in {m \in Wanted(o) : (\E e \in view[o] : e.name = m /\ NeedsUpdate(o, e))
                                \/ ~(\E e \in view[o] : e.name = m)}}

(* A mutant of PlanChanges: the registry does not filter by owner.         *)
PlanUnfiltered(o) ==
  /\ pc[o] = "read" /\ list[o] = {}
  /\ pc' = [pc EXCEPT ![o] = "deletes"]
  /\ list' = [list EXCEPT ![o] = Listing]
  /\ todo' = [todo EXCEPT ![o] =
       SetToSeq({<<"deregister", e.name, e.tgts>> : e \in {d \in view[o] : d.name \notin Wanted(o)}})]
  /\ then' = [then EXCEPT ![o] = PlanCreates(o)]
  /\ view' = [view EXCEPT ![o] = {}]
  /\ UNCHANGED <<store, want, faults, edits>>

(* ApplyChanges begins with submitDeletes, which lists the services again. *)
PlanChanges(o) ==
  /\ pc[o] = "read" /\ list[o] = {}
  /\ pc' = [pc EXCEPT ![o] = "deletes"]
  /\ list' = [list EXCEPT ![o] = Listing]
  /\ todo' = [todo EXCEPT ![o] = SetToSeq(PlanDeletes(o))]
  /\ then' = [then EXCEPT ![o] = PlanCreates(o)]
  /\ view' = [view EXCEPT ![o] = {}]
  /\ UNCHANGED <<store, want, faults, edits>>

(* submitDeletes: DeregisterInstance for the targets, by the id that was   *)
(* listed.  A service that was not listed, or is gone, is an error.        *)
Deregister(o) ==
  /\ pc[o] = "deletes" /\ todo[o] # <<>>
  /\ LET n == todo[o][1][2]
     IN  IF \E s \in Listed(o, n) : s.id = svc[n].id
         THEN /\ inst' = [inst EXCEPT ![n] = @ \ todo[o][1][3]]
              /\ todo' = [todo EXCEPT ![o] = Tail(@)]
              /\ UNCHANGED <<pc, list, view, then>>
         ELSE Return(o) /\ UNCHANGED inst
  /\ UNCHANGED <<svc, created, want, faults, edits>>

(* submitCreates lists the services once more.                             *)
DeletesDone(o) ==
  /\ pc[o] = "deletes" /\ todo[o] = <<>>
  /\ pc' = [pc EXCEPT ![o] = "creates"]
  /\ list' = [list EXCEPT ![o] = Listing]
  /\ todo' = [todo EXCEPT ![o] = SetToSeq(then[o])]
  /\ then' = [then EXCEPT ![o] = {}]
  /\ UNCHANGED <<store, want, view, faults, edits>>

(* The instances are registered next, with the service that has this id.   *)
Registering(o, id) ==
  /\ todo' = [todo EXCEPT ![o] = <<<<"register", @[1][2], @[1][3], id>>>> \o Tail(@)]
  /\ UNCHANGED <<pc, list, view, then>>

(* CreateService for a name that was not listed; there may be a service    *)
(* by now, which is an error.                                              *)
ServiceTTL(o) == IF TTL[o] > 0 THEN TTL[o] ELSE DefaultTTL
CreateService(o, n) ==
  \/ /\ n \notin Existing /\ created < MaxServices
     /\ svc' = [svc EXCEPT ![n] = [id |-> created + 1, owner |-> o, ttl |-> ServiceTTL(o)]]
     /\ created' = created + 1
     /\ Registering(o, created + 1)
  \/ /\ n \in Existing
     /\ Return(o)
     /\ UNCHANGED <<svc, created>>

(* A service that was listed is used whoever owns it, after UpdateService  *)
(* if its TTL differs, which is an error if the service is gone.           *)
Differs(o, s) == TTL[o] > 0 /\ s.ttl # TTL[o]
UseService(o, n, s) ==
  /\ IF Differs(o, s) /\ s.id # svc[n].id
     THEN Return(o) /\ UNCHANGED svc
     ELSE /\ Registering(o, s.id)
          /\ svc' = IF Differs(o, s) THEN [svc EXCEPT ![n].owner = o, ![n].ttl = TTL[o]] ELSE svc
  /\ UNCHANGED created

(* submitCreates, up to RegisterInstance.                                  *)
EnsureService(o) ==
  /\ pc[o] = "creates" /\ todo[o] # <<>> /\ todo[o][1][1] = "service"
  /\ LET n == todo[o][1][2]
     IN  \/ Listed(o, n) = {} /\ CreateService(o, n)
         \/ \E s \in Listed(o, n) : UseService(o, n, s)
  /\ UNCHANGED <<inst, want, faults, edits>>

(* The service may be gone by now.                                         *)
Register(o) ==
  /\ pc[o] = "creates" /\ todo[o] # <<>> /\ todo[o][1][1] = "register"
  /\ LET n == todo[o][1][2]
     IN  IF svc[n].id # todo[o][1][4]
         THEN Return(o) /\ UNCHANGED inst
         ELSE /\ inst' = [inst EXCEPT ![n] = @ \union todo[o][1][3]]
              /\ todo' = [todo EXCEPT ![o] = Tail(@)]
              /\ UNCHANGED <<pc, list, view, then>>
  /\ UNCHANGED <<svc, created, want, faults, edits>>

CreatesDone(o) ==
  /\ pc[o] = "creates" /\ todo[o] = <<>>
  /\ Return(o)
  /\ UNCHANGED <<store, want, faults, edits>>

(* A call fails or the process crashes; RegisterInstance and               *)
(* DeregisterInstance, which make a call for each target, may have been    *)
(* carried out for some of them.                                           *)
Partly(o) ==
  \/ UNCHANGED inst
  \/ /\ todo[o] # <<>>
     /\ LET n == todo[o][1][2]
        IN  \E T \in SUBSET todo[o][1][3] :
              \/ /\ todo[o][1][1] = "register" /\ svc[n].id = todo[o][1][4]
                 /\ inst' = [inst EXCEPT ![n] = @ \union T]
              \/ /\ pc[o] = "deletes"
                 /\ \E s \in Listed(o, n) : s.id = svc[n].id
                 /\ inst' = [inst EXCEPT ![n] = @ \ T]
Fail(o) ==
  /\ pc[o] # "idle" /\ faults < MaxFaults
  /\ faults' = faults + 1
  /\ Partly(o)
  /\ Return(o)
  /\ UNCHANGED <<svc, created, want, edits>>

SourceChanges(o) ==
  /\ edits < MaxEdits
  /\ edits' = edits + 1
  /\ \E w \in Wants[o] : want' = [want EXCEPT ![o] = w]
  /\ UNCHANGED <<store, pc, list, view, todo, then, faults>>

Step(o) == \/ ListServices(o) \/ Discover(o) \/ DeleteService(o) \/ PlanChanges(o)
           \/ Deregister(o) \/ DeletesDone(o) \/ EnsureService(o) \/ Register(o) \/ CreatesDone(o)
Next == \E o \in Owners : Step(o) \/ Fail(o) \/ SourceChanges(o)

(* The run loops go on.                                                    *)
Spec == Init /\ [][Next]_vars /\ \A o \in Owners : WF_vars(Step(o))

-----------------------------------------------------------------------------
(* A service is deleted by its owner only, and no process deregisters the  *)
(* instances of a service that is described as another's.                  *)
ServiceStep ==
  \A n \in Names :
    /\ svc[n].id # 0 /\ svc'[n].id = 0 =>
         /\ inst'[n] = {}
         /\ \E o \in Owners : pc[o] = "delete" /\ svc[n].owner = o
    /\ ~(inst[n] \subseteq inst'[n]) =>
         \E o \in Owners : svc[n].owner = o /\ pc[o] = "deletes"

(* The services of a namespace that several processes share stay with      *)
(* their owners, although a process deletes and deregisters what it has    *)
(* listed some calls earlier (DeleteService, submitDeletes).               *)
ServicesKept == [][ServiceStep]_vars

(* A name that only one process ever wants comes to have the targets it    *)
(* asks for, whatever happens to the other names in the same runs.         *)
Uncontested(o) == {n \in Names : \A p \in Owners \ {o} : \A w \in Wants[p] : w[n] = {}}
NamesServed ==
  \A o \in Owners : \A n \in Uncontested(o) : <>[](inst[n] = want[o][n])
=============================================================================
