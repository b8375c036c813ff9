--------------------------- MODULE CloudMapProofs ---------------------------
(***************************************************************************)
(* ServicesKept for any number of processes, names, targets and failures.  *)
(***************************************************************************)
EXTENDS CloudMap, FiniteSetTheorems, SequenceTheorems, TLAPS

(* No owner id is the beginning of another one, so that a description      *)
(* matches its owner only (aws_sd.go:523 compares beginnings).             *)
OwnDescriptions == \A o \in Owners : Matches[o] = {o}

(* All processes configure the same TTL, or none does: UpdateService would *)
(* make the service of another process the caller's.                       *)
SameTTL == \A o, p \in Owners : TTL[o] = TTL[p]

(* The empty owner belongs to no process.                                  *)
Services == [id : Nat, owner : Owners \union {""}, ttl : Nat]
Found == [name : Names, tgts : SUBSET Targets, owner : Owners \union {""}, ttl : Nat]
Calls ==
  ({"delete", "deregister", "service"} \X Names \X (SUBSET Targets))
    \union ({"register"} \X Names \X (SUBSET Targets) \X Nat)

CallTypes ==
  /\ pc \in [Owners -> {"idle", "read", "delete", "deletes", "creates"}]
  /\ list \in [Owners -> SUBSET (Names \X Services)]
  /\ view \in [Owners -> SUBSET Found]
  /\ todo \in [Owners -> Seq(Calls)]
  /\ then \in [Owners -> SUBSET Calls]
  /\ \A o \in Owners : IsFiniteSet(list[o]) /\ IsFiniteSet(view[o]) /\ IsFiniteSet(then[o])

StoreTypes ==
  /\ svc \in [Names -> Services]
  /\ inst \in [Names -> SUBSET Targets]
  /\ created \in Nat
  /\ want \in [Owners -> [Names -> SUBSET Targets]]

(* Ids are given out once, and no process finds a TTL to correct.          *)
IdInv ==
  \A n \in Names :
    /\ svc[n].id =< created
    /\ svc[n].id # 0 => \A o \in Owners : TTL[o] > 0 => svc[n].ttl = TTL[o]

(* What o has listed: a service with that id still has that owner; a       *)
(* service of its own is still there, since nobody else deletes it; no TTL *)
(* is to be corrected.                                                     *)
ListedInv(o, e) ==
  /\ e[2].id # 0 /\ e[2].id =< created
  /\ e[2].id = svc[e[1]].id => e[2].owner = svc[e[1]].owner
  /\ e[2].owner = o => e[2].id = svc[e[1]].id
  /\ \A q \in Owners : TTL[q] > 0 => e[2].ttl = TTL[q]
ListInv ==
  \A o \in Owners :
    /\ pc[o] \notin {"read", "delete"} => view[o] = {}
    /\ \A e \in list[o] :
         ListedInv(o, e) /\ \A d \in list[o] : d[1] = e[1] => d = e

(* What o has found to be its own, and is about to deregister, it still    *)
(* owns; it will not look at those services again in this run.             *)
OwnInv ==
  \A o \in Owners :
    /\ \A v \in view[o] :
         /\ v.owner = o => svc[v.name].id # 0 /\ svc[v.name].owner = o
         /\ \A e \in list[o] : e[1] # v.name
    /\ pc[o] = "deletes" =>
         \A i \in DOMAIN todo[o] :
           svc[todo[o][i][2]].id # 0 /\ svc[todo[o][i][2]].owner = o

KeptInv == CallTypes /\ StoreTypes /\ IdInv /\ ListInv /\ OwnInv

-----------------------------------------------------------------------------
(* SetToSeq enumerates a finite set.                                       *)
LEMMA SetToSeqElements ==
  ASSUME NEW S, IsFiniteSet(S)
  PROVE  SetToSeq(S) \in Seq(S)
<1> DEFINE n == Cardinality(S)
<1>1. n \in Nat /\ ExistsBijection(1..n, S)
  BY FS_CardinalityType
<1>2. PICK g \in Bijection(1..n, S) : TRUE
  BY <1>1 DEF ExistsBijection
<1>3. g \in [1..n -> S] /\ IsInjective(g)
  BY <1>2 DEF Bijection, Injection, Surjection, IsInjective
<1>4. SetToSeq(S) \in [1..n -> S]
  BY <1>3 DEF SetToSeq
<1> QED
  BY <1>1, <1>4, SeqDef

(* The image of a finite set is finite.                                    *)
LEMMA ImageFinite ==
  ASSUME NEW f, IsFiniteSet(DOMAIN f)
  PROVE  IsFiniteSet({f[x] : x \in DOMAIN f})
<1> DEFINE T == {f[x] : x \in DOMAIN f}
           g == [x \in DOMAIN f |-> f[x]]
<1>1. g \in Surjection(DOMAIN f, T)
  BY DEF Surjection
<1> HIDE DEF g
<1> QED
  BY <1>1, FS_Surjection

LEMMA InitKept == Init => KeptInv
<1> SUFFICES ASSUME Init PROVE KeptInv
  OBVIOUS
<1>1. \A o \in Owners : want[o] \in [Names -> SUBSET Targets]
  BY CloudMapAssumption DEF Init
<1>2. PICK R : want \in [Owners -> R]
  BY DEF Init
<1>3a. want \in [Owners -> [Names -> SUBSET Targets]]
  BY <1>1, <1>2
<1>3. StoreTypes
  BY <1>3a DEF Init, StoreTypes, Services, NoService
<1>4. CallTypes
  BY FS_EmptySet DEF Init, CallTypes
<1>5. \A n \in Names : svc[n].id = 0 /\ created = 0
  BY DEF Init, NoService
<1>5a. IdInv
  BY <1>5 DEF IdInv
<1>6. ListInv /\ OwnInv
  BY DEF Init, ListInv, OwnInv
<1> QED
  BY <1>3, <1>4, <1>5a, <1>6 DEF KeptInv

-----------------------------------------------------------------------------
LEMMA ListingTypes ==
  ASSUME KeptInv
  PROVE  IsFiniteSet(Listing) /\ Listing \subseteq Names \X Services
<1> DEFINE f == [n \in Existing |-> <<n, svc[n]>>]
<1>1. IsFiniteSet(DOMAIN f)
  BY CloudMapAssumption, FS_Subset DEF Existing
<1>2. Listing = {f[x] : x \in DOMAIN f}
  BY DEF Listing
<1>3. IsFiniteSet(Listing)
  <2> HIDE DEF f
  <2> QED
    BY <1>1, <1>2, ImageFinite
<1> QED
  BY <1>3 DEF KeptInv, StoreTypes, Existing, Listing

(* What is listed now is as it was listed.                                 *)
LEMMA ListingCurrent ==
  ASSUME KeptInv, NEW o \in Owners, NEW e \in Listing
  PROVE  ListedInv(o, e) /\ \A d \in Listing : d[1] = e[1] => d = e
<1>1. \A d \in Listing : d[1] \in Names /\ d = <<d[1], svc[d[1]]>> /\ svc[d[1]].id # 0
  BY DEF Listing, Existing
<1>2. e[1] \in Names /\ e[2] = svc[e[1]] /\ e[2].id # 0
  BY <1>1
<1>3. /\ e[2].id =< created
      /\ \A q \in Owners : TTL[q] > 0 => e[2].ttl = TTL[q]
  BY <1>2 DEF KeptInv, IdInv
<1>4. ListedInv(o, e)
  BY <1>2, <1>3 DEF ListedInv
<1> QED
  BY <1>1, <1>4

(* A step that leaves the services alone, and makes, clears or keeps what  *)
(* a process has listed and found.                                         *)
LEMMA StoreKept ==
  ASSUME KeptInv, CallTypes', StoreTypes', UNCHANGED <<svc, created>>,
         \A o \in Owners :
           /\ list'[o] = list[o] \/ list'[o] = {} \/ (list'[o] = Listing /\ view'[o] = {})
           /\ view'[o] = view[o] \/ view'[o] = {}
           /\ pc'[o] = pc[o] \/ view'[o] = {} \/ pc'[o] \in {"read", "delete"}
           /\ pc'[o] = "deletes" =>
                \A i \in DOMAIN todo'[o] :
                  svc[todo'[o][i][2]].id # 0 /\ svc[todo'[o][i][2]].owner = o
  PROVE  KeptInv'
<1>1. IdInv'
  BY DEF KeptInv, IdInv
<1>2. ListInv'
  <2> SUFFICES ASSUME NEW o \in Owners
               PROVE  /\ pc'[o] \notin {"read", "delete"} => view'[o] = {}
                      /\ \A e \in list'[o] :
                           ListedInv(o, e)' /\ \A d \in list'[o] : d[1] = e[1] => d = e
    BY DEF ListInv
  <2>1. pc'[o] \notin {"read", "delete"} => view'[o] = {}
    BY DEF KeptInv, ListInv
  <2>2. \A e : ListedInv(o, e) => ListedInv(o, e)'
    BY DEF ListedInv
  <2>3. \A e \in list[o] : ListedInv(o, e) /\ \A d \in list[o] : d[1] = e[1] => d = e
    BY DEF KeptInv, ListInv
  <2>4. \A e \in Listing : ListedInv(o, e) /\ \A d \in Listing : d[1] = e[1] => d = e
    BY ListingCurrent
  <2> QED
    BY <2>1, <2>2, <2>3, <2>4
<1>3. OwnInv'
  BY DEF KeptInv, OwnInv
<1> QED
  BY <1>1, <1>2, <1>3 DEF KeptInv

LEMMA ListServicesKept ==
  ASSUME KeptInv, NEW p \in Owners, ListServices(p)
  PROVE  KeptInv'
<1>1. /\ pc[p] = "idle" /\ pc' = [pc EXCEPT ![p] = "read"]
      /\ list' = [list EXCEPT ![p] = Listing]
      /\ UNCHANGED <<svc, inst, created, want, view, todo, then>>
  BY DEF ListServices, store
<1>2. CallTypes'
  BY <1>1, ListingTypes DEF KeptInv, CallTypes
<1>3. StoreTypes'
  BY <1>1 DEF KeptInv, StoreTypes
<1>4. /\ pc'[p] = "read" /\ list'[p] = Listing /\ view'[p] = {}
      /\ \A o \in Owners \ {p} : pc'[o] = pc[o] /\ list'[o] = list[o]
  BY <1>1 DEF KeptInv, CallTypes, ListInv
<1>5. \A o \in Owners : pc'[o] = "deletes" =>
        \A i \in DOMAIN todo'[o] :
          svc[todo'[o][i][2]].id # 0 /\ svc[todo'[o][i][2]].owner = o
  BY <1>1, <1>4 DEF KeptInv, OwnInv
<1> QED
  BY <1>1, <1>2, <1>3, <1>4, <1>5, StoreKept

LEMMA CallsAre ==
  ASSUME NEW n \in Names, NEW T \in SUBSET Targets, NEW id \in Nat
  PROVE  /\ <<"deregister", n, T>> \in Calls /\ <<"service", n, T>> \in Calls
         /\ <<"delete", n, {}>> \in Calls
         /\ <<"register", n, T, id>> \in Calls
BY DEF Calls

LEMMA PlanDeletesOwn ==
  ASSUME KeptInv, NEW p \in Owners
  PROVE  /\ IsFiniteSet(PlanDeletes(p))
         /\ PlanDeletes(p) \subseteq Calls
         /\ \A d \in PlanDeletes(p) : svc[d[2]].id # 0 /\ svc[d[2]].owner = p
<1> DEFINE A == {d \in view[p] : d.owner = p /\ d.name \notin Wanted(p)}
           B == {d \in view[p] : NeedsUpdate(p, d) /\ d.tgts # want[p][d.name]}
           f == [e \in A |-> <<"deregister", e.name, e.tgts>>]
           g == [e \in B |-> <<"deregister", e.name, e.tgts \ want[p][e.name]>>]
           F == {f[e] : e \in DOMAIN f}
           G == {g[e] : e \in DOMAIN g}
<1>1. PlanDeletes(p) = F \union G
  BY DEF PlanDeletes
<1>2. IsFiniteSet(A) /\ IsFiniteSet(B)
  BY FS_Subset DEF KeptInv, CallTypes
<1>3. IsFiniteSet(DOMAIN f) /\ IsFiniteSet(DOMAIN g)
  BY <1>2
<1>4. IsFiniteSet(F) /\ IsFiniteSet(G)
  <2> HIDE DEF f, g
  <2> QED
    BY <1>3, ImageFinite
<1>5. \A e \in A \union B : /\ e \in Found /\ e.owner = p
                            /\ svc[e.name].id # 0 /\ svc[e.name].owner = p
  BY DEF KeptInv, CallTypes, OwnInv, NeedsUpdate
<1>6. \A d \in F \union G : d \in Calls /\ svc[d[2]].id # 0 /\ svc[d[2]].owner = p
  <2> \A e \in A \union B : /\ e.name \in Names /\ e.tgts \in SUBSET Targets
                           /\ e.tgts \ want[p][e.name] \in SUBSET Targets
    BY <1>5 DEF Found
  <2>1. \A e \in A : f[e] \in Calls /\ f[e][2] = e.name
    BY CallsAre
  <2>2. \A e \in B : g[e] \in Calls /\ g[e][2] = e.name
    BY CallsAre
  <2> HIDE DEF A, B
  <2>3. (\A d \in F : \E e \in A : d = f[e]) /\ (\A d \in G : \E e \in B : d = g[e])
    OBVIOUS
  <2> HIDE DEF f, g, F, G
  <2> QED
    BY <1>5, <2>1, <2>2, <2>3
<1> HIDE DEF F, G
<1> QED
  BY <1>1, <1>4, <1>6, FS_Union

LEMMA PlanCreatesFinite ==
  ASSUME KeptInv, NEW p \in Owners
  PROVE  IsFiniteSet(PlanCreates(p)) /\ PlanCreates(p) \subseteq Calls
<1> DEFINE f == [n \in Names |-> <<"service", n, want[p][n]>>]
           F == {f[n] : n \in DOMAIN f}
<1>1. PlanCreates(p) \subseteq F
  BY DEF PlanCreates, Wanted
<1>2. F \subseteq Calls
  BY DEF KeptInv, StoreTypes, Calls
<1>3. IsFiniteSet(DOMAIN f)
  BY CloudMapAssumption
<1>4. IsFiniteSet(F)
  <2> HIDE DEF f
  <2> QED
    BY <1>3, ImageFinite
<1> HIDE DEF F
<1> QED
  BY <1>1, <1>2, <1>4, FS_Subset

LEMMA PlanKept ==
  ASSUME KeptInv, NEW p \in Owners, PlanChanges(p)
  PROVE  KeptInv'
<1> DEFINE D == PlanDeletes(p)
           C == PlanCreates(p)
<1>1. /\ pc[p] = "read" /\ list[p] = {}
      /\ pc' = [pc EXCEPT ![p] = "deletes"]
      /\ todo' = [todo EXCEPT ![p] = SetToSeq(D)]
      /\ then' = [then EXCEPT ![p] = C]
      /\ view' = [view EXCEPT ![p] = {}]
      /\ list' = [list EXCEPT ![p] = Listing]
      /\ UNCHANGED <<svc, inst, created, want>>
  BY DEF PlanChanges, store
<1>2. /\ IsFiniteSet(D) /\ D \subseteq Calls
      /\ \A d \in D : svc[d[2]].id # 0 /\ svc[d[2]].owner = p
  BY PlanDeletesOwn
<1>3. IsFiniteSet(C) /\ C \subseteq Calls
  BY PlanCreatesFinite
<1> HIDE DEF D, C
<1>4. SetToSeq(D) \in Seq(D)
  BY <1>2, SetToSeqElements
<1>5. SetToSeq(D) \in Seq(Calls)
  BY <1>2, <1>4
<1>6. CallTypes'
  BY <1>1, <1>3, <1>5, FS_EmptySet, ListingTypes DEF KeptInv, CallTypes
<1>7. StoreTypes'
  BY <1>1 DEF KeptInv, StoreTypes
<1>8. \A i \in DOMAIN SetToSeq(D) : SetToSeq(D)[i] \in D
  BY <1>4, ElementOfSeq
<1>9. todo'[p] = SetToSeq(D) /\ \A o \in Owners \ {p} : todo'[o] = todo[o] /\ pc'[o] = pc[o]
  BY <1>1 DEF KeptInv, CallTypes
<1>10. ASSUME NEW o \in Owners, pc'[o] = "deletes"
       PROVE  \A i \in DOMAIN todo'[o] :
                svc[todo'[o][i][2]].id # 0 /\ svc[todo'[o][i][2]].owner = o
  <2>1. CASE o = p
    BY <1>2, <1>8, <1>9, <2>1
  <2>2. CASE o # p
    BY <1>9, <1>10, <2>2 DEF KeptInv, OwnInv
  <2> QED
    BY <2>1, <2>2
<1>11. \A o \in Owners : /\ list'[o] = list[o] \/ (list'[o] = Listing /\ view'[o] = {})
                         /\ view'[o] = view[o] \/ view'[o] = {}
                         /\ pc'[o] = pc[o] \/ view'[o] = {}
  BY <1>1 DEF KeptInv, CallTypes
<1> QED
  BY <1>1, <1>6, <1>7, <1>10, <1>11, StoreKept

-----------------------------------------------------------------------------
(* The head of the calls to be made, and the rest.                         *)
LEMMA CallHead ==
  ASSUME CallTypes, NEW p \in Owners, todo[p] # <<>>
  PROVE  /\ todo[p][1] \in Calls /\ Tail(todo[p]) \in Seq(Calls)
         /\ 1 \in DOMAIN todo[p]
         /\ \A i \in DOMAIN Tail(todo[p]) :
              i + 1 \in DOMAIN todo[p] /\ Tail(todo[p])[i] = todo[p][i + 1]
<1>1. todo[p] \in Seq(Calls)
  BY DEF CallTypes
<1> QED
  BY <1>1

LEMMA CallParts ==
  ASSUME NEW c \in Calls
  PROVE  /\ c[2] \in Names /\ c[3] \in SUBSET Targets
         /\ c[1] = "register" => c[4] \in Nat
BY DEF Calls

(* The steps that end a run leave nothing to be done.                      *)
LEMMA ReturnKept ==
  ASSUME KeptInv, NEW p \in Owners, Return(p), StoreTypes', UNCHANGED <<svc, created>>
  PROVE  KeptInv'
<1>1. /\ pc' = [pc EXCEPT ![p] = "idle"]
      /\ list' = [list EXCEPT ![p] = {}]
      /\ view' = [view EXCEPT ![p] = {}]
      /\ todo' = [todo EXCEPT ![p] = <<>>]
      /\ then' = [then EXCEPT ![p] = {}]
  BY DEF Return
<1>2. /\ pc' \in [Owners -> {"idle", "read", "delete", "deletes", "creates"}]
      /\ todo' \in [Owners -> Seq(Calls)]
  BY <1>1 DEF KeptInv, CallTypes
<1>3. then' \in [Owners -> SUBSET Calls] /\ \A o \in Owners : IsFiniteSet(then'[o])
  BY <1>1, FS_EmptySet DEF KeptInv, CallTypes
<1>4. /\ list' \in [Owners -> SUBSET (Names \X Services)]
      /\ \A o \in Owners : IsFiniteSet(list'[o])
  BY <1>1, FS_EmptySet DEF KeptInv, CallTypes
<1>5. /\ view' \in [Owners -> SUBSET Found]
      /\ \A o \in Owners : IsFiniteSet(view'[o])
  BY <1>1, FS_EmptySet DEF KeptInv, CallTypes
<1>6. CallTypes'
  BY <1>2, <1>3, <1>4, <1>5 DEF CallTypes
<1>7. /\ pc'[p] = "idle" /\ list'[p] = {} /\ view'[p] = {}
      /\ \A o \in Owners \ {p} : /\ pc'[o] = pc[o] /\ todo'[o] = todo[o]
                                 /\ list'[o] = list[o] /\ view'[o] = view[o]
  BY <1>1 DEF KeptInv, CallTypes
<1>8. \A o \in Owners : pc'[o] = "deletes" =>
        \A i \in DOMAIN todo'[o] :
          svc[todo'[o][i][2]].id # 0 /\ svc[todo'[o][i][2]].owner = o
  BY <1>7 DEF KeptInv, OwnInv
<1> QED
  BY <1>6, <1>7, <1>8, StoreKept

(* The call at the head is made.                                           *)
LEMMA TailKept ==
  ASSUME KeptInv, NEW p \in Owners, todo[p] # <<>>,
         todo' = [todo EXCEPT ![p] = Tail(@)],
         StoreTypes', UNCHANGED <<svc, created, pc, list, view, then>>
  PROVE  KeptInv'
<1>1. CallTypes'
  BY CallHead DEF KeptInv, CallTypes
<1>2. ASSUME NEW o \in Owners, pc'[o] = "deletes"
      PROVE  \A i \in DOMAIN todo'[o] :
               svc[todo'[o][i][2]].id # 0 /\ svc[todo'[o][i][2]].owner = o
  <2>1. \A i \in DOMAIN todo[o] : svc[todo[o][i][2]].id # 0 /\ svc[todo[o][i][2]].owner = o
    BY <1>2 DEF KeptInv, OwnInv
  <2>2. CASE o = p
    <3>1. todo'[o] = Tail(todo[p])
      BY <2>2 DEF KeptInv, CallTypes
    <3> QED
      BY <2>1, <2>2, <3>1, CallHead DEF KeptInv
  <2>3. CASE o # p
    <3>1. todo'[o] = todo[o]
      BY <2>3 DEF KeptInv, CallTypes
    <3> QED
      BY <2>1, <3>1
  <2> QED
    BY <2>2, <2>3
<1> QED
  BY <1>1, <1>2, StoreKept

LEMMA DeregisterKept ==
  ASSUME KeptInv, NEW p \in Owners, Deregister(p)
  PROVE  KeptInv'
<1> DEFINE n == todo[p][1][2]
           T == todo[p][1][3]
<1>1. /\ todo[p] # <<>> /\ UNCHANGED <<svc, created, want>>
      /\ \/ Return(p) /\ UNCHANGED inst
         \/ /\ inst' = [inst EXCEPT ![n] = @ \ T]
            /\ todo' = [todo EXCEPT ![p] = Tail(@)]
            /\ UNCHANGED <<pc, list, view, then>>
  BY DEF Deregister
<1>2. n \in Names /\ T \in SUBSET Targets
  BY <1>1, CallHead, CallParts DEF KeptInv
<1> HIDE DEF n, T
<1>3. StoreTypes'
  BY <1>1, <1>2 DEF KeptInv, StoreTypes
<1> QED
  BY <1>1, <1>3, ReturnKept, TailKept

LEMMA DeletesDoneKept ==
  ASSUME KeptInv, NEW p \in Owners, DeletesDone(p)
  PROVE  KeptInv'
<1>1. /\ pc[p] = "deletes"
      /\ pc' = [pc EXCEPT ![p] = "creates"]
      /\ list' = [list EXCEPT ![p] = Listing]
      /\ todo' = [todo EXCEPT ![p] = SetToSeq(then[p])]
      /\ then' = [then EXCEPT ![p] = {}]
      /\ UNCHANGED <<svc, inst, created, want, view>>
  BY DEF DeletesDone, store
<1>2. IsFiniteSet(then[p]) /\ then[p] \subseteq Calls
  BY DEF KeptInv, CallTypes
<1>3. SetToSeq(then[p]) \in Seq(then[p])
  BY <1>2, SetToSeqElements
<1>4. SetToSeq(then[p]) \in Seq(Calls)
  BY <1>2, <1>3
<1>5. CallTypes'
  BY <1>1, <1>4, FS_EmptySet, ListingTypes DEF KeptInv, CallTypes
<1>6. StoreTypes'
  BY <1>1 DEF KeptInv, StoreTypes
<1>7. /\ pc'[p] = "creates" /\ list'[p] = Listing /\ view'[p] = {}
      /\ \A o \in Owners \ {p} : pc'[o] = pc[o] /\ todo'[o] = todo[o] /\ list'[o] = list[o]
  BY <1>1 DEF KeptInv, CallTypes, ListInv
<1>8. \A o \in Owners : pc'[o] = "deletes" =>
        \A i \in DOMAIN todo'[o] :
          svc[todo'[o][i][2]].id # 0 /\ svc[todo'[o][i][2]].owner = o
  BY <1>7 DEF KeptInv, OwnInv
<1> QED
  BY <1>1, <1>5, <1>6, <1>7, <1>8, StoreKept

LEMMA CreatesDoneKept ==
  ASSUME KeptInv, NEW p \in Owners, CreatesDone(p)
  PROVE  KeptInv'
<1>1. Return(p) /\ UNCHANGED <<svc, inst, created, want>>
  BY DEF CreatesDone, store
<1>2. StoreTypes'
  BY <1>1 DEF KeptInv, StoreTypes
<1> QED
  BY <1>1, <1>2, ReturnKept

LEMMA RegisterKept ==
  ASSUME KeptInv, NEW p \in Owners, Register(p)
  PROVE  KeptInv'
<1> DEFINE n == todo[p][1][2]
           T == todo[p][1][3]
<1>1. /\ todo[p] # <<>> /\ UNCHANGED <<svc, created, want>>
      /\ \/ Return(p) /\ UNCHANGED inst
         \/ /\ inst' = [inst EXCEPT ![n] = @ \union T]
            /\ todo' = [todo EXCEPT ![p] = Tail(@)]
            /\ UNCHANGED <<pc, list, view, then>>
  BY DEF Register
<1>2. n \in Names /\ T \in SUBSET Targets
  BY <1>1, CallHead, CallParts DEF KeptInv
<1> HIDE DEF n, T
<1>3. StoreTypes'
  BY <1>1, <1>2 DEF KeptInv, StoreTypes
<1> QED
  BY <1>1, <1>3, ReturnKept, TailKept

LEMMA FailKept ==
  ASSUME KeptInv, NEW p \in Owners, Fail(p)
  PROVE  KeptInv'
<1> DEFINE n == todo[p][1][2]
<1>1. Return(p) /\ Partly(p) /\ UNCHANGED <<svc, created, want>>
  BY DEF Fail
<1>2. inst' \in [Names -> SUBSET Targets]
  <2>1. CASE UNCHANGED inst
    BY <2>1 DEF KeptInv, StoreTypes
  <2>2. CASE todo[p] # <<>> /\ \E T \in SUBSET todo[p][1][3] :
                \/ inst' = [inst EXCEPT ![n] = @ \union T]
                \/ inst' = [inst EXCEPT ![n] = @ \ T]
    <3>1. n \in Names /\ todo[p][1][3] \in SUBSET Targets
      BY <2>2, CallHead, CallParts DEF KeptInv
    <3>2. PICK T \in SUBSET Targets : \/ inst' = [inst EXCEPT ![n] = @ \union T]
                                     \/ inst' = [inst EXCEPT ![n] = @ \ T]
      BY <2>2, <3>1
    <3> HIDE DEF n
    <3> QED
      BY <3>1, <3>2 DEF KeptInv, StoreTypes
  <2> QED
    BY <1>1, <2>1, <2>2 DEF Partly
<1>3. StoreTypes'
  BY <1>1, <1>2 DEF KeptInv, StoreTypes
<1> QED
  BY <1>1, <1>3, ReturnKept

LEMMA SourceChangesKept ==
  ASSUME KeptInv, NEW p \in Owners, SourceChanges(p)
  PROVE  KeptInv'
<1>1. PICK w \in Wants[p] : want' = [want EXCEPT ![p] = w]
  BY DEF SourceChanges
<1>2. UNCHANGED <<svc, inst, created, pc, list, view, todo, then>>
  BY DEF SourceChanges, store
<1>3. w \in [Names -> SUBSET Targets]
  BY CloudMapAssumption
<1>4. StoreTypes'
  BY <1>1, <1>2, <1>3 DEF KeptInv, StoreTypes
<1>5. CallTypes' /\ IdInv' /\ ListInv' /\ OwnInv'
  BY <1>2 DEF KeptInv, CallTypes, IdInv, ListInv, ListedInv, OwnInv
<1> QED
  BY <1>4, <1>5 DEF KeptInv

-----------------------------------------------------------------------------
(* Records looks at one service.                                           *)
LEMMA DiscoverKept ==
  ASSUME KeptInv, NEW p \in Owners, Discover(p)
  PROVE  KeptInv'
<1>1. pc[p] = "read" /\ UNCHANGED <<svc, inst, created, want>>
  BY DEF Discover, store
<1>2. StoreTypes'
  BY <1>1 DEF KeptInv, StoreTypes
<1>3. PICK e \in list[p] :
        \/ Return(p)
        \/ /\ list' = [list EXCEPT ![p] = @ \ {e}]
           /\ view' = [view EXCEPT ![p] = @ \union
                {[name |-> e[1], tgts |-> inst[e[1]], owner |-> e[2].owner, ttl |-> e[2].ttl]}]
           /\ UNCHANGED <<pc, todo, then>>
        \/ /\ pc' = [pc EXCEPT ![p] = "delete"]
           /\ todo' = [todo EXCEPT ![p] = <<<<"delete", e[1], {}>>>>]
           /\ UNCHANGED <<list, view, then>>
  BY DEF Discover
<1>4. e \in Names \X Services
  BY DEF KeptInv, CallTypes
<1>5. e[1] \in Names /\ e[2] \in Services
  BY <1>4
<1>6. CASE Return(p)
  BY <1>1, <1>2, <1>6, ReturnKept
<1>7. CASE /\ pc' = [pc EXCEPT ![p] = "delete"]
           /\ todo' = [todo EXCEPT ![p] = <<<<"delete", e[1], {}>>>>]
           /\ UNCHANGED <<list, view, then>>
  <2>1. <<"delete", e[1], {}>> \in Calls
    BY <1>5 DEF Calls
  <2>2. <<<<"delete", e[1], {}>>>> \in Seq(Calls)
    BY <2>1
  <2>3. CallTypes'
    BY <1>7, <2>2 DEF KeptInv, CallTypes
  <2>4. /\ pc'[p] = "delete"
        /\ \A o \in Owners \ {p} : pc'[o] = pc[o] /\ todo'[o] = todo[o]
    BY <1>7 DEF KeptInv, CallTypes
  <2>5. \A o \in Owners : pc'[o] = "deletes" =>
          \A i \in DOMAIN todo'[o] :
            svc[todo'[o][i][2]].id # 0 /\ svc[todo'[o][i][2]].owner = o
    BY <2>4 DEF KeptInv, OwnInv
  <2> QED
    BY <1>1, <1>2, <1>7, <2>3, <2>4, <2>5, StoreKept
<1>8. CASE /\ list' = [list EXCEPT ![p] = @ \ {e}]
           /\ view' = [view EXCEPT ![p] = @ \union
                {[name |-> e[1], tgts |-> inst[e[1]], owner |-> e[2].owner, ttl |-> e[2].ttl]}]
           /\ UNCHANGED <<pc, todo, then>>
  <2> DEFINE n == e[1]
             r == [name |-> n, tgts |-> inst[n], owner |-> e[2].owner, ttl |-> e[2].ttl]
  <2>1. r \in Found /\ r.name = n /\ r.owner = e[2].owner
    <3>1. inst[n] \in SUBSET Targets
      BY <1>5 DEF KeptInv, StoreTypes
    <3>2. e[2].owner \in Owners \union {""} /\ e[2].ttl \in Nat
      BY <1>5 DEF Services
    <3> QED
      BY <1>5, <3>1, <3>2 DEF Found
  <2>2. /\ list'[p] = list[p] \ {e} /\ view'[p] = view[p] \union {r}
        /\ \A o \in Owners \ {p} : list'[o] = list[o] /\ view'[o] = view[o]
    BY <1>8 DEF KeptInv, CallTypes
  <2>3. list' \in [Owners -> SUBSET (Names \X Services)] /\ view' \in [Owners -> SUBSET Found]
    BY <1>8, <2>1 DEF KeptInv, CallTypes
  <2> HIDE DEF n, r
  <2>4. CallTypes'
    <3>1. \A o \in Owners : IsFiniteSet(list[o]) /\ IsFiniteSet(view[o]) /\ IsFiniteSet(then[o])
      BY DEF KeptInv, CallTypes
    <3>2. IsFiniteSet(list[p] \ {e}) /\ IsFiniteSet(view[p] \union {r})
      BY <3>1, FS_Subset, FS_AddElement
    <3>3. \A o \in Owners : IsFiniteSet(list'[o]) /\ IsFiniteSet(view'[o])
      BY <2>2, <3>1, <3>2
    <3> QED
      BY <1>8, <2>3, <3>1, <3>3 DEF KeptInv, CallTypes
  <2>5. IdInv'
    BY <1>1 DEF KeptInv, IdInv
  <2>6. ListInv'
    <3>1. \A o \in Owners : \A d : ListedInv(o, d) => ListedInv(o, d)'
      BY <1>1 DEF ListedInv
    <3>2. \A o \in Owners : list'[o] \subseteq list[o]
      BY <2>2
    <3>3. \A o \in Owners : pc'[o] \notin {"read", "delete"} => view'[o] = {}
      BY <1>1, <1>8, <2>2 DEF KeptInv, ListInv
    <3> QED
      BY <3>1, <3>2, <3>3 DEF KeptInv, ListInv
  <2>7. OwnInv'
    <3>1. ListedInv(p, e) /\ \A d \in list[p] : d[1] = n => d = e
      BY DEF KeptInv, ListInv, n
    <3>2. r.owner = p => svc[r.name].id # 0 /\ svc[r.name].owner = p
      BY <2>1, <3>1 DEF ListedInv, n
    <3>3. \A d \in list'[p] : d[1] # r.name
      BY <2>1, <2>2, <3>1
    <3>4. ASSUME NEW o \in Owners, NEW v \in view'[o]
          PROVE  /\ v.owner = o => svc'[v.name].id # 0 /\ svc'[v.name].owner = o
                 /\ \A d \in list'[o] : d[1] # v.name
      <4>1. CASE v \in view[o]
        BY <1>1, <2>2, <4>1 DEF KeptInv, OwnInv
      <4>2. CASE v \notin view[o]
        BY <1>1, <2>2, <3>2, <3>3, <4>2
      <4> QED
        BY <4>1, <4>2
    <3>5. \A o \in Owners : pc'[o] = "deletes" =>
            \A i \in DOMAIN todo'[o] :
              svc'[todo'[o][i][2]].id # 0 /\ svc'[todo'[o][i][2]].owner = o
      BY <1>1, <1>8 DEF KeptInv, OwnInv
    <3> QED
      BY <3>4, <3>5 DEF OwnInv
  <2> QED
    BY <1>2, <2>4, <2>5, <2>6, <2>7 DEF KeptInv
<1> QED
  BY <1>3, <1>6, <1>7, <1>8

(* Records deletes an empty service, if it is its own.                     *)
LEMMA DeleteServiceKept ==
  ASSUME OwnDescriptions, KeptInv, NEW p \in Owners, DeleteService(p)
  PROVE  KeptInv'
<1>1. /\ pc[p] = "delete" /\ pc' = [pc EXCEPT ![p] = "read"]
      /\ todo' = [todo EXCEPT ![p] = <<>>]
      /\ UNCHANGED <<inst, created, want, view, then>>
  BY DEF DeleteService
<1>2. PICK e \in list[p] :
        /\ list' = [list EXCEPT ![p] = @ \ {e}]
        /\ \/ UNCHANGED svc
           \/ svc' = [svc EXCEPT ![e[1]] =
                IF Deletes(p, e[2]) /\ inst[e[1]] = {} /\ e[2].id = @.id THEN NoService ELSE @]
  BY DEF DeleteService
<1> DEFINE n == e[1]
           gone == svc' # svc
<1>3. e \in Names \X Services
  BY DEF KeptInv, CallTypes
<1>4. n \in Names
  BY <1>3
<1>5. /\ list'[p] = list[p] \ {e}
      /\ \A o \in Owners \ {p} : list'[o] = list[o]
      /\ \A o \in Owners : list'[o] \subseteq list[o]
  BY <1>2 DEF KeptInv, CallTypes
<1>6. /\ pc'[p] = "read" /\ \A o \in Owners \ {p} : pc'[o] = pc[o] /\ todo'[o] = todo[o]
  BY <1>1 DEF KeptInv, CallTypes
<1>7. /\ \A m \in Names \ {n} : svc'[m] = svc[m]
      /\ gone => /\ svc'[n] = NoService
                 /\ Deletes(p, e[2]) /\ e[2].id = svc[n].id
  BY <1>2, <1>4 DEF KeptInv, StoreTypes
<1>8. gone => svc[n].owner = p /\ e[2].owner = p
  <2>1. ListedInv(p, e)
    BY DEF KeptInv, ListInv
  <2> QED
    BY <1>7, <2>1 DEF ListedInv, Deletes, OwnDescriptions
<1>9. CallTypes'
  <2>1. list' \in [Owners -> SUBSET (Names \X Services)]
    BY <1>2 DEF KeptInv, CallTypes
  <2>2. \A o \in Owners : IsFiniteSet(list'[o])
    BY <1>5, FS_Subset DEF KeptInv, CallTypes
  <2>3. todo' \in [Owners -> Seq(Calls)]
    BY <1>1 DEF KeptInv, CallTypes
  <2> QED
    BY <1>1, <2>1, <2>2, <2>3 DEF KeptInv, CallTypes
<1>10. StoreTypes'
  <2>1. NoService \in Services
    BY DEF NoService, Services
  <2>2. svc' \in [Names -> Services]
    BY <1>2, <2>1 DEF KeptInv, StoreTypes
  <2> QED
    BY <1>1, <2>2 DEF KeptInv, StoreTypes
<1> HIDE DEF n, gone
<1>11. gone => svc'[n].id = 0
  <2>1. NoService.id = 0
    BY DEF NoService
  <2> QED
    BY <1>7, <2>1
<1>12. \A m \in Names : svc'[m] = svc[m] \/ (m = n /\ gone)
  BY <1>7 DEF gone
<1>13. IdInv'
  <2> SUFFICES ASSUME NEW m \in Names
               PROVE  /\ svc'[m].id =< created
                      /\ svc'[m].id # 0 => \A o \in Owners : TTL[o] > 0 => svc'[m].ttl = TTL[o]
    BY <1>1 DEF IdInv
  <2>1. CASE svc'[m] = svc[m]
    BY <2>1 DEF KeptInv, IdInv
  <2>2. CASE svc'[m].id = 0
    BY <2>2 DEF KeptInv, StoreTypes
  <2> QED
    BY <1>11, <1>12, <2>1, <2>2
<1>14. ListInv'
  <2>1. \A o \in Owners : pc'[o] \notin {"read", "delete"} => view'[o] = {}
    BY <1>1, <1>6 DEF KeptInv, ListInv
  <2>2. ASSUME NEW o \in Owners, NEW d \in list'[o]
        PROVE  ListedInv(o, d)'
    <3>1. d \in list[o] /\ ListedInv(o, d) /\ d \in Names \X Services
      BY <1>5, <2>2 DEF KeptInv, ListInv, CallTypes
    <3>2. d[1] \in Names
      BY <3>1
    <3>3. CASE svc'[d[1]] = svc[d[1]]
      BY <1>1, <3>1, <3>3 DEF ListedInv
    <3>4. CASE d[1] = n /\ gone
      <4>1. d[2].owner # o
        <5>1. CASE o = p
          BY <1>5, <2>2, <3>4, <5>1 DEF KeptInv, ListInv, n
        <5>2. CASE o # p
          BY <1>7, <1>8, <3>1, <3>4, <5>2 DEF ListedInv
        <5> QED
          BY <5>1, <5>2
      <4> QED
        BY <1>1, <1>11, <3>1, <3>4, <4>1 DEF ListedInv
    <3> QED
      BY <1>12, <3>2, <3>3, <3>4
  <2>3. \A o \in Owners : \A d, c \in list'[o] : c[1] = d[1] => c = d
    BY <1>5 DEF KeptInv, ListInv
  <2> QED
    BY <2>1, <2>2, <2>3 DEF ListInv
<1>15. OwnInv'
  <2>1. ASSUME NEW o \in Owners, NEW v \in view'[o]
        PROVE  /\ v.owner = o => svc'[v.name].id # 0 /\ svc'[v.name].owner = o
               /\ \A d \in list'[o] : d[1] # v.name
    <3>1. /\ v \in view[o] /\ v \in Found
          /\ v.owner = o => svc[v.name].id # 0 /\ svc[v.name].owner = o
          /\ \A d \in list[o] : d[1] # v.name
      BY <1>1, <2>1 DEF KeptInv, CallTypes, OwnInv
    <3>2. v.name \in Names
      BY <3>1 DEF Found
    <3>3. gone /\ v.owner = o => v.name # n
      <4>1. CASE o = p
        BY <3>1, <4>1 DEF n
      <4>2. CASE o # p
        BY <1>8, <3>1, <4>2
      <4> QED
        BY <4>1, <4>2
    <3> QED
      BY <1>5, <1>12, <3>1, <3>2, <3>3
  <2>2. ASSUME NEW o \in Owners, pc'[o] = "deletes", NEW i \in DOMAIN todo'[o]
        PROVE  svc'[todo'[o][i][2]].id # 0 /\ svc'[todo'[o][i][2]].owner = o
    <3>1. pc[o] = "deletes" /\ todo'[o] = todo[o] /\ o # p
      BY <1>6, <2>2
    <3>2. svc[todo[o][i][2]].id # 0 /\ svc[todo[o][i][2]].owner = o
      BY <2>2, <3>1 DEF KeptInv, OwnInv
    <3>3. todo[o] \in Seq(Calls) /\ i \in DOMAIN todo[o]
      BY <2>2, <3>1 DEF KeptInv, CallTypes
    <3>4. todo[o][i] \in Calls
      BY <3>3, ElementOfSeq
    <3>5. todo[o][i][2] \in Names
      BY <3>4, CallParts
    <3> QED
      BY <1>8, <1>12, <3>1, <3>2, <3>5
  <2> QED
    BY <2>1, <2>2 DEF OwnInv
<1> QED
  BY <1>9, <1>10, <1>13, <1>14, <1>15 DEF KeptInv

-----------------------------------------------------------------------------
(* submitCreates: with one TTL for all a service that exists stays as it   *)
(* is, and a new one has an id nobody has listed.                          *)
LEMMA RegisteringTypes ==
  ASSUME CallTypes, NEW p \in Owners, todo[p] # <<>>, NEW id \in Nat, Registering(p, id)
  PROVE  /\ CallTypes'
         /\ \A o \in Owners : pc'[o] = pc[o] /\ list'[o] = list[o] /\ view'[o] = view[o]
         /\ \A o \in Owners \ {p} : todo'[o] = todo[o]
<1> DEFINE c == <<"register", todo[p][1][2], todo[p][1][3], id>>
<1>1. /\ todo' = [todo EXCEPT ![p] = <<c>> \o Tail(todo[p])]
      /\ UNCHANGED <<pc, list, view, then>>
  BY DEF Registering
<1>2. c \in Calls /\ Tail(todo[p]) \in Seq(Calls)
  BY CallHead, CallParts, CallsAre
<1> HIDE DEF c
<1>3. <<c>> \o Tail(todo[p]) \in Seq(Calls)
  BY <1>2
<1> QED
  BY <1>1, <1>3 DEF CallTypes

LEMMA CreateServiceKept ==
  ASSUME SameTTL, KeptInv, NEW p \in Owners, EnsureService(p),
         todo[p] # <<>>, pc[p] = "creates",
         NEW n \in Names, n \notin Existing, created' = created + 1,
         svc' = [svc EXCEPT ![n] = [id |-> created + 1, owner |-> p, ttl |-> ServiceTTL(p)]],
         Registering(p, created + 1)
  PROVE  KeptInv'
<1> DEFINE new == [id |-> created + 1, owner |-> p, ttl |-> ServiceTTL(p)]
<1>1. UNCHANGED <<inst, want>>
  BY DEF EnsureService
<1>2. created \in Nat /\ created + 1 \in Nat
  BY DEF KeptInv, StoreTypes
<1>3. ServiceTTL(p) \in Nat /\ \A o \in Owners : TTL[o] > 0 => ServiceTTL(p) = TTL[o]
  BY CloudMapAssumption DEF ServiceTTL, SameTTL
<1>4. new \in Services /\ new.id = created + 1 /\ new.owner = p /\ new.ttl = ServiceTTL(p)
  BY <1>2, <1>3 DEF Services
<1>5. /\ svc[n].id = 0 /\ svc'[n] = new
      /\ \A m \in Names \ {n} : svc'[m] = svc[m]
  BY DEF KeptInv, StoreTypes, Existing
<1>6. /\ CallTypes'
      /\ \A o \in Owners : pc'[o] = pc[o] /\ list'[o] = list[o] /\ view'[o] = view[o]
      /\ \A o \in Owners \ {p} : todo'[o] = todo[o]
  BY <1>2, RegisteringTypes DEF KeptInv
<1>7. StoreTypes'
  BY <1>1, <1>2, <1>4 DEF KeptInv, StoreTypes
<1> HIDE DEF new
<1>8. IdInv'
  <2> SUFFICES ASSUME NEW m \in Names
               PROVE  /\ svc'[m].id =< created'
                      /\ svc'[m].id # 0 => \A o \in Owners : TTL[o] > 0 => svc'[m].ttl = TTL[o]
    BY DEF IdInv
  <2>1. CASE m = n
    BY <1>2, <1>3, <1>4, <1>5, <2>1
  <2>2. CASE m # n
    <3>1. svc[m].id =< created /\ svc[m].id \in Nat
      BY DEF KeptInv, IdInv, StoreTypes, Services
    <3>2. svc[m].id # 0 => \A o \in Owners : TTL[o] > 0 => svc[m].ttl = TTL[o]
      BY DEF KeptInv, IdInv
    <3> QED
      BY <1>2, <1>5, <2>2, <3>1, <3>2
  <2> QED
    BY <2>1, <2>2
<1>9. ListInv'
  <2>1. ASSUME NEW o \in Owners, NEW d \in list[o]
        PROVE  ListedInv(o, d)'
    <3>1. ListedInv(o, d) /\ d \in Names \X Services
      BY <2>1 DEF KeptInv, ListInv, CallTypes
    <3>2. d[1] \in Names /\ d[2].id \in Nat
      BY <3>1 DEF Services
    <3>3. d[2].id =< created' /\ d[2].id # created + 1
      BY <1>2, <3>1, <3>2 DEF ListedInv
    <3>4. CASE d[1] # n
      BY <1>5, <3>1, <3>2, <3>3, <3>4 DEF ListedInv
    <3>5. CASE d[1] = n
      BY <1>4, <1>5, <3>1, <3>3, <3>5 DEF ListedInv
    <3> QED
      BY <3>4, <3>5
  <2>2. \A o \in Owners : pc'[o] \notin {"read", "delete"} => view'[o] = {}
    BY <1>6 DEF KeptInv, ListInv
  <2> QED
    BY <1>6, <2>1, <2>2 DEF KeptInv, ListInv
<1>10. OwnInv'
  <2>1. \A m \in Names : svc[m].id # 0 => svc'[m] = svc[m]
    BY <1>5
  <2>2. ASSUME NEW o \in Owners, NEW v \in view'[o]
        PROVE  /\ v.owner = o => svc'[v.name].id # 0 /\ svc'[v.name].owner = o
               /\ \A d \in list'[o] : d[1] # v.name
    <3>1. v \in Found
      BY <1>6, <2>2 DEF KeptInv, CallTypes
    <3>2. v.name \in Names
      BY <3>1 DEF Found
    <3> QED
      BY <1>6, <2>1, <2>2, <3>2 DEF KeptInv, OwnInv
  <2>3. ASSUME NEW o \in Owners, pc'[o] = "deletes", NEW i \in DOMAIN todo'[o]
        PROVE  svc'[todo'[o][i][2]].id # 0 /\ svc'[todo'[o][i][2]].owner = o
    <3>1. pc[o] = "deletes" /\ todo'[o] = todo[o]
      BY <1>6, <2>3
    <3>2. svc[todo[o][i][2]].id # 0 /\ svc[todo[o][i][2]].owner = o
      BY <2>3, <3>1 DEF KeptInv, OwnInv
    <3>3. todo[o] \in Seq(Calls) /\ i \in DOMAIN todo[o]
      BY <2>3, <3>1 DEF KeptInv, CallTypes
    <3>4. todo[o][i] \in Calls
      BY <3>3, ElementOfSeq
    <3>5. todo[o][i][2] \in Names
      BY <3>4, CallParts
    <3> QED
      BY <2>1, <3>1, <3>2, <3>5
  <2> QED
    BY <2>2, <2>3 DEF OwnInv
<1> QED
  BY <1>6, <1>7, <1>8, <1>9, <1>10 DEF KeptInv

LEMMA EnsureServiceKept ==
  ASSUME SameTTL, KeptInv, NEW p \in Owners, EnsureService(p)
  PROVE  KeptInv'
<1> DEFINE n == todo[p][1][2]
<1>1. /\ pc[p] = "creates" /\ todo[p] # <<>> /\ UNCHANGED <<inst, want>>
      /\ CreateService(p, n) \/ \E s \in Listed(p, n) : UseService(p, n, s)
  BY DEF EnsureService
<1>2. n \in Names
  BY <1>1, CallHead, CallParts DEF KeptInv
<1> HIDE DEF n
<1>3. CASE UNCHANGED <<svc, created>> /\ Return(p)
  <2>1. StoreTypes'
    BY <1>1, <1>3 DEF KeptInv, StoreTypes
  <2> QED
    BY <1>3, <2>1, ReturnKept
<1>4. CASE CreateService(p, n)
  BY <1>1, <1>2, <1>3, <1>4, CreateServiceKept DEF CreateService
<1>5. ASSUME NEW s \in Listed(p, n), UseService(p, n, s)
      PROVE  KeptInv'
  <2>1. PICK e \in list[p] : s = e[2]
    BY DEF Listed
  <2>2. ListedInv(p, e) /\ e \in Names \X Services
    BY DEF KeptInv, ListInv, CallTypes
  <2>3. ~Differs(p, s) /\ s.id \in Nat
    BY <2>1, <2>2 DEF ListedInv, Differs, Services
  <2>4. Registering(p, s.id) /\ UNCHANGED <<svc, created>>
    BY <1>5, <2>3 DEF UseService
  <2>5. /\ CallTypes'
        /\ \A o \in Owners : pc'[o] = pc[o] /\ list'[o] = list[o] /\ view'[o] = view[o]
        /\ \A o \in Owners \ {p} : todo'[o] = todo[o]
    BY <1>1, <2>3, <2>4, RegisteringTypes DEF KeptInv
  <2>6. StoreTypes'
    BY <1>1, <2>4 DEF KeptInv, StoreTypes
  <2>7. \A o \in Owners : pc'[o] = "deletes" =>
          \A i \in DOMAIN todo'[o] :
            svc[todo'[o][i][2]].id # 0 /\ svc[todo'[o][i][2]].owner = o
    BY <1>1, <2>5 DEF KeptInv, OwnInv
  <2> QED
    BY <2>4, <2>5, <2>6, <2>7, StoreKept
<1> QED
  BY <1>1, <1>4, <1>5

-----------------------------------------------------------------------------
LEMMA NextKept ==
  ASSUME OwnDescriptions, SameTTL, KeptInv, [Next]_vars
  PROVE  KeptInv'
<1>1. CASE UNCHANGED vars
  BY <1>1 DEF vars, KeptInv, CallTypes, StoreTypes, IdInv, ListInv, ListedInv, OwnInv
<1>2. ASSUME NEW p \in Owners, Step(p)
      PROVE  KeptInv'
  BY <1>2, ListServicesKept, DiscoverKept, DeleteServiceKept, PlanKept, DeregisterKept, DeletesDoneKept,
     EnsureServiceKept, RegisterKept, CreatesDoneKept DEF Step
<1> QED
  BY <1>1, <1>2, FailKept, SourceChangesKept DEF Next

(* The steps that take something away.                                     *)
LEMMA DeletesOwn ==
  ASSUME OwnDescriptions, KeptInv, NEW p \in Owners, DeleteService(p)
  PROVE  ServiceStep
<1>1. pc[p] = "delete" /\ inst' = inst
  BY DEF DeleteService
<1>2. PICK e \in list[p] :
        \/ UNCHANGED svc
        \/ svc' = [svc EXCEPT ![e[1]] =
             IF Deletes(p, e[2]) /\ inst[e[1]] = {} /\ e[2].id = @.id THEN NoService ELSE @]
  BY DEF DeleteService
<1>3. e[1] \in Names /\ ListedInv(p, e)
  BY DEF KeptInv, CallTypes, ListInv
<1>4. \A n \in Names : svc'[n] # svc[n] =>
        n = e[1] /\ inst[n] = {} /\ Deletes(p, e[2]) /\ e[2].id = svc[n].id
  BY <1>2, <1>3 DEF KeptInv, StoreTypes
<1>5. Deletes(p, e[2]) /\ e[2].id = svc[e[1]].id => svc[e[1]].owner = p
  BY <1>3 DEF ListedInv, Deletes, OwnDescriptions
<1>6. \A n \in Names : svc[n].id # 0 /\ svc'[n].id = 0 =>
        inst'[n] = {} /\ pc[p] = "delete" /\ svc[n].owner = p
  BY <1>1, <1>4, <1>5
<1> QED
  BY <1>1, <1>6 DEF ServiceStep

LEMMA DeregisterOwn ==
  ASSUME KeptInv, NEW p \in Owners, Deregister(p) \/ Fail(p)
  PROVE  ServiceStep
<1> DEFINE n == todo[p][1][2]
<1>1. svc' = svc
  BY DEF Deregister, Fail
<1>2. CASE inst' = inst
  BY <1>1, <1>2 DEF ServiceStep
<1>3. ASSUME NEW T, inst' = [inst EXCEPT ![n] = @ \union T]
      PROVE  ServiceStep
  <2>1. \A m \in Names : inst[m] \subseteq inst'[m]
    BY <1>3 DEF KeptInv, StoreTypes
  <2> QED
    BY <1>1, <2>1 DEF ServiceStep
<1>4. ASSUME pc[p] = "deletes", todo[p] # <<>>, NEW T, inst' = [inst EXCEPT ![n] = @ \ T]
      PROVE  ServiceStep
  <2>1. svc[n].owner = p
    BY <1>4, CallHead DEF KeptInv, OwnInv
  <2>2. \A m \in Names : inst'[m] # inst[m] => m = n
    BY <1>4 DEF KeptInv, StoreTypes
  <2> HIDE DEF n
  <2> QED
    BY <1>1, <1>4, <2>1, <2>2 DEF ServiceStep
<1>5. CASE Deregister(p)
  BY <1>2, <1>4, <1>5 DEF Deregister
<1>6. CASE Fail(p)
  <2>1. Partly(p)
    BY <1>6 DEF Fail
  <2> QED
    BY <1>2, <1>3, <1>4, <2>1 DEF Partly
<1> QED
  BY <1>5, <1>6

(* The other steps add services and targets only.                          *)
LEMMA OthersTakeNothing ==
  ASSUME KeptInv, NEW p \in Owners,
         ListServices(p) \/ Discover(p) \/ PlanChanges(p) \/ DeletesDone(p) \/ CreatesDone(p)
           \/ SourceChanges(p) \/ EnsureService(p) \/ Register(p)
  PROVE  ServiceStep
<1>1. SUFFICES \A n \in Names : inst[n] \subseteq inst'[n] /\ (svc'[n].id = 0 => svc[n].id = 0)
  BY DEF ServiceStep
<1>2. CASE ListServices(p) \/ Discover(p) \/ PlanChanges(p) \/ DeletesDone(p) \/ CreatesDone(p)
             \/ SourceChanges(p)
  BY <1>2 DEF ListServices, Discover, PlanChanges, DeletesDone, CreatesDone, SourceChanges, store
<1>3. CASE EnsureService(p)
  <2> DEFINE m == todo[p][1][2]
  <2>1. inst' = inst /\ (CreateService(p, m) \/ \E s \in Listed(p, m) : UseService(p, m, s))
    BY <1>3 DEF EnsureService
  <2>2. m \in Names
    BY <1>3, CallHead, CallParts DEF KeptInv, EnsureService
  <2> HIDE DEF m
  <2>3. svc[m] \in Services
    BY <2>2 DEF KeptInv, StoreTypes
  <2>4. \/ svc' = svc
        \/ m \notin Existing /\ \A k \in Names \ {m} : svc'[k] = svc[k]
        \/ svc' = [svc EXCEPT ![m].owner = p, ![m].ttl = TTL[p]]
    BY <2>1, <2>2 DEF KeptInv, StoreTypes, CreateService, UseService
  <2>5. m \notin Existing => svc[m].id = 0
    BY <2>2 DEF Existing
  <2>6. CASE svc' = [svc EXCEPT ![m].owner = p, ![m].ttl = TTL[p]]
    <3>1. [[svc[m] EXCEPT !.owner = p] EXCEPT !.ttl = TTL[p]].id = svc[m].id
      BY <2>3 DEF Services
    <3>2. \A k \in Names : svc'[k].id = svc[k].id
      BY <2>2, <2>3, <2>6 DEF KeptInv, StoreTypes, Services
    <3> QED
      BY <2>1, <3>2
  <2> QED
    BY <2>1, <2>4, <2>5, <2>6
<1>4. CASE Register(p)
  BY <1>4 DEF Register, KeptInv, StoreTypes
<1> QED
  BY <1>2, <1>3, <1>4

LEMMA NextServiceStep ==
  ASSUME OwnDescriptions, KeptInv, [Next]_vars
  PROVE  ServiceStep
<1>1. CASE UNCHANGED vars
  BY <1>1 DEF vars, ServiceStep
<1>2. ASSUME NEW p \in Owners, Step(p) \/ Fail(p) \/ SourceChanges(p)
      PROVE  ServiceStep
  BY <1>2, DeletesOwn, DeregisterOwn, OthersTakeNothing DEF Step
<1> QED
  BY <1>1, <1>2 DEF Next

(* The services of a shared namespace stay with their owners, for any      *)
(* number of processes, names, targets, crashes and changes of the         *)
(* sources, where descriptions tell the owners apart and the TTLs agree.   *)
THEOREM CloudMapServicesKept ==
  ASSUME OwnDescriptions, SameTTL
  PROVE  Spec => ServicesKept
<1>1. Init => KeptInv
  BY InitKept
<1>2. KeptInv /\ [Next]_vars => KeptInv'
  BY NextKept
<1>3. KeptInv /\ [Next]_vars => [ServiceStep]_vars
  BY NextServiceStep
<1> QED
  BY <1>1, <1>2, <1>3, PTL DEF Spec, ServicesKept
=============================================================================
