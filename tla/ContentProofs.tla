---------------------------- MODULE ContentProofs ----------------------------
(***************************************************************************)
(* The safety of WorkContent, for every set of objects, secrets, cluster   *)
(* sets and reports, and every number of faults and changes.               *)
(***************************************************************************)
EXTENDS WorkContent, FeedbackProofs

(***************************************************************************)
(* The types, with the copies of the object that the cache and the worker  *)
(* have: what they are patched with becomes the object.                    *)
(***************************************************************************)
Sound(o) == o \in Object /\ DistinctPools(o)

TypeInv ==
  /\ Sound(hyd) /\ Sound(hydCache) /\ mem \in Memory /\ DistinctPools(mem.o)
  /\ queued \in BOOLEAN /\ pc \in Steps
  /\ work \in Work /\ workCache \in Work
  /\ hub \subseteq Names /\ provider \in Provider /\ references \in BOOLEAN
  /\ fleet \subseteq Facts /\ seen \subseteq Facts
  /\ faults \in 0..MaxFaults /\ changes \in 0..MaxChanges

\* What the worker has, and what it does not touch.
MemoryOK(m) == m \in Memory /\ DistinctPools(m.o)

LEMMA ZeroSound == Sound(ZeroObject) /\ MemoryOK(Nothing) /\ NoWork \in Work
<1>1. Sound(ZeroObject)
  BY DEF Sound, DistinctPools, DistinctNames, ZeroObject, Object, NoConditions, Conditions,
         ReportedStatus, NodePool
<1>2. NoWork \in Work
  BY DEF NoWork, Work, Keys, Report
<1>3. Nothing.o = ZeroObject
  BY DEF Nothing
<1>4. NoConditions \in Conditions
  BY DEF NoConditions, Conditions, ReportedStatus
<1> QED BY <1>1, <1>2, <1>3, <1>4 DEF MemoryOK, Nothing, Memory, Sound, Provider

LEMMA TypeInit == Init => TypeInv
<1> SUFFICES ASSUME Init PROVE TypeInv
  OBVIOUS
<1>1. Sound(hyd) /\ Sound(hydCache)
  BY ContentAssumption DEF Init, Sound
<1>2. /\ hub \subseteq Names /\ provider \in Provider /\ fleet \subseteq Facts
      /\ MaxFaults \in Nat /\ MaxChanges \in Nat
  BY ContentAssumption DEF Init
<1> QED BY <1>1, <1>2, ZeroSound DEF Init, TypeInv, MemoryOK, Steps

\* The conditions of a work are conditions.
LEMMA SyncedTyped ==
  ASSUME NEW status \in Conditions, NEW pools, NEW reports \in Seq(Report)
  PROVE  Synced(status, pools, reports) \in Conditions
<1> DEFINE new == Feedback(pools, reports)
<1>1. new.nodePool \in ReportedStatus /\ new.available \in ReportedStatus
  BY FeedbackTells DEF WorstOf, OneOf
<1> HIDE DEF new
<1>2. Synced(status, pools, reports) =
        [status EXCEPT !.nodePool = IF new.nodePool = "none" THEN @ ELSE new.nodePool,
                       !.available = IF new.available = "none" THEN @ ELSE new.available]
  BY DEF Synced, new
<1> QED BY <1>1, <1>2 DEF Conditions

\* What the status patches make of an object.
LEMMA StatusSound ==
  ASSUME NEW o, Sound(o), NEW status \in Conditions
  PROVE  Sound([o EXCEPT !.status = status])
BY DEF Sound, Object, DistinctPools, DistinctNames

LEMMA PatchesSound ==
  ASSUME TypeInv, NEW base, NEW status \in Conditions, NEW o \in Patches(base, status)
  PROVE  Sound(o)
BY StatusSound DEF TypeInv, Patches

LEMMA ReportSound ==
  ASSUME TypeInv, ReportNotConfigured \/ UNCHANGED hyd PROVE Sound(hyd')
<1>1. NotConfigured \in Conditions
  BY DEF NotConfigured, TypeInv, Memory, Conditions
<1> QED BY <1>1, PatchesSound DEF ReportNotConfigured, TypeInv

-----------------------------------------------------------------------------
(* What the scaffolding makes of an object. *)

LEMMA GeneratedSound ==
  ASSUME NEW o PROVE Generated(o) \in Seq(NodePool) /\ DistinctNames(Generated(o))
<1>1. CASE o.platform = "AWS"
  <2>1. Len(Zones) \in Nat /\ \A i \in 1..Len(Zones) : Pool(Zones[i]) \in NodePool
    BY ContentAssumption DEF Pool, NodePool
  <2>2. Generated(o) = [i \in 1..Len(Zones) |-> Pool(Zones[i])]
    BY <1>1 DEF Generated
  <2>3. Generated(o) \in Seq(NodePool) /\ Len(Generated(o)) = Len(Zones)
    BY <2>1, <2>2
  <2>4. \A i \in 1..Len(Zones) : Generated(o)[i].name = Zones[i]
    BY <2>2 DEF Pool
  <2> QED BY <2>3, <2>4, ContentAssumption DEF DistinctNames
<1>2. CASE o.platform # "AWS"
  <2>1. Generated(o) = <<Pool(ClusterPool)>> /\ Pool(ClusterPool) \in NodePool
    BY <1>2, ContentAssumption DEF Generated, Pool, NodePool
  <2> QED BY <2>1 DEF DistinctNames
<1> QED BY <1>1, <1>2

LEMMA ScaffoldedSound ==
  ASSUME NEW o, Sound(o) PROVE Sound(Scaffolded(o))
<1> DEFINE pools == NodePools(o)
           filled == [i \in 1..Len(pools) |->
                        [pools[i] EXCEPT !.subnet = @ \/ o.platform = "AWS", !.matches = TRUE]]
           tags == IF o.platform = "AWS" THEN Tagged(o.tags) ELSE o.tags
           names == o.names \cup {"pull"} \cup (IF "kms" \in o.names THEN {} ELSE {"key"})
                      \cup (IF o.platform = "Azure" THEN {"cloud"} ELSE {})
<1>1. pools \in Seq(NodePool) /\ DistinctNames(pools)
  BY GeneratedSound DEF NodePools, Sound, Object, DistinctPools
<1> HIDE DEF pools
<1>2. \A i \in 1..Len(pools) :
        filled[i] \in NodePool /\ filled[i].name = pools[i].name
  <2>1. \A i \in 1..Len(pools) : pools[i] \in NodePool
    BY <1>1
  <2> QED BY <2>1 DEF NodePool
<1>3. filled \in Seq(NodePool) /\ Len(filled) = Len(pools)
  <2>1. Len(pools) \in Nat
    BY <1>1
  <2>2. filled \in [1..Len(pools) -> NodePool]
    BY <1>2
  <2> HIDE DEF filled
  <2> QED BY <2>1, <2>2
<1> HIDE DEF filled
<1>4. DistinctNames(filled)
  BY <1>1, <1>2, <1>3 DEF DistinctNames
<1>5. tags \in 0..2 /\ names \in SUBSET Names
  BY DEF Sound, Object, Tagged, Names, ReferenceSecrets, ConfigurationSecrets
<1> HIDE DEF tags, names
<1>6. Scaffolded(o) = [o EXCEPT !.pools = filled, !.tags = tags, !.names = names]
  BY DEF Scaffolded, filled, pools, tags, names
<1> QED BY <1>3, <1>4, <1>5, <1>6 DEF Sound, Object, DistinctPools

LEMMA PatchedSound ==
  ASSUME TypeInv, NEW mine, Sound(mine) PROVE Sound(Patched(mine))
<1> DEFINE pools == Merge(hyd.pools, hydCache.pools, mine.pools)
           tags  == Merge(hyd.tags, hydCache.tags, mine.tags)
           names == Merge(hyd.names, hydCache.names, mine.names)
<1>1. pools \in Seq(NodePool) /\ DistinctNames(pools)
  BY DEF Merge, TypeInv, Sound, Object, DistinctPools
<1>2. tags \in 0..2 /\ names \in SUBSET Names
  BY DEF Merge, TypeInv, Sound, Object
<1>3. Patched(mine) = [hyd EXCEPT !.pools = pools, !.tags = tags, !.names = names]
  BY DEF Patched
<1>4. hyd \in Object
  BY DEF TypeInv, Sound
<1> HIDE DEF pools, tags, names
<1>5. [hyd EXCEPT !.pools = pools, !.tags = tags, !.names = names] \in Object
  BY <1>1, <1>2, <1>4 DEF Object
<1>6. [hyd EXCEPT !.pools = pools, !.tags = tags, !.names = names].pools = pools
  BY <1>4 DEF Object
<1> QED BY <1>1, <1>3, <1>5, <1>6 DEF Sound, DistinctPools

-----------------------------------------------------------------------------
(* The steps.  Each leaves most of the variables to the ones it shares.    *)

\* A step is typed if what it makes of the objects, works and facts is.
LEMMA StepTyped ==
  ASSUME TypeInv, Sound(hyd'), Sound(hydCache'), MemoryOK(mem'), work' \in Work, workCache' \in Work,
         queued' \in BOOLEAN, pc' \in Steps, seen' \subseteq Facts,
         UNCHANGED <<hub, provider, references, fleet>>,
         Fault \/ NoFault, UNCHANGED changes
  PROVE  TypeInv'
<1>1. faults' \in 0..MaxFaults
  BY ContentAssumption DEF Fault, NoFault, TypeInv
<1> QED BY <1>1 DEF TypeInv, MemoryOK

LEMMA ReturnTyped ==
  ASSUME TypeInv, Return, queued' \in BOOLEAN, Sound(hyd'), UNCHANGED <<hydCache, work, workCache>>,
         UNCHANGED <<hub, provider, references, fleet>>, Fault \/ NoFault, UNCHANGED changes
  PROVE  TypeInv'
<1>1. MemoryOK(mem') /\ pc' \in Steps /\ seen' \subseteq Facts
  BY ZeroSound DEF Return, Steps
<1> QED BY <1>1, StepTyped DEF TypeInv

\* A worker that goes on with the object as it is.
LEMMA GotoTyped ==
  ASSUME TypeInv, MemoryOK(mem'), NEW step \in Steps, Goto(step), Sound(hyd'), work' \in Work,
         UNCHANGED <<hydCache, workCache>>,
         UNCHANGED <<hub, provider, references, fleet>>, Fault \/ NoFault, UNCHANGED changes
  PROVE  TypeInv'
<1>1. pc' \in Steps /\ queued' \in BOOLEAN /\ seen' \subseteq Facts
  BY DEF Goto, TypeInv
<1> QED BY <1>1, StepTyped DEF TypeInv

LEMMA StartTyped == ASSUME TypeInv, Start PROVE TypeInv'
<1>1. mem' = [Nothing EXCEPT !.o = hydCache, !.provider = provider, !.status = hydCache.status]
  BY DEF Start
<1>2. mem'.o = hydCache /\ hydCache \in Object /\ hydCache.status \in Conditions
  BY <1>1 DEF TypeInv, Sound, Object, Nothing
<1>3. MemoryOK(mem')
  BY <1>1, <1>2, ZeroSound DEF MemoryOK, Memory, TypeInv, Sound
<1>4. pc' \in Steps /\ queued' \in BOOLEAN /\ seen' \subseteq Facts /\ NoFault
  <2>1. hydCache.configure \in BOOLEAN /\ GivesUp(hydCache, provider) \in BOOLEAN
    BY DEF TypeInv, Sound, Object, GivesUp
  <2>2. queued' \in BOOLEAN
    BY <2>1 DEF Start
  <2> QED BY <2>2 DEF Start, TypeInv, Steps, NoFault
<1> QED BY <1>3, <1>4, StepTyped DEF Start, hubVars, TypeInv

LEMMA ScaffoldTyped == ASSUME TypeInv, ScaffoldSpec PROVE TypeInv'
<1>1. CASE UNCHANGED hyd /\ Fault /\ Requeue
  BY <1>1, ReturnTyped DEF ScaffoldSpec, Requeue, hubVars, TypeInv
<1>2. CASE /\ hyd' = Patched(Scaffolded(mem.o)) /\ NoFault
           /\ mem' = [mem EXCEPT !.o = hyd', !.status = hyd'.status] /\ Goto("ready")
  <2>1. Sound(mem.o)
    BY DEF TypeInv, Memory, Sound
  <2>2. Sound(hyd')
    BY <1>2, <2>1, ScaffoldedSound, PatchedSound
  <2>3. hyd'.status \in Conditions
    BY <2>2 DEF Sound, Object
  <2>4. MemoryOK(mem')
    BY <1>2, <2>2, <2>3 DEF TypeInv, Memory, MemoryOK, Sound
  <2>5. "ready" \in Steps
    BY DEF Steps
  <2> QED BY <1>2, <2>2, <2>4, <2>5, GotoTyped DEF ScaffoldSpec, hubVars, TypeInv
<1> QED BY <1>1, <1>2 DEF ScaffoldSpec

LEMMA ReadyTyped == ASSUME TypeInv, PlatformReady PROVE TypeInv'
<1>1. CASE UNCHANGED hyd /\ Fault /\ Requeue
  BY <1>1, ReturnTyped DEF PlatformReady, Requeue, hubVars, TypeInv
<1>2. CASE /\ hyd' = [hyd EXCEPT !.ready = TRUE, !.status = mem.o.status] /\ NoFault
           /\ mem' = [mem EXCEPT !.o = hyd'] /\ Goto("validate")
  <2>1. mem.o.status \in Conditions
    BY DEF TypeInv, Memory, Object
  <2>2. Sound(hyd')
    BY <1>2, <2>1 DEF TypeInv, Sound, Object, DistinctPools, DistinctNames
  <2>3. MemoryOK(mem')
    BY <1>2, <2>2 DEF TypeInv, Memory, MemoryOK, Sound
  <2>4. "validate" \in Steps
    BY DEF Steps
  <2> QED BY <1>2, <2>2, <2>3, <2>4, GotoTyped DEF PlatformReady, hubVars, TypeInv
<1> QED BY <1>1, <1>2 DEF PlatformReady

LEMMA RejectTyped ==
  ASSUME TypeInv, Reject, UNCHANGED <<hydCache, work, workCache>>,
         UNCHANGED <<hub, provider, references, fleet>>, UNCHANGED changes
  PROVE  TypeInv'
BY ReportSound, ReturnTyped DEF Reject, Requeue

LEMMA ValidateTyped == ASSUME TypeInv, Validate PROVE TypeInv'
<1>1. CASE Return
  <2>1. Sound(hyd')
    BY ReportSound DEF Validate, TypeInv
  <2>2. queued' \in BOOLEAN /\ (Fault \/ NoFault)
    BY <1>1 DEF Validate, Requeue, Done, Goto, NoFault, TypeInv
  <2> QED BY <1>1, <2>1, <2>2, ReturnTyped DEF Validate, hubVars
<1>2. CASE /\ Goto(IF ValidateClusterSecurity THEN "set" ELSE "work")
           /\ UNCHANGED <<hyd, mem, faults>>
  <2>1. (IF ValidateClusterSecurity THEN "set" ELSE "work") \in Steps
    BY DEF Steps
  <2> QED BY <1>2, <2>1, GotoTyped DEF Validate, hubVars, TypeInv, MemoryOK, NoFault
<1> QED BY <1>1, <1>2 DEF Validate, Requeue, Done

LEMMA ChecksTyped ==
  ASSUME TypeInv, CheckSet \/ CheckBindings \/ CheckCluster \/ CheckMember PROVE TypeInv'
<1>1. CASE Reject
  BY <1>1, RejectTyped DEF CheckSet, CheckBindings, CheckCluster, CheckMember, hubVars
<1>2. ASSUME NEW step \in Steps, Goto(step), UNCHANGED <<hyd, faults>>, MemoryOK(mem')
      PROVE  TypeInv'
  <2>1. NoFault
    BY <1>2 DEF NoFault
  <2> QED
    BY <1>2, <2>1, GotoTyped
       DEF CheckSet, CheckBindings, CheckCluster, CheckMember, hubVars, TypeInv
<1>3. CASE ~Reject /\ (CheckSet \/ CheckCluster \/ CheckMember)
  <2>1. MemoryOK(mem') /\ \E step \in Steps : Goto(step) /\ UNCHANGED <<hyd, faults>>
    BY <1>3 DEF CheckSet, CheckCluster, CheckMember, Steps, TypeInv, MemoryOK
  <2> QED BY <1>2, <2>1
<1>4. CASE ~Reject /\ CheckBindings
  <2>1. /\ BindingsSuffice(mem.o, BoundSets)
        /\ mem' = [mem EXCEPT !.sets = IF mem.o.set = NoSet THEN BoundSets ELSE {mem.o.set}]
        /\ Goto("cluster") /\ UNCHANGED <<hyd, faults>>
    BY <1>4 DEF CheckBindings
  <2>2. (IF mem.o.set = NoSet THEN BoundSets ELSE {mem.o.set}) \subseteq ClusterSets
    BY <2>1 DEF BindingsSuffice, BoundSets
  <2>3. MemoryOK(mem') /\ "cluster" \in Steps
    BY <2>1, <2>2 DEF MemoryOK, Memory, TypeInv, Steps
  <2> QED BY <1>2, <2>1, <2>3
<1> QED BY <1>1, <1>3, <1>4

LEMMA PoolsTyped ==
  ASSUME NEW o \in Object
  PROVE  PoolNamesOf(o) \subseteq PoolNames /\ DeployedPools(o) \subseteq PoolNames
<1>1. \A i \in 1..Len(o.pools) : o.pools[i] \in NodePool
  BY DEF Object
<1> QED BY <1>1 DEF PoolNamesOf, DeployedPools, Object, NodePool

LEMMA KeysTyped ==
  ASSUME TypeInv, NEW key \in KeysFor(mem.o) PROVE key \in Keys
<1>1. mem.old.key \in Keys
  BY DEF TypeInv, Memory, Work
<1> QED BY <1>1 DEF KeysFor, EtcdKeys, Keys

\* The worker fills in its payload.
LEMMA PayloadTyped ==
  ASSUME TypeInv, NEW w \in Work, mem' = [mem EXCEPT !.payload = w]
  PROVE  MemoryOK(mem')
BY DEF TypeInv, Memory, MemoryOK

LEMMA ReadsTyped ==
  ASSUME TypeInv, GetWork \/ LoadManifests \/ LoadReferenceSecrets \/ EnsureConfiguration
  PROVE  TypeInv'
<1>1. UNCHANGED <<hydCache, work, workCache>> /\ UNCHANGED hubVars /\ UNCHANGED changes
  BY DEF GetWork, LoadManifests, LoadReferenceSecrets, EnsureConfiguration
<1>2. ASSUME NEW step \in Steps, Goto(step), UNCHANGED <<hyd, faults>>, MemoryOK(mem')
      PROVE  TypeInv'
  <2>1. NoFault
    BY <1>2 DEF NoFault
  <2> QED BY <1>1, <1>2, <2>1, GotoTyped DEF hubVars, TypeInv
<1>3. CASE Return
  <2>1. Sound(hyd') /\ (Fault \/ NoFault) /\ queued' \in BOOLEAN
    BY <1>3, ReportSound
       DEF GetWork, LoadManifests, LoadReferenceSecrets, EnsureConfiguration, Reject, Requeue, Goto,
           Return, NoFault, TypeInv
  <2> QED BY <1>1, <1>3, <2>1, ReturnTyped DEF hubVars
<1>4. mem.payload \in Work /\ mem.o \in Object /\ mem \in Memory
  BY DEF TypeInv, Memory
<1>5. CASE GetWork
  <2>1. Synced(mem.status, PoolNamesOf(mem.o), workCache.reports) \in Conditions
    BY SyncedTyped DEF TypeInv, Memory, Work
  <2>2. MemoryOK(mem') /\ "manifests" \in Steps
    BY <1>5, <2>1 DEF GetWork, MemoryOK, Memory, TypeInv, Steps
  <2> QED BY <1>2, <1>5, <2>2 DEF GetWork
<1>6. CASE LoadManifests /\ ~Return
  <2>1. mem' = [mem EXCEPT !.payload.pools = DeployedPools(mem.o)]
        /\ Goto("secrets") /\ UNCHANGED <<hyd, faults>>
    BY <1>6 DEF LoadManifests, Reject, Requeue
  <2>2. mem' = [mem EXCEPT !.payload = [mem.payload EXCEPT !.pools = DeployedPools(mem.o)]]
    BY <2>1
  <2>3. [mem.payload EXCEPT !.pools = DeployedPools(mem.o)] \in Work
    BY <1>4, PoolsTyped DEF Work
  <2>4. MemoryOK(mem') /\ "secrets" \in Steps
    BY <2>2, <2>3, PayloadTyped DEF Steps
  <2> QED BY <1>2, <2>1, <2>4
<1>7. CASE LoadReferenceSecrets /\ ~Return
  <2> DEFINE w == [mem.payload EXCEPT !.names   = NamedWith(mem.o, mem.provider),
                                      !.secrets = ReferenceSecretsFor(mem.o, mem.provider)]
  <2>1. mem' = [mem EXCEPT !.payload.names   = NamedWith(mem.o, mem.provider),
                           !.payload.secrets = ReferenceSecretsFor(mem.o, mem.provider)]
        /\ Goto("configuration") /\ UNCHANGED <<hyd, faults>>
    BY <1>7 DEF LoadReferenceSecrets, Requeue
  <2>2. mem' = [mem EXCEPT !.payload = w]
    BY <1>4, <2>1 DEF Memory, Work
  <2>3. NamedWith(mem.o, mem.provider) \subseteq Names
        /\ ReferenceSecretsFor(mem.o, mem.provider) \subseteq Names
    BY <1>4 DEF Object, NamedWith, ReferenceSecretsFor, Names, ReferenceSecrets
  <2>4. w \in Work
    BY <1>4, <2>3 DEF Work
  <2>5. MemoryOK(mem') /\ "configuration" \in Steps
    BY <2>2, <2>4, PayloadTyped DEF Steps
  <2> QED BY <1>2, <2>1, <2>5
<1>8. CASE EnsureConfiguration /\ ~Return
  <2> DEFINE found == {name \in Configuration(mem.o) : Found(mem.o, hub, mem.old, name)}
  <2>1. PICK key \in KeysFor(mem.o) :
          /\ mem' = [mem EXCEPT !.payload.key = key, !.payload.secrets = @ \cup found]
          /\ Goto("write") /\ UNCHANGED <<hyd, faults>>
    BY <1>8 DEF EnsureConfiguration, Requeue
  <2> DEFINE w == [mem.payload EXCEPT !.key = key, !.secrets = mem.payload.secrets \cup found]
  <2>2. mem' = [mem EXCEPT !.payload = w]
    BY <1>4, <2>1 DEF Memory, Work
  <2>3. found \subseteq Names /\ key \in Keys
    BY <1>4, KeysTyped DEF Object, Configuration
  <2>4. w \in Work
    BY <1>4, <2>3 DEF Work
  <2>5. MemoryOK(mem') /\ "write" \in Steps
    BY <2>2, <2>4, PayloadTyped DEF Steps
  <2> QED BY <1>2, <2>1, <2>5
<1> QED BY <1>3, <1>5, <1>6, <1>7, <1>8

LEMMA WriteTyped == ASSUME TypeInv, WriteWork PROVE TypeInv'
<1>1. CASE UNCHANGED work /\ Requeue /\ (Fault \/ NoFault)
  BY <1>1, ReturnTyped DEF WriteWork, Requeue, hubVars, TypeInv
<1>2. CASE /\ work' = [mem.payload EXCEPT !.exists = TRUE, !.reports = work.reports]
           /\ mem' = [mem EXCEPT !.status.work = "True"]
           /\ Goto("report") /\ NoFault
  <2>1. work' \in Work
    BY <1>2 DEF TypeInv, Memory, Work
  <2>2. [mem.status EXCEPT !.work = "True"] \in Conditions
    BY DEF TypeInv, Memory, Conditions
  <2>3. mem' = [mem EXCEPT !.status = [mem.status EXCEPT !.work = "True"]]
    BY <1>2
  <2>4. MemoryOK(mem') /\ "report" \in Steps
    BY <2>2, <2>3 DEF TypeInv, Memory, MemoryOK, Steps
  <2> QED BY <1>2, <2>1, <2>4, GotoTyped DEF WriteWork, hubVars, TypeInv
<1> QED BY <1>1, <1>2 DEF WriteWork

LEMMA EndsTyped ==
  ASSUME TypeInv, BadPrincipal \/ PatchStatus \/ Panic \/ Crash PROVE TypeInv'
<1>1. Return /\ queued' \in BOOLEAN /\ (Fault \/ NoFault)
  BY DEF BadPrincipal, PatchStatus, Panic, Crash, Done, Requeue, NoFault, TypeInv
<1>2. Sound(hyd')
  <2>1. mem.status \in Conditions
    BY DEF TypeInv, Memory
  <2> QED BY <2>1, PatchesSound DEF BadPrincipal, PatchStatus, Panic, Crash, TypeInv
<1> QED
  BY <1>1, <1>2, ReturnTyped DEF BadPrincipal, PatchStatus, Panic, Crash, hubVars

LEMMA ObserveTyped ==
  ASSUME TypeInv, ObserveObject \/ ObserveWork \/ Resync PROVE TypeInv'
BY DEF ObserveObject, ObserveWork, Resync, TypeInv, hubVars

LEMMA ChangesTyped ==
  ASSUME TypeInv, AgentReports \/ UserEdits \/ HubChanges PROVE TypeInv'
<1>1. changes' \in 0..MaxChanges
  BY ContentAssumption DEF AgentReports, UserEdits, HubChanges, Change, TypeInv
<1>2. CASE AgentReports
  <2>1. work' \in Work
    BY <1>2, ContentAssumption DEF AgentReports, TypeInv, Work
  <2> QED BY <1>1, <1>2, <2>1 DEF AgentReports, TypeInv, hubVars
<1>3. CASE UserEdits
  <2>1. Sound(hyd')
    BY <1>3, ContentAssumption DEF UserEdits, TypeInv, Sound, Object, DistinctPools
  <2> QED BY <1>1, <1>3, <2>1 DEF UserEdits, TypeInv, hubVars
<1>4. CASE HubChanges
  <2>1. hub' \subseteq Names
    BY <1>4 DEF HubChanges, Flipped, TypeInv, Sound, Object
  <2>2. provider' \in Provider
    BY <1>4 DEF HubChanges, TypeInv, Provider
  <2>3. fleet' \subseteq Facts
    BY <1>4 DEF HubChanges, Flipped, TypeInv
  <2>4. seen' \subseteq Facts
    BY <1>4, <2>3 DEF HubChanges, TypeInv
  <2>5. references' \in BOOLEAN
    BY <1>4 DEF HubChanges, TypeInv
  <2> QED BY <1>1, <1>4, <2>1, <2>2, <2>3, <2>4, <2>5 DEF HubChanges, TypeInv
<1> QED BY <1>2, <1>3, <1>4

LEMMA NextTyped == ASSUME TypeInv, [Next]_vars PROVE TypeInv'
<1>1. CASE UNCHANGED vars
  BY <1>1 DEF vars, hubVars, TypeInv
<1> QED
  BY <1>1, StartTyped, ScaffoldTyped, ReadyTyped, ValidateTyped, ChecksTyped, ReadsTyped, WriteTyped,
     EndsTyped, ObserveTyped, ChangesTyped
     DEF Next, Step

LEMMA TypeInvariant == Spec => []TypeInv
BY TypeInit, NextTyped, PTL DEF Spec

(***************************************************************************)
(* The variables keep their types, whatever the agent reports, users edit  *)
(* and somebody changes on the hub, and no object, however often its       *)
(* scaffolding is retried on old copies, has two NodePools of one name.    *)
(***************************************************************************)
THEOREM ContentTypeCorrect == Spec => []ContentTypeOK
BY TypeInvariant, PTL DEF TypeInv, Sound, ContentTypeOK

-----------------------------------------------------------------------------
(***************************************************************************)
(* What the other proofs need of the types: the fields an action writes    *)
(* are fields of what it writes to.                                        *)
(***************************************************************************)
IsObject(o) == {"names", "platform", "set", "configure", "ready", "tags"} \subseteq DOMAIN o
IsWork(w)   == {"exists", "key", "names", "secrets", "pools"} \subseteq DOMAIN w
IsMemory(m) ==
  /\ {"o", "provider", "sets", "old", "payload"} \subseteq DOMAIN m
  /\ IsObject(m.o) /\ IsWork(m.old) /\ IsWork(m.payload)

Shape ==
  /\ IsObject(hyd) /\ IsObject(hydCache) /\ IsMemory(mem)
  /\ IsWork(work) /\ IsWork(workCache)

\* An object keeps its platform, which is the one of every copy.
Identity ==
  /\ hydCache.platform = hyd.platform
  /\ pc # "idle" => mem.o.platform = hyd.platform

\* What the agent and the worker's status patches leave alone.
SameWork(v, w)   == v.key = w.key /\ v.names = w.names /\ v.secrets = w.secrets
SameObject(o, p) == o.platform = p.platform /\ o.names = p.names

\* A patch of the conditions leaves everything else in the object.
LEMMA PatchesShape ==
  ASSUME NEW base, NEW status, NEW o \in Patches(base, status), IsObject(hyd)
  PROVE  IsObject(o) /\ SameObject(o, hyd)
BY DEF Patches, IsObject, SameObject

LEMMA ScaffoldShape ==
  ASSUME Shape, Identity, ScaffoldSpec
  PROVE  /\ IsObject(hyd') /\ hyd'.platform = hyd.platform
         /\ pc' # "idle" => mem'.o = hyd'
<1>1. CASE UNCHANGED hyd /\ Requeue
  BY <1>1 DEF Shape, Requeue, Return
<1>2. CASE hyd' = Patched(Scaffolded(mem.o)) /\ mem' = [mem EXCEPT !.o = hyd', !.status = hyd'.status]
  <2>1. IsObject(hyd') /\ hyd'.platform = hyd.platform
    BY <1>2 DEF Patched, Shape, IsObject
  <2> QED BY <1>2, <2>1 DEF Shape, IsMemory
<1> QED BY <1>1, <1>2 DEF ScaffoldSpec

\* The reports that a condition is not configured.
LEMMA ReportShape ==
  ASSUME Shape, ReportNotConfigured \/ UNCHANGED hyd
  PROVE  IsObject(hyd') /\ SameObject(hyd', hyd)
BY PatchesShape DEF Shape, ReportNotConfigured, SameObject

(***************************************************************************)
(* Who writes what: the names of the HostedCluster are ScaffoldSpec's, and *)
(* the payload of the work is WriteWork's.                                 *)
(***************************************************************************)
Writes == WriteWork /\ pc' = "report"

Worker == Start \/ Step \/ Panic \/ Crash

LEMMA NamesKept ==
  ASSUME Shape, [Next]_vars, ~ScaffoldSpec PROVE hyd'.names = hyd.names
<1>1. CASE UNCHANGED hyd
  BY <1>1
<1>2. CASE ReportNotConfigured
  BY <1>2, ReportShape DEF SameObject
<1>3. CASE PatchStatus /\ hyd' \in Patches(mem.o.status, mem.status)
  BY <1>3, PatchesShape DEF SameObject, Shape
<1>4. CASE PlatformReady /\ hyd' = [hyd EXCEPT !.ready = TRUE, !.status = mem.o.status]
  BY <1>4 DEF Shape, IsObject
<1>5. CASE UserEdits
  BY <1>5 DEF UserEdits, Shape, IsObject
<1> QED
  BY <1>1, <1>2, <1>3, <1>4, <1>5
     DEF Next, Step, vars, Start, BadPrincipal, PlatformReady, Validate, CheckSet, CheckBindings,
         CheckCluster, CheckMember, Reject, GetWork, LoadManifests, LoadReferenceSecrets,
         EnsureConfiguration, WriteWork, PatchStatus, Panic, Crash, ObserveObject, ObserveWork,
         Resync, AgentReports, HubChanges

LEMMA WorkKept ==
  ASSUME Shape, [Next]_vars, ~Writes PROVE SameWork(work', work)
<1>1. CASE UNCHANGED work
  BY <1>1 DEF SameWork
<1>2. CASE AgentReports
  BY <1>2 DEF AgentReports, Shape, IsWork, SameWork
<1> QED
  BY <1>1, <1>2
     DEF Next, Step, vars, Start, ScaffoldSpec, BadPrincipal, PlatformReady, Validate, CheckSet,
         CheckBindings, CheckCluster, CheckMember, GetWork, LoadManifests, LoadReferenceSecrets,
         EnsureConfiguration, WriteWork, Writes, Goto, PatchStatus, Panic, Crash, ObserveObject,
         ObserveWork, Resync, UserEdits, HubChanges

\* What is not the worker leaves the worker where it is.
LEMMA OthersWait ==
  ASSUME [Next]_vars, ~Worker
  PROVE  UNCHANGED <<pc, mem>> /\ workCache' \in {workCache, work} /\ hydCache' \in {hydCache, hyd}
BY DEF Worker, Next, vars, ObserveObject, ObserveWork, Resync, AgentReports, UserEdits, HubChanges

LEMMA PlatformKept == ASSUME Shape, Identity, [Next]_vars PROVE hyd'.platform = hyd.platform
<1>1. CASE ScaffoldSpec
  BY <1>1, ScaffoldShape
<1>2. CASE UNCHANGED hyd
  BY <1>2
<1>3. CASE ReportNotConfigured
  BY <1>3, ReportShape DEF SameObject
<1>4. CASE PatchStatus /\ hyd' \in Patches(mem.o.status, mem.status)
  BY <1>4, PatchesShape DEF SameObject, Shape
<1>5. CASE PlatformReady /\ hyd' = [hyd EXCEPT !.ready = TRUE, !.status = mem.o.status]
  BY <1>5 DEF Shape, IsObject
<1>6. CASE UserEdits
  BY <1>6 DEF UserEdits, Shape, IsObject
<1> QED
  BY <1>1, <1>2, <1>3, <1>4, <1>5, <1>6
     DEF Next, Step, vars, Start, BadPrincipal, PlatformReady, Validate, CheckSet, CheckBindings,
         CheckCluster, CheckMember, Reject, GetWork, LoadManifests, LoadReferenceSecrets,
         EnsureConfiguration, WriteWork, PatchStatus, Panic, Crash, ObserveObject, ObserveWork,
         Resync, AgentReports, HubChanges

\* The worker's copy is the object it began with, or what its own patches have made of it.
LEMMA CopyKept ==
  ASSUME Shape, [Next]_vars, pc' # "idle"
  PROVE  \/ Start \/ ScaffoldSpec \/ PlatformReady
         \/ pc # "idle" /\ mem'.o = mem.o
BY OthersWait
   DEF Worker, Step, BadPrincipal, Validate, CheckSet, CheckBindings, CheckCluster, CheckMember, Reject,
       GetWork, LoadManifests, LoadReferenceSecrets, EnsureConfiguration, WriteWork, PatchStatus, Panic,
       Crash, Requeue, Done, Return, Shape, IsMemory, IsWork

LEMMA CacheKept == ASSUME [Next]_vars PROVE hydCache' \in {hydCache, hyd}
BY OthersWait
   DEF Worker, Step, Start, ScaffoldSpec, BadPrincipal, PlatformReady, Validate, CheckSet,
       CheckBindings, CheckCluster, CheckMember, GetWork, LoadManifests, LoadReferenceSecrets,
       EnsureConfiguration, WriteWork, PatchStatus, Panic, Crash

LEMMA IdentityInit == Init => Identity
BY DEF Init, Identity

LEMMA NextIdentity == ASSUME Shape, Identity, [Next]_vars PROVE Identity'
<1>1. hydCache'.platform = hyd'.platform
  BY PlatformKept, CacheKept DEF Identity
<1> SUFFICES ASSUME pc' # "idle"
             PROVE  mem'.o.platform = hyd'.platform
  BY <1>1 DEF Identity
<1>2. CASE Start
  <2>1. mem'.o = hydCache
    BY <1>2 DEF Start, Nothing
  <2> QED BY <1>2, <2>1 DEF Start, Identity
<1>3. CASE ScaffoldSpec
  BY <1>3, ScaffoldShape
<1>4. CASE PlatformReady
  <2>1. mem'.o = hyd'
    BY <1>4 DEF PlatformReady, Requeue, Return, Shape, IsMemory
  <2> QED BY <2>1
<1>5. CASE ~ScaffoldSpec /\ pc # "idle" /\ mem'.o = mem.o
  BY <1>5, NamesKept, PlatformKept DEF Identity
<1> QED BY <1>2, <1>3, <1>4, <1>5, CopyKept

LEMMA TypesShape == TypeInv => Shape
BY DEF TypeInv, Sound, Memory, Object, Work, Conditions, Shape, IsObject, IsWork, IsMemory

LEMMA ShapeInvariant == Spec => [](Shape /\ Identity)
BY TypeInvariant, TypesShape, IdentityInit, NextIdentity, PTL DEF Spec

-----------------------------------------------------------------------------
(***************************************************************************)
(* The etcd key.  A work of any age that has a generated key has it among  *)
(* its secrets, where EtcdKeys looks; and from the read of the work to its *)
(* write a reconcile keeps what it has read.                               *)
(***************************************************************************)
Keyed(w) == w.key \in GeneratedKeys => "key" \in w.secrets

KeyInv ==
  /\ Keyed(work) /\ Keyed(workCache) /\ Keyed(mem.old)
  /\ pc = "write" =>
       /\ Keyed(mem.payload)
       /\ mem.old.key \in GeneratedKeys => mem.payload.key \notin GeneratedKeys \ {mem.old.key}

LEMMA KeyInit == Init => KeyInv
BY PayloadAssumption DEF Init, KeyInv, Keyed, Nothing, NoWork, PayloadAssumption

\* The key a reconcile puts into its payload.
LEMMA PayloadKey ==
  ASSUME Shape, KeyInv, EnsureConfiguration, pc' = "write"
  PROVE  /\ mem'.old = mem.old /\ Keyed(mem'.payload)
         /\ mem.old.key \in GeneratedKeys => mem'.payload.key \notin GeneratedKeys \ {mem.old.key}
<1> DEFINE found == {name \in Configuration(mem.o) : Found(mem.o, hub, mem.old, name)}
<1>1. PICK key \in KeysFor(mem.o) :
        mem' = [mem EXCEPT !.payload.key = key, !.payload.secrets = @ \cup found]
  BY DEF EnsureConfiguration, Requeue, Return
<1>2. mem'.old = mem.old /\ mem'.payload.key = key /\ found \subseteq mem'.payload.secrets
  BY <1>1 DEF Shape, IsMemory, IsWork
<1>3. ~ConfigurationMissing(mem.o, hub, mem.old)
  BY DEF EnsureConfiguration, Requeue, Return
<1>4. "key" \in mem.o.names => "key" \in found
  BY <1>3 DEF ConfigurationMissing, Configuration, ConfigurationSecrets
<1>5. key \in GeneratedKeys => "key" \in mem.o.names
  BY PayloadAssumption DEF PayloadAssumption, KeysFor, EtcdKeys
<1>6. mem.old.key \in GeneratedKeys => key \in {NoKey, UserKey, mem.old.key}
  BY DEF KeyInv, Keyed, KeysFor, EtcdKeys
<1> QED BY <1>2, <1>4, <1>5, <1>6, PayloadAssumption DEF PayloadAssumption, Keyed

LEMMA WorkCacheKept == ASSUME [Next]_vars PROVE workCache' \in {workCache, work}
BY OthersWait
   DEF Worker, Step, Start, ScaffoldSpec, BadPrincipal, PlatformReady, Validate, CheckSet,
       CheckBindings, CheckCluster, CheckMember, GetWork, LoadManifests, LoadReferenceSecrets,
       EnsureConfiguration, WriteWork, PatchStatus, Panic, Crash

LEMMA NextKey == ASSUME Shape, KeyInv, [Next]_vars PROVE KeyInv'
<1>1. Keyed(work')
  <2>1. CASE Writes
    <3>1. /\ work'.key = mem.payload.key /\ work'.secrets = mem.payload.secrets
          /\ pc = "write"
      BY <2>1 DEF Writes, WriteWork, Requeue, Return, Shape, IsMemory, IsWork
    <3> QED BY <3>1 DEF KeyInv, Keyed
  <2>2. CASE ~Writes
    BY <2>2, WorkKept DEF SameWork, KeyInv, Keyed
  <2> QED BY <2>1, <2>2
<1>2. Keyed(workCache')
  BY WorkCacheKept DEF KeyInv
<1> SUFFICES /\ Keyed(mem'.old)
             /\ pc' = "write" =>
                  /\ Keyed(mem'.payload)
                  /\ mem'.old.key \in GeneratedKeys =>
                       mem'.payload.key \notin GeneratedKeys \ {mem'.old.key}
  BY <1>1, <1>2 DEF KeyInv
<1>3. CASE ~Worker
  BY <1>3, OthersWait DEF KeyInv
<1>4. CASE mem' = Nothing /\ pc' = "idle"
  BY <1>4, PayloadAssumption DEF Nothing, NoWork, Keyed, PayloadAssumption
<1>5. CASE Start
  BY <1>5, PayloadAssumption DEF Start, Nothing, NoWork, Keyed, PayloadAssumption
<1>6. CASE GetWork
  <2>1. mem'.old = workCache /\ pc' = "manifests"
    BY <1>6 DEF GetWork, Goto, Shape, IsMemory
  <2> QED BY <2>1 DEF KeyInv
<1>7. CASE pc' # "idle" /\ EnsureConfiguration
  <2>1. pc' = "write"
    BY <1>7 DEF EnsureConfiguration, Goto, Requeue, Return
  <2> QED BY <1>7, <2>1, PayloadKey DEF KeyInv
<1>8. CASE pc' # "idle" /\ (\/ ScaffoldSpec \/ PlatformReady \/ Validate \/ CheckSet \/ CheckBindings
                            \/ CheckCluster \/ CheckMember \/ LoadManifests
                            \/ LoadReferenceSecrets \/ WriteWork)
  <2>1. mem'.old = mem.old /\ pc' # "write"
    BY <1>8 DEF ScaffoldSpec, PlatformReady, Validate, CheckSet, CheckBindings, CheckCluster,
                CheckMember, LoadManifests, LoadReferenceSecrets, WriteWork, Reject, Requeue, Done,
                Return, Goto, Shape, IsMemory
  <2> QED BY <2>1 DEF KeyInv
<1> QED
  BY <1>3, <1>4, <1>5, <1>6, <1>7, <1>8
     DEF Worker, Step, ScaffoldSpec, BadPrincipal, PlatformReady, Validate, CheckSet, CheckBindings,
         CheckCluster, CheckMember, LoadManifests, LoadReferenceSecrets, EnsureConfiguration,
         WriteWork, PatchStatus, Panic, Crash, Reject, Requeue, Done, Return, Goto

(***************************************************************************)
(* A generated etcd key that a reconcile has read in the ManifestWork is   *)
(* not replaced by another generated one, in whatever order reconciles,    *)
(* crashes, reports, edits and changes on the hub come, and on caches of   *)
(* any age: what remains is a reconcile that has not seen the key.         *)
(***************************************************************************)
THEOREM SeenKeyStays == Spec => SeenKeyKept
<1>1. ASSUME Shape, KeyInv, [Next]_vars
      PROVE  [work.key \in GeneratedKeys /\ mem.old.key = work.key
              => work'.key \notin GeneratedKeys \ {work.key}]_vars
  <2>1. CASE Writes
    BY <1>1, <2>1 DEF Writes, WriteWork, Requeue, Return, KeyInv, Shape, IsMemory, IsWork
  <2> QED BY <1>1, <2>1, WorkKept DEF SameWork
<1> QED BY <1>1, KeyInit, NextKey, ShapeInvariant, PTL DEF Spec, SeenKeyKept

-----------------------------------------------------------------------------
(***************************************************************************)
(* The security constraints.  Every fact a check has found is one of those *)
(* there were since the reconcile began.                                   *)
(***************************************************************************)
Passed ==
  /\ HostingCluster \in seen
  /\ \E s \in ClusterSets :
       {Exists(s), Bound(s), Selects(s)} \subseteq seen /\ mem.o.set \in {s, NoSet}

AfterChecks == {"work", "manifests", "secrets", "configuration", "write"}

SecInv ==
  /\ pc # "idle" => fleet \subseteq seen
  /\ pc \in {"cluster", "member"} =>
       \A s \in mem.sets : Bound(s) \in seen /\ mem.o.set \in {s, NoSet}
  /\ pc = "member" => HostingCluster \in seen
  /\ pc \in AfterChecks => Passed

LEMMA SecInit == Init => SecInv
BY DEF Init, SecInv, AfterChecks

\* The worker goes on with what it knows, and there are as many facts as before.
LEMMA SecKept ==
  ASSUME SecInv, seen \subseteq seen', fleet' \subseteq seen', mem'.o = mem.o, mem'.sets = mem.sets,
         pc' = pc \/ (pc \in AfterChecks /\ pc' \notin {"cluster", "member"})
  PROVE  SecInv'
<1>1. Passed => Passed'
  BY DEF Passed
<1> QED BY <1>1 DEF SecInv, AfterChecks

LEMMA BindingsFound ==
  ASSUME Shape, SecInv, CheckBindings, pc' # "idle"
  PROVE  /\ pc' = "cluster" /\ mem'.o = mem.o
         /\ \A s \in mem'.sets : Bound(s) \in fleet /\ mem.o.set \in {s, NoSet}
<1>1. /\ BindingsSuffice(mem.o, BoundSets) /\ pc' = "cluster"
      /\ mem' = [mem EXCEPT !.sets = IF mem.o.set = NoSet THEN BoundSets ELSE {mem.o.set}]
  BY DEF CheckBindings, Reject, Requeue, Return, Goto
<1>2. mem'.o = mem.o /\ mem'.sets = IF mem.o.set = NoSet THEN BoundSets ELSE {mem.o.set}
  BY <1>1 DEF Shape, IsMemory
<1> QED BY <1>1, <1>2 DEF BindingsSuffice, BoundSets

LEMMA MemberFound ==
  ASSUME SecInv, CheckMember, pc' # "idle"
  PROVE  pc' = "work" /\ Passed /\ UNCHANGED <<mem, seen, fleet>>
<1>1. /\ IsClusterInClusterSet(mem.sets) /\ pc = "member" /\ pc' = "work"
      /\ UNCHANGED <<mem, seen, fleet>>
  BY DEF CheckMember, Reject, Requeue, Return, Goto, hubVars
<1>2. PICK s \in ClusterSets : Exists(s) \in fleet /\ Selects(s) \in fleet /\ s \in mem.sets
  BY <1>1 DEF IsClusterInClusterSet, SetsOfCluster
<1> QED BY <1>1, <1>2 DEF SecInv, Passed

LEMMA NextSec ==
  ASSUME ValidateClusterSecurity, Shape, SecInv, [Next]_vars PROVE SecInv'
<1>1. CASE pc' = "idle"
  BY <1>1 DEF SecInv, AfterChecks
<1> SUFFICES ASSUME pc' # "idle" PROVE SecInv'
  BY <1>1
<1>2. CASE ~Worker
  <2>1. seen \subseteq seen' /\ fleet' \subseteq seen'
    BY <1>2, OthersWait
       DEF Worker, Next, vars, hubVars, ObserveObject, ObserveWork, Resync, AgentReports, UserEdits,
           HubChanges, SecInv
  <2> QED BY <1>2, <2>1, OthersWait, SecKept
<1>3. CASE Start
  BY <1>3 DEF Start, SecInv, AfterChecks, hubVars
<1>4. CASE ScaffoldSpec \/ PlatformReady \/ Validate \/ CheckSet
  <2>1. /\ pc # "idle" /\ pc' \in {"ready", "validate", "set", "bindings"}
        /\ UNCHANGED <<seen, fleet>>
    BY <1>4 DEF ScaffoldSpec, PlatformReady, Validate, CheckSet, Reject, Done, Requeue, Return, Goto,
                hubVars
  <2> QED BY <2>1 DEF SecInv, AfterChecks
<1>5. CASE CheckBindings
  <2>1. pc # "idle" /\ UNCHANGED <<seen, fleet>>
    BY <1>5 DEF CheckBindings, Reject, Requeue, Return, Goto, hubVars
  <2> QED BY <1>5, <2>1, BindingsFound DEF SecInv, AfterChecks
<1>6. CASE CheckCluster
  BY <1>6 DEF CheckCluster, Reject, Requeue, Return, Goto, hubVars, SecInv, AfterChecks
<1>7. CASE CheckMember
  BY <1>7, MemberFound DEF SecInv, AfterChecks, Passed, CheckMember
<1>8. CASE GetWork \/ LoadManifests \/ LoadReferenceSecrets \/ EnsureConfiguration \/ WriteWork
  <2>1. /\ pc \in AfterChecks /\ pc' \notin {"cluster", "member"} /\ UNCHANGED <<seen, fleet>>
        /\ mem'.o = mem.o /\ mem'.sets = mem.sets
    BY <1>8 DEF GetWork, LoadManifests, LoadReferenceSecrets, EnsureConfiguration, WriteWork, Reject,
                Requeue, Return, Goto, hubVars, AfterChecks, Shape, IsMemory
  <2> QED BY <2>1, SecKept DEF SecInv, AfterChecks
<1> QED
  BY <1>2, <1>3, <1>4, <1>5, <1>6, <1>7, <1>8
     DEF Worker, Step, BadPrincipal, PatchStatus, Panic, Crash, Requeue, Done, Return

(***************************************************************************)
(* With ValidateClusterSecurity no ManifestWork is written without every   *)
(* fact validateSecurityConstraints asks for having held since the         *)
(* reconcile began, whatever happens to cluster sets, bindings and         *)
(* clusters between the checks.                                            *)
(***************************************************************************)
THEOREM OnlyCheckedWorkWritten == Spec => CheckedBeforeWritten
<1>1. ASSUME ValidateClusterSecurity, SecInv
      PROVE  pc = "write" /\ pc' = "report" => Passed
  BY <1>1 DEF SecInv, AfterChecks
<1>2. CASE ValidateClusterSecurity
  <2>1. ASSUME SecInv
        PROVE  [ValidateClusterSecurity /\ pc = "write" /\ pc' = "report" => Passed]_vars
    BY <1>1, <1>2, <2>1
  <2> QED BY <1>2, <2>1, SecInit, NextSec, ShapeInvariant, PTL
          DEF Spec, CheckedBeforeWritten, Passed
<1>3. CASE ~ValidateClusterSecurity
  BY <1>3, PTL DEF CheckedBeforeWritten
<1> QED BY <1>2, <1>3

-----------------------------------------------------------------------------
(***************************************************************************)
(* The payload has what its HostedCluster names.  The names are settled    *)
(* before the configuration is looked up, and what is not found then is    *)
(* not written.                                                            *)
(***************************************************************************)
Excused == IF hyd.platform = "AWS" THEN {} ELSE ReferenceSecrets

KnownNames == hyd.names \subseteq Names /\ hydCache.names \subseteq Names /\ mem.o.names \subseteq Names

ClosedInv ==
  /\ KnownNames /\ PayloadClosed
  /\ pc = "configuration" =>
       /\ mem.payload.names = NamedWith(mem.o, mem.provider)
       /\ mem.payload.secrets = ReferenceSecretsFor(mem.o, mem.provider)
  /\ pc = "write" => mem.payload.names \ mem.payload.secrets \subseteq Excused

LEMMA ClosedInit == Init => ClosedInv
BY ContentAssumption
   DEF Init, ClosedInv, KnownNames, PayloadClosed, NoWork, Nothing, ZeroObject, Object

\* The scaffolding names nothing the payload could not have.
LEMMA ScaffoldNames ==
  ASSUME Shape, KnownNames, ScaffoldSpec, hyd' # hyd
  PROVE  hyd'.names \subseteq Names
<1>1. hyd' = Patched(Scaffolded(mem.o))
  BY DEF ScaffoldSpec
<1>2. Scaffolded(mem.o).names \subseteq Names
  BY DEF Scaffolded, Shape, IsMemory, IsObject, KnownNames, Names, ReferenceSecrets,
         ConfigurationSecrets
<1> QED BY <1>1, <1>2 DEF Patched, Merge, Shape, IsObject, KnownNames

LEMMA NextNames ==
  ASSUME Shape, Identity, KnownNames, [Next]_vars PROVE KnownNames'
<1>1. hyd'.names \subseteq Names
  BY NamesKept, ScaffoldNames DEF KnownNames
<1>2. hydCache' \in {hydCache, hyd}
  BY OthersWait
     DEF Worker, Step, Start, ScaffoldSpec, BadPrincipal, PlatformReady, Validate, CheckSet,
         CheckBindings, CheckCluster, CheckMember, GetWork, LoadManifests, LoadReferenceSecrets,
         EnsureConfiguration, WriteWork, PatchStatus, Panic, Crash
<1>3. CASE mem'.o \in {mem.o, hydCache, hyd', ZeroObject}
  BY <1>1, <1>2, <1>3 DEF KnownNames, ZeroObject
<1>4. mem'.o \in {mem.o, hydCache, hyd', ZeroObject}
  <2>1. CASE Return
    BY <2>1 DEF Return, Nothing
  <2>2. CASE ~Worker
    BY <2>2, OthersWait
  <2>3. CASE Start
    BY <2>3 DEF Start, Nothing
  <2>4. CASE ~Return /\ (ScaffoldSpec \/ PlatformReady)
    BY <2>4 DEF ScaffoldSpec, PlatformReady, Requeue, Shape, IsMemory
  <2>5. CASE ~Return /\ (Validate \/ CheckSet \/ CheckBindings \/ CheckCluster \/ CheckMember)
    BY <2>5 DEF Validate, CheckSet, CheckBindings, CheckCluster, CheckMember, Reject, Requeue, Done,
                Shape, IsMemory
  <2>6. CASE ~Return /\ (GetWork \/ LoadManifests \/ LoadReferenceSecrets \/ EnsureConfiguration)
    BY <2>6 DEF GetWork, LoadManifests, LoadReferenceSecrets, EnsureConfiguration, Reject, Requeue,
                Shape, IsMemory, IsWork
  <2>7. CASE ~Return /\ (WriteWork \/ PatchStatus)
    BY <2>7 DEF WriteWork, PatchStatus, Requeue, Done, Shape, IsMemory
  <2> QED
    BY <2>1, <2>2, <2>3, <2>4, <2>5, <2>6, <2>7
       DEF Worker, Step, BadPrincipal, Panic, Crash, Requeue, Done
<1> QED BY <1>3, <1>4

\* What ensureConfiguration makes of the payload that has its reference secrets.
LEMMA PayloadFilled ==
  ASSUME Shape, Identity, ClosedInv, EnsureConfiguration, pc' = "write"
  PROVE  mem'.payload.names \ mem'.payload.secrets \subseteq Excused
<1> DEFINE found == {name \in Configuration(mem.o) : Found(mem.o, hub, mem.old, name)}
<1>1. PICK key \in KeysFor(mem.o) :
        mem' = [mem EXCEPT !.payload.key = key, !.payload.secrets = @ \cup found]
  BY DEF EnsureConfiguration, Requeue, Return
<1>2. /\ mem'.payload.names = mem.payload.names
      /\ mem'.payload.secrets = mem.payload.secrets \cup found
  BY <1>1 DEF Shape, IsMemory, IsWork
<1>3. found = Configuration(mem.o) /\ pc = "configuration"
  BY DEF EnsureConfiguration, Requeue, Return, ConfigurationMissing
<1>4. mem.o.names \subseteq ReferenceSecrets \cup Configuration(mem.o)
  BY DEF ClosedInv, KnownNames, Names, Configuration
<1>5. CASE GivesUp(mem.o, mem.provider)
  <2>1. mem.payload.names = mem.o.names /\ hyd.platform = "Azure"
    BY <1>3, <1>5 DEF ClosedInv, NamedWith, GivesUp, Identity
  <2> QED BY <1>2, <1>3, <1>4, <2>1 DEF Excused
<1>6. CASE ~GivesUp(mem.o, mem.provider)
  <2>1. mem.payload.secrets = mem.payload.names \cap ReferenceSecrets
    BY <1>3, <1>6 DEF ClosedInv, ReferenceSecretsFor
  <2>2. mem.payload.names \subseteq mem.o.names \cup ReferenceSecrets
    BY <1>3 DEF ClosedInv, NamedWith, ReferenceSecrets
  <2> QED BY <1>2, <1>3, <1>4, <2>1, <2>2
<1> QED BY <1>5, <1>6

LEMMA NextClosed ==
  ASSUME Shape, Identity, ClosedInv, [Next]_vars PROVE ClosedInv'
<1>1. KnownNames' /\ Excused' = Excused
  BY NextNames, PlatformKept DEF ClosedInv, Excused
<1>2. PayloadClosed'
  <2>1. CASE Writes
    <3>1. work'.names = mem.payload.names /\ work'.secrets = mem.payload.secrets /\ pc = "write"
      BY <2>1 DEF Writes, WriteWork, Requeue, Return, Shape, IsMemory, IsWork
    <3> QED BY <1>1, <3>1 DEF ClosedInv, PayloadClosed, Excused
  <2>2. CASE ~Writes
    BY <1>1, <2>2, WorkKept DEF SameWork, ClosedInv, PayloadClosed, Excused
  <2> QED BY <2>1, <2>2
<1>3. CASE pc' \notin {"configuration", "write"}
  BY <1>1, <1>2, <1>3 DEF ClosedInv
<1>4. CASE ~Worker
  BY <1>1, <1>2, <1>4, OthersWait DEF ClosedInv
<1>5. CASE LoadReferenceSecrets /\ pc' = "configuration"
  <2>1. /\ mem'.payload.names = NamedWith(mem.o, mem.provider)
        /\ mem'.payload.secrets = ReferenceSecretsFor(mem.o, mem.provider)
        /\ mem'.o = mem.o /\ mem'.provider = mem.provider
    BY <1>5 DEF LoadReferenceSecrets, Requeue, Return, Shape, IsMemory, IsWork
  <2> QED BY <1>1, <1>2, <1>5, <2>1 DEF ClosedInv
<1>6. CASE EnsureConfiguration /\ pc' = "write"
  BY <1>1, <1>2, <1>6, PayloadFilled DEF ClosedInv
<1>7. CASE UNCHANGED vars
  BY <1>1, <1>2, <1>7 DEF ClosedInv, vars
<1> QED
  BY <1>3, <1>4, <1>5, <1>6, <1>7
     DEF Worker, Step, Start, ScaffoldSpec, BadPrincipal, PlatformReady, Validate, CheckSet,
         CheckBindings, CheckCluster, CheckMember, Reject, GetWork, LoadManifests,
         LoadReferenceSecrets, EnsureConfiguration, WriteWork, PatchStatus, Panic, Crash, Requeue,
         Done, Return, Goto

(***************************************************************************)
(* No ManifestWork is ever without a configuration secret or config map    *)
(* its HostedCluster names, nor, on AWS, without a pull secret or ssh key, *)
(* whatever is created and deleted on the hub while a reconcile runs.      *)
(***************************************************************************)
THEOREM PayloadIsClosed == Spec => []PayloadClosed
BY ClosedInit, NextClosed, ShapeInvariant, PTL DEF Spec, ClosedInv
-----------------------------------------------------------------------------
(***************************************************************************)
(* The tags.  A reconcile scaffolds only an object whose platform is not   *)
(* ready, a work is written only for one that is, and ready stays ready.   *)
(***************************************************************************)
Scaffolding == {"scaffold", "ready"}
PastScaffolding == {"validate", "set", "bindings", "cluster", "member", "work", "manifests",
                    "secrets", "configuration", "write", "report"}

Finished(o) == o.configure => o.ready

TagInv ==
  /\ work.exists => Finished(hyd)
  /\ pc \in Scaffolding => ~work.exists
  /\ pc \in PastScaffolding => Finished(hyd)

\* Nothing but the scaffolding writes the tags, and no platform is less ready than it was.
LEMMA TagsKept ==
  ASSUME Shape, [Next]_vars
  PROVE  /\ Finished(hyd) => Finished(hyd')
         /\ ~ScaffoldSpec => hyd'.tags = hyd.tags
<1> USE DEF Finished
<1>1. CASE UNCHANGED hyd
  BY <1>1
<1>2. ASSUME NEW base, NEW status, hyd' \in Patches(base, status)
      PROVE  hyd'.tags = hyd.tags /\ hyd'.configure = hyd.configure /\ hyd'.ready = hyd.ready
  BY <1>2 DEF Patches, Shape, IsObject
<1>3. CASE ReportNotConfigured
  BY <1>2, <1>3 DEF ReportNotConfigured
<1>4. CASE PatchStatus /\ hyd' \in Patches(mem.o.status, mem.status)
  BY <1>2, <1>4
<1>5. CASE PlatformReady /\ hyd' = [hyd EXCEPT !.ready = TRUE, !.status = mem.o.status]
  BY <1>5 DEF Shape, IsObject
<1>6. CASE UserEdits
  BY <1>6 DEF UserEdits, Shape, IsObject
<1>7. CASE ScaffoldSpec
  BY <1>1, <1>7 DEF ScaffoldSpec, Patched, Shape, IsObject
<1> QED
  BY <1>1, <1>3, <1>4, <1>5, <1>6, <1>7
     DEF Next, Step, vars, Start, BadPrincipal, PlatformReady, Validate, CheckSet, CheckBindings,
         CheckCluster, CheckMember, Reject, GetWork, LoadManifests, LoadReferenceSecrets,
         EnsureConfiguration, WriteWork, PatchStatus, Panic, Crash, ObserveObject, ObserveWork,
         Resync, AgentReports, HubChanges

\* A work is there only once it is written.
LEMMA WorkAppears ==
  ASSUME Shape, [Next]_vars, ~Writes PROVE work'.exists = work.exists
<1>1. CASE UNCHANGED work
  BY <1>1
<1>2. CASE AgentReports
  BY <1>2 DEF AgentReports, Shape, IsWork
<1> QED
  BY <1>1, <1>2
     DEF Next, Step, vars, Start, ScaffoldSpec, BadPrincipal, PlatformReady, Validate, CheckSet,
         CheckBindings, CheckCluster, CheckMember, GetWork, LoadManifests, LoadReferenceSecrets,
         EnsureConfiguration, WriteWork, Writes, Goto, PatchStatus, Panic, Crash, ObserveObject,
         ObserveWork, Resync, UserEdits, HubChanges

LEMMA TagInit == Init => TagInv
BY DEF Init, TagInv, NoWork, Scaffolding, PastScaffolding

LEMMA NextTags == ASSUME ReadsOwnWrites, Shape, TagInv, [Next]_vars PROVE TagInv'
<1> USE TagsKept
<1>1. CASE Writes
  <2>1. pc = "write" /\ pc' = "report"
    BY <1>1 DEF Writes, WriteWork
  <2> QED BY <2>1 DEF TagInv, Scaffolding, PastScaffolding
<1> SUFFICES ASSUME ~Writes PROVE TagInv'
  BY <1>1
<1>2. work'.exists = work.exists
  BY WorkAppears
<1>3. CASE pc' = "idle"
  BY <1>2, <1>3 DEF TagInv, Scaffolding, PastScaffolding
<1>4. CASE ~Worker
  BY <1>2, <1>4, OthersWait DEF TagInv
<1>5. CASE Start
  BY <1>2, <1>5 DEF Start, TagInv, Finished, Scaffolding, PastScaffolding
<1>6. CASE pc' # "idle" /\ ScaffoldSpec
  BY <1>2, <1>6 DEF ScaffoldSpec, Goto, Requeue, Return, TagInv, Scaffolding, PastScaffolding
<1>7. CASE pc' # "idle" /\ PlatformReady
  <2>1. hyd' = [hyd EXCEPT !.ready = TRUE, !.status = mem.o.status] /\ pc' = "validate"
    BY <1>7 DEF PlatformReady, Goto, Requeue, Return
  <2>2. Finished(hyd')
    BY <2>1 DEF Finished, Shape, IsObject
  <2> QED BY <1>2, <2>1, <2>2 DEF TagInv, Scaffolding
<1>8. CASE pc' # "idle" /\ (\/ Validate \/ CheckSet \/ CheckBindings \/ CheckCluster \/ CheckMember
                            \/ GetWork \/ LoadManifests \/ LoadReferenceSecrets
                            \/ EnsureConfiguration \/ WriteWork)
  <2>1. pc \in PastScaffolding /\ pc' \in PastScaffolding
    BY <1>8 DEF Validate, CheckSet, CheckBindings, CheckCluster, CheckMember, Reject, GetWork,
                LoadManifests, LoadReferenceSecrets, EnsureConfiguration, WriteWork, Requeue, Done,
                Return, Goto, PastScaffolding
  <2> QED BY <1>2, <2>1 DEF TagInv, Scaffolding, PastScaffolding
<1> QED
  BY <1>3, <1>4, <1>5, <1>6, <1>7, <1>8
     DEF Worker, Step, BadPrincipal, PatchStatus, Panic, Crash, Requeue, Done, Return

(***************************************************************************)
(* The tries of the scaffolding, each of which appends the owner's tag,    *)
(* are over before there is a ManifestWork, whatever fails and is tried    *)
(* again: a HostedCluster that is deployed gets no new tags.               *)
(***************************************************************************)
THEOREM ScaffoldingIsOver == ASSUME ReadsOwnWrites = TRUE PROVE Spec => TagsSettled
<1>1. Shape /\ TagInv /\ [Next]_vars => [work.exists => hyd'.tags = hyd.tags]_vars
  <2> SUFFICES ASSUME Shape, TagInv, [Next]_vars, work.exists PROVE hyd'.tags = hyd.tags
    OBVIOUS
  <2>1. ~ScaffoldSpec
    BY DEF ScaffoldSpec, TagInv, Scaffolding
  <2> QED BY <2>1, TagsKept
<1>2. Shape /\ TagInv /\ [Next]_vars => TagInv'
  BY NextTags
<1> QED BY <1>1, <1>2, TagInit, ShapeInvariant, PTL DEF Spec, TagsSettled-----------------------------------------------------------------------------
(***************************************************************************)
(* The status.  What a reconcile syncs into its copy is the truth about    *)
(* the object and the reports it has read.  As long as its key is not in   *)
(* the queue again, these are the ones in the caches, so a worker that has *)
(* come to the end either has said the truth of them or has written        *)
(* something the caches do not have yet.                                   *)
(***************************************************************************)
TruthOf(o, w) ==
  /\ TellsTruth(o.status.nodePool, PoolNamesOf(o), w.reports)
  /\ TellsTruth(o.status.available, {HostedCluster}, w.reports)
  /\ w.pools = DeployedPools(o)

Told(o, w) == Synced(o.status, PoolNamesOf(o), w.reports)

\* A platform that the cache does not say is ready.
Advanced == hyd.ready /\ ~hydCache.ready

Reading == {"validate", "set", "bindings", "cluster", "member", "work"}
Making  == {"manifests", "secrets", "configuration", "write"}

\* What the worker knows of its object.
CopyTold ==
  /\ pc \in Scaffolding => ~hydCache.ready
  /\ pc = "scaffold" => ~GivesUp(mem.o, mem.provider)
  /\ pc \in PastScaffolding => mem.o = hydCache \/ Advanced
  /\ pc \in Scaffolding \cup Reading => mem.status = mem.o.status
  /\ pc \in Making => mem.status = Told(mem.o, workCache)
  /\ pc \in Making \ {"manifests"} => mem.payload.pools = DeployedPools(mem.o)
  /\ pc = "report" => /\ mem.status = [Told(mem.o, workCache) EXCEPT !.work = "True"]
                      /\ work.pools = DeployedPools(mem.o)

\* What it has left behind when it is idle.
AllTold ==
  \/ Advanced \/ hyd.status # hydCache.status \/ work.pools # workCache.pools
  \/ hydCache.status.work # "True"
  \/ TruthOf(hydCache, workCache)

StatusInv ==
  /\ OneHostedCluster(work.reports) /\ OneHostedCluster(workCache.reports)
  /\ ~queued => CopyTold /\ (pc = "idle" => AllTold)

LEMMA StatusInit == Init => StatusInv
BY DEF Init, StatusInv, NoWork, OneHostedCluster

\* A HostedCluster has one report, so the last one is the only one.
LEMMA OneSaid ==
  ASSUME NEW reports, OneHostedCluster(reports),
         NEW a \in StatusesOf({HostedCluster}, reports), NEW b \in StatusesOf({HostedCluster}, reports)
  PROVE  a = b
BY DEF StatusesOf, OneHostedCluster, Counts

LEMMA SyncedTells ==
  ASSUME NEW status \in Conditions, NEW pools, NEW reports \in Seq(Report), OneHostedCluster(reports),
         NEW told, told = [Synced(status, pools, reports) EXCEPT !.work = "True"]
  PROVE  /\ TellsTruth(told.nodePool, pools, reports)
         /\ TellsTruth(told.available, {HostedCluster}, reports)
<1> DEFINE new == Feedback(pools, reports)
<1>1. /\ WorstOf(new.nodePool, StatusesOf(pools, reports))
      /\ OneOf(new.available, StatusesOf({HostedCluster}, reports))
  BY FeedbackTells
<1> HIDE DEF new
<1>2. /\ told.nodePool = IF new.nodePool = "none" THEN status.nodePool ELSE new.nodePool
      /\ told.available = IF new.available = "none" THEN status.available ELSE new.available
  BY DEF Synced, new, Conditions
<1>3. TellsTruth(told.nodePool, pools, reports)
  BY <1>1, <1>2 DEF WorstOf, OneOf, TellsTruth
<1>4. TellsTruth(told.available, {HostedCluster}, reports)
  <2> DEFINE said == StatusesOf({HostedCluster}, reports)
  <2>1. \A a, b \in said : a = b
    BY OneSaid
  <2>2. said # {} => told.available \in said
    BY <1>1, <1>2 DEF OneOf
  <2> HIDE DEF said
  <2>3. TellsTruth(told.available, {HostedCluster}, reports) <=>
          (said # {} => told.available \in (IF said = {"True"} THEN said ELSE said \ {"True"}))
    BY DEF TellsTruth, said
  <2> QED BY <2>1, <2>2, <2>3
<1> QED BY <1>3, <1>4

-----------------------------------------------------------------------------
(* The steps. *)

\* Once it is in the queue again, a key stays there until the next reconcile.
LEMMA StaysQueued ==
  ASSUME TypeInv, [Next]_vars, ~Start, ~queued'
  PROVE  ~queued /\ UNCHANGED <<hydCache, workCache>>
<1>1. CASE ~Worker
  BY <1>1 DEF Worker, Next, vars, ObserveObject, ObserveWork, Resync, AgentReports, UserEdits, HubChanges
<1>2. CASE Step
  <2>1. ~Requeue /\ ~Reject
    BY DEF Requeue, Reject
  <2>2. UNCHANGED <<hydCache, workCache>> /\ UNCHANGED queued
    BY <1>2, <2>1
       DEF Step, ScaffoldSpec, BadPrincipal, PlatformReady, Validate, CheckSet, CheckBindings,
           CheckCluster, CheckMember, GetWork, LoadManifests, LoadReferenceSecrets,
           EnsureConfiguration, WriteWork, PatchStatus, Done, Goto
  <2> QED BY <2>2
<1>3. ~Panic /\ ~Crash
  BY DEF Panic, Crash, Requeue
<1> QED BY <1>1, <1>2, <1>3 DEF Worker

LEMMA ReportsKept ==
  ASSUME TypeInv, StatusInv, [Next]_vars
  PROVE  OneHostedCluster(work'.reports) /\ OneHostedCluster(workCache'.reports)
<1>1. work'.reports = work.reports \/ work'.reports \in AgentSays
  <2>1. CASE UNCHANGED work
    BY <2>1
  <2>2. CASE AgentReports
    BY <2>2 DEF AgentReports, TypeInv, Work
  <2>3. CASE work' = [mem.payload EXCEPT !.exists = TRUE, !.reports = work.reports]
    BY <2>3 DEF TypeInv, Memory, Work
  <2> QED
    BY <2>1, <2>2, <2>3
       DEF Next, Step, vars, Start, ScaffoldSpec, BadPrincipal, PlatformReady, Validate, CheckSet,
           CheckBindings, CheckCluster, CheckMember, GetWork, LoadManifests, LoadReferenceSecrets,
           EnsureConfiguration, WriteWork, PatchStatus, Panic, Crash, ObserveObject, ObserveWork,
           Resync, UserEdits, HubChanges
<1>2. workCache' \in {workCache, work}
  BY OthersWait
     DEF Worker, Step, Start, ScaffoldSpec, BadPrincipal, PlatformReady, Validate, CheckSet,
         CheckBindings, CheckCluster, CheckMember, GetWork, LoadManifests, LoadReferenceSecrets,
         EnsureConfiguration, WriteWork, PatchStatus, Panic, Crash
<1> QED BY <1>1, <1>2, ContentAssumption DEF StatusInv

LEMMA StartTold ==
  ASSUME TypeInv, Start, ~queued' PROVE CopyTold' /\ pc' # "idle"
<1>1. mem'.o = hydCache /\ mem'.provider = provider /\ mem'.status = hydCache.status
  BY DEF Start, Nothing
<1>2. pc' \in {"scaffold", "validate"} /\ UNCHANGED <<hyd, hydCache>>
  BY DEF Start
<1>3. pc' = "scaffold" => hydCache.configure /\ ~hydCache.ready
  BY DEF Start
<1>4. pc' = "scaffold" => ~GivesUp(hydCache, provider)
  BY <1>3 DEF Start
<1> QED
  BY <1>1, <1>2, <1>3, <1>4 DEF CopyTold, Scaffolding, PastScaffolding, Reading, Making

\* A worker that looks on, with the object and its copy as they are.
LEMMA LookTold ==
  ASSUME CopyTold, UNCHANGED <<hyd, hydCache, workCache>>, pc \in Reading, pc' \in Reading,
         mem'.o = mem.o, mem'.status = mem.status
  PROVE  CopyTold'
BY DEF CopyTold, Advanced, Reading, Scaffolding, PastScaffolding, Making

LEMMA ScaffoldTold ==
  ASSUME TypeInv, CopyTold, ~queued', UNCHANGED hydCache, ScaffoldSpec \/ PlatformReady
  PROVE  CopyTold' /\ pc' # "idle"
<1>1. CASE ScaffoldSpec
  <2>1. mem'.o = hyd' /\ mem'.status = hyd'.status /\ pc' = "ready" /\ pc = "scaffold"
    BY <1>1 DEF ScaffoldSpec, Requeue, Goto, TypeInv, Memory
  <2> QED BY <2>1 DEF CopyTold, Scaffolding, PastScaffolding, Reading, Making
<1>2. CASE PlatformReady
  <2>1. /\ hyd' = [hyd EXCEPT !.ready = TRUE, !.status = mem.o.status]
        /\ mem' = [mem EXCEPT !.o = hyd'] /\ pc' = "validate" /\ pc = "ready"
    BY <1>2 DEF PlatformReady, Requeue, Goto
  <2>2. hyd'.ready /\ hyd'.status = mem.o.status
    BY <2>1 DEF TypeInv, Sound, Object
  <2>3. mem'.o = hyd' /\ mem'.status = mem.status
    BY <2>1 DEF TypeInv, Memory
  <2> QED
    BY <2>1, <2>2, <2>3 DEF CopyTold, Advanced, Scaffolding, PastScaffolding, Reading, Making
<1> QED BY <1>1, <1>2

\* An object that is not valid is not configured, or is not said to be.
LEMMA ValidateTold ==
  ASSUME TypeInv, CopyTold, ~queued', UNCHANGED <<hydCache, workCache>>, Validate
  PROVE  CopyTold' /\ (pc' = "idle" => AllTold')
<1>1. CASE Goto(IF ValidateClusterSecurity THEN "set" ELSE "work") /\ UNCHANGED <<hyd, mem>>
  BY <1>1, LookTold DEF Validate, Goto, Reading
<1>2. CASE ReportNotConfigured /\ Done
  <2>1. mem.status = mem.o.status /\ (mem.o = hydCache \/ Advanced) /\ pc' = "idle"
    BY <1>2 DEF CopyTold, Validate, Reading, PastScaffolding, Done, Return
  <2>2. NotConfigured.work = "False"
    BY DEF NotConfigured, TypeInv, Memory, Conditions
  <2>3. CASE hyd' = [hyd EXCEPT !.status = NotConfigured]
    <3>1. hyd'.status = NotConfigured
      BY <2>3 DEF TypeInv, Sound, Object
    <3> QED BY <2>1, <2>2, <3>1
            DEF AllTold, CopyTold, Scaffolding, PastScaffolding, Reading, Making
  <2>4. CASE hyd' = hyd /\ NotConfigured = mem.status
    BY <2>1, <2>2, <2>4
       DEF AllTold, Advanced, CopyTold, Scaffolding, PastScaffolding, Reading, Making
  <2> QED BY <1>2, <2>3, <2>4 DEF ReportNotConfigured, Patches
<1> QED BY <1>1, <1>2 DEF Validate, Requeue

LEMMA ChecksTold ==
  ASSUME TypeInv, CopyTold, ~queued', UNCHANGED <<hydCache, workCache>>,
         CheckSet \/ CheckBindings \/ CheckCluster \/ CheckMember
  PROVE  CopyTold' /\ pc' # "idle"
<1>1. /\ UNCHANGED hyd /\ pc \in Reading /\ pc' \in Reading
      /\ mem'.o = mem.o /\ mem'.status = mem.status
  BY DEF CheckSet, CheckBindings, CheckCluster, CheckMember, Reject, Requeue, Goto, Reading, TypeInv,
         Memory
<1> QED BY <1>1, LookTold DEF Reading

\* From the read of the work to its write the copy is not touched.
LEMMA MakeTold ==
  ASSUME TypeInv, CopyTold, ~queued', UNCHANGED <<hydCache, workCache>>,
         GetWork \/ LoadManifests \/ LoadReferenceSecrets \/ EnsureConfiguration
  PROVE  CopyTold' /\ pc' # "idle"
<1> USE DEF Scaffolding, PastScaffolding, Reading, Making
<1>1. CASE GetWork
  <2>1. /\ mem'.o = mem.o /\ UNCHANGED hyd /\ pc = "work" /\ pc' = "manifests"
        /\ mem'.status = Synced(mem.status, PoolNamesOf(mem.o), workCache.reports)
    BY <1>1 DEF GetWork, Goto, TypeInv, Memory
  <2> QED BY <2>1 DEF CopyTold, Advanced, Told
<1>2. CASE LoadManifests
  <2>1. /\ mem'.o = mem.o /\ UNCHANGED hyd /\ pc = "manifests" /\ pc' = "secrets"
        /\ mem'.status = mem.status /\ mem'.payload.pools = DeployedPools(mem.o)
    BY <1>2 DEF LoadManifests, Reject, Requeue, Goto, TypeInv, Memory, Work
  <2> QED BY <2>1 DEF CopyTold, Advanced
<1>3. CASE LoadReferenceSecrets
  <2>1. /\ mem'.o = mem.o /\ UNCHANGED hyd /\ pc = "secrets" /\ pc' = "configuration"
        /\ mem'.status = mem.status /\ mem'.payload.pools = mem.payload.pools
    BY <1>3 DEF LoadReferenceSecrets, Requeue, Goto, TypeInv, Memory, Work
  <2> QED BY <2>1 DEF CopyTold, Advanced
<1>4. CASE EnsureConfiguration
  <2>1. /\ mem'.o = mem.o /\ UNCHANGED hyd /\ pc = "configuration" /\ pc' = "write"
        /\ mem'.status = mem.status /\ mem'.payload.pools = mem.payload.pools
    BY <1>4 DEF EnsureConfiguration, Requeue, Goto, TypeInv, Memory, Work
  <2> QED BY <2>1 DEF CopyTold, Advanced
<1> QED BY <1>1, <1>2, <1>3, <1>4

LEMMA WriteTold ==
  ASSUME TypeInv, CopyTold, ~queued', UNCHANGED <<hydCache, workCache>>, WriteWork
  PROVE  CopyTold' /\ pc' # "idle"
<1>1. /\ work' = [mem.payload EXCEPT !.exists = TRUE, !.reports = work.reports]
      /\ mem' = [mem EXCEPT !.status.work = "True"]
      /\ pc = "write" /\ pc' = "report" /\ UNCHANGED hyd
  BY DEF WriteWork, Requeue, Goto
<1>2. work'.pools = mem.payload.pools
  BY <1>1 DEF TypeInv, Memory, Work
<1>3. mem'.o = mem.o /\ mem'.status = [mem.status EXCEPT !.work = "True"]
  BY <1>1 DEF TypeInv, Memory
<1> QED
  BY <1>1, <1>2, <1>3 DEF CopyTold, Advanced, Scaffolding, PastScaffolding, Reading, Making

\* The end of a reconcile that has gone all the way.
LEMMA PatchTold ==
  ASSUME TypeInv, StatusInv, CopyTold, ~queued', UNCHANGED <<hydCache, workCache>>, PatchStatus
  PROVE  CopyTold' /\ AllTold'
<1>1. /\ hyd' \in Patches(mem.o.status, mem.status) /\ pc = "report" /\ pc' = "idle" /\ UNCHANGED work
  BY DEF PatchStatus, Requeue, Done, Return
<1>2. /\ mem.status = [Told(mem.o, workCache) EXCEPT !.work = "True"]
      /\ work.pools = DeployedPools(mem.o) /\ (mem.o = hydCache \/ Advanced)
  BY <1>1 DEF CopyTold, PastScaffolding
<1>3. hyd'.ready = hyd.ready
  BY <1>1 DEF Patches, TypeInv, Sound, Object
<1>4. CASE Advanced
  BY <1>1, <1>3, <1>4
     DEF AllTold, Advanced, CopyTold, Scaffolding, PastScaffolding, Reading, Making
<1>5. CASE mem.o = hydCache
  <2>1. /\ TellsTruth(mem.status.nodePool, PoolNamesOf(hydCache), workCache.reports)
        /\ TellsTruth(mem.status.available, {HostedCluster}, workCache.reports)
    <3>1. hydCache.status \in Conditions /\ workCache.reports \in Seq(Report)
      BY DEF TypeInv, Sound, Object, Work
    <3> QED BY <1>2, <1>5, <3>1, SyncedTells DEF Told, StatusInv
  <2>2. hyd'.status = mem.status \/ (hyd' = hyd /\ mem.status = hydCache.status)
    BY <1>1, <1>5 DEF Patches, TypeInv, Sound, Object
  <2>3. hydCache.status = mem.status => AllTold'
    BY <1>1, <1>2, <1>5, <2>1 DEF AllTold, TruthOf
  <2>4. AllTold'
    BY <2>2, <2>3 DEF AllTold
  <2> QED BY <1>1, <2>4 DEF CopyTold, Scaffolding, PastScaffolding, Reading, Making
<1> QED BY <1>2, <1>4, <1>5

\* What is not the worker touches neither the status nor the node pools of the work.
LEMMA OthersTold ==
  ASSUME TypeInv, CopyTold, [Next]_vars, ~Worker, UNCHANGED <<hydCache, workCache>>
  PROVE  CopyTold' /\ (AllTold => AllTold')
<1>1. hyd'.ready = hyd.ready /\ hyd'.status = hyd.status
  BY DEF Worker, Next, vars, ObserveObject, ObserveWork, Resync, AgentReports, UserEdits, HubChanges,
         TypeInv, Sound, Object
<1>2. work'.pools = work.pools
  BY DEF Worker, Next, vars, ObserveObject, ObserveWork, Resync, AgentReports, UserEdits, HubChanges,
         TypeInv, Work
<1>3. UNCHANGED <<pc, mem>>
  BY OthersWait
<1> QED BY <1>1, <1>2, <1>3 DEF CopyTold, AllTold, Advanced

LEMMA NextStatus == ASSUME TypeInv, StatusInv, [Next]_vars PROVE StatusInv'
<1> SUFFICES ASSUME ~queued' PROVE CopyTold' /\ (pc' = "idle" => AllTold')
  BY ReportsKept DEF StatusInv
<1>1. CASE Start
  BY <1>1, StartTold
<1> SUFFICES ASSUME ~Start PROVE CopyTold' /\ (pc' = "idle" => AllTold')
  BY <1>1
<1>2. CopyTold /\ (pc = "idle" => AllTold) /\ UNCHANGED <<hydCache, workCache>>
  BY StaysQueued DEF StatusInv
<1>3. CASE ~Worker
  BY <1>2, <1>3, OthersTold, OthersWait
<1>4. CASE Step
  <2>1. ~BadPrincipal
    BY <1>2 DEF BadPrincipal, CopyTold
  <2> QED
    BY <1>2, <1>4, <2>1, ScaffoldTold, ValidateTold, ChecksTold, MakeTold, WriteTold, PatchTold
       DEF Step
<1>5. ~Panic /\ ~Crash
  BY DEF Panic, Crash, Requeue
<1> QED BY <1>3, <1>4, <1>5 DEF Worker

(***************************************************************************)
(* When the caches are caught up and nothing is left to do, the object     *)
(* says of its node pools and its HostedCluster what the agent reported of *)
(* them, in whatever order, and the ManifestWork has the node pools of the *)
(* object, also when a reconcile starts on caches that are behind: it ends *)
(* with the truth about what it has read, or with another reconcile.       *)
(***************************************************************************)
THEOREM StatusIsTrue == Spec => []SettledStatus
<1>1. TypeInv /\ StatusInv => SettledStatus
  <2> SUFFICES ASSUME TypeInv, StatusInv, Settled, hyd.status.work = "True" PROVE TruthOf(hyd, work)
    BY DEF SettledStatus, TruthOf
  <2> QED BY DEF StatusInv, Settled, AllTold, Advanced
<1>2. TypeInv /\ StatusInv /\ [Next]_vars => StatusInv'
  BY NextStatus
<1> QED BY <1>1, <1>2, StatusInit, TypeInvariant, PTL DEF Spec
=============================================================================
