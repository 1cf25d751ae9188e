-------------------------- MODULE ReferencesProofs --------------------------
(***************************************************************************)
(* Proofs about References: no order of cache updates, mappings and reads  *)
(* loses a change other than through the gaps, for any set of names, specs *)
(* and objects.                                                            *)
(*                                                                         *)
(* The heart are two lemmas.  UnnoticedChange: an update of the caches     *)
(* that announces nothing to a deployment leaves alone its manifest, the   *)
(* set of objects it depends on and, variables and endpoints aside, those  *)
(* objects.  HandleFollows: an event that was announced, or awaited,       *)
(* queues the deployment or falls into a gap when it is handled.           *)
(***************************************************************************)
EXTENDS References, FiniteSetTheorems, TLAPS

-----------------------------------------------------------------------------
(* Facts about the data *)

\* An object is a kind and a name.
LEMMA KeyIsPair ==
    ASSUME NEW k \in Keys
    PROVE  /\ k = <<k[1], k[2]>> /\ k[2] \in STRING
           /\ Kind(k) \in Kinds
  BY ReferencesAssumption DEF Kind

\* A set with a member and at most one element holds that member only.
LEMMA OnlyMember ==
    ASSUME NEW S, IsFiniteSet(S), NEW x \in S, ~ Cardinality(S) > 1
    PROVE  S = {x}
<1>1. /\ Cardinality(S \ {x}) = Cardinality(S) - 1 /\ IsFiniteSet(S \ {x})
      /\ Cardinality(S) \in Nat /\ Cardinality(S \ {x}) \in Nat
  BY FS_RemoveElement, FS_CardinalityType
<1>2. Cardinality(S \ {x}) = 0
  BY <1>1
<1>3. S \ {x} = {}
  BY <1>1, <1>2, FS_EmptySet
<1>. QED  BY <1>3

\* Neither an absent BOSHDeployment nor one that could not be decoded has a
\* manifest: its reference has no known type.
LEMMA NoManifest ==
    ASSUME NEW c
    PROVE  ~ load(c, EmptySpec) /\ ~ load(c, NoSpec)
<1>1. EmptySpec.manifest = <<"", "">> /\ NoSpec.manifest = <<"none", "">>
  BY DEF EmptySpec, NoSpec
<1>2. <<"", "">>[1] = ""
  OBVIOUS
<1>3. <<"none", "">>[1] = "none"
  OBVIOUS
<1>4. Kind(EmptySpec.manifest) = "" /\ Kind(NoSpec.manifest) = "none"
  BY <1>1, <1>2, <1>3 DEF Kind
<1>5. Kind(EmptySpec.manifest) \notin ReferenceTypes
  BY <1>4 DEF ReferenceTypes
<1>6. Kind(NoSpec.manifest) \notin ReferenceTypes
  BY <1>4 DEF ReferenceTypes
<1>. QED  BY <1>5, <1>6 DEF load, RefKeys, resourceData

\* A spec that can be loaded is one a user submitted.
LEMMA LoadedSpec ==
    ASSUME NEW c, NEW spec \in AllSpecs, load(c, spec)
    PROVE  spec \in SpecType
  BY NoManifest, ReferencesAssumption DEF AllSpecs

\* The references of such a spec exist, and its manifest is one.
LEMMA LoadedManifest ==
    ASSUME NEW c \in Copies, NEW spec \in AllSpecs, load(c, spec)
    PROVE  /\ \A k \in RefKeys(spec) :
                k \in Keys /\ c[k] > 0 /\ Kind(k) \in ReferenceTypes
           /\ ManifestOf(c, spec) = Manifest[c[spec.manifest]]
           /\ ManifestOf(c, spec) \in ManifestType
<1>1. \A k \in RefKeys(spec) :
        k \in Keys /\ c[k] > 0 /\ Kind(k) \in ReferenceTypes
  BY DEF load, resourceData, Exists
<1>2. spec.manifest \in RefKeys(spec)
  BY DEF RefKeys
<1>3. c[spec.manifest] \in 1 .. MaxData
  BY <1>1, <1>2, ReferencesAssumption DEF Copies, Versions
<1>4. ManifestOf(c, spec) = Manifest[c[spec.manifest]]
  BY <1>1, <1>2 DEF ManifestOf, Exists
<1>5. Manifest[c[spec.manifest]] \in ManifestType
  BY <1>3, ReferencesAssumption
<1>. QED  BY <1>1, <1>4, <1>5

\* The variables of such a spec are secrets.
LEMMA VariablesAreSecrets ==
    ASSUME NEW c \in Copies, NEW spec \in AllSpecs, load(c, spec)
    PROVE  \A k \in spec.vars \cup SecretRefs(ManifestOf(c, spec)) :
              k \in Keys /\ Kind(k) = "secret"
<1>1. spec.vars \subseteq Secrets
  BY LoadedSpec DEF SpecType
<1>2. ManifestOf(c, spec).implicit \subseteq Secrets \X {"value", "other"}
  BY LoadedManifest DEF ManifestType
<1>3. SecretRefs(ManifestOf(c, spec)) \subseteq Secrets
  BY <1>2 DEF SecretRefs
<1>. QED  BY <1>1, <1>3 DEF Secrets, Kind

\* What a service says is known for every version it has.
LEMMA ServiceTyped ==
    ASSUME NEW v \in Versions, v > 0
    PROVE  Service[v] \in ServiceType
  BY ReferencesAssumption DEF Versions

\* The manifest depends on nothing but the references of the spec.
LEMMA SameReferences ==
    ASSUME NEW c, NEW d, NEW spec,
           \A k \in RefKeys(spec) : k \in Keys => c[k] = d[k]
    PROVE  /\ load(c, spec) = load(d, spec)
           /\ ManifestOf(c, spec) = ManifestOf(d, spec)
<1>1. \A k \in RefKeys(spec) : Exists(c, k) = Exists(d, k)
  BY DEF Exists
<1>2. load(c, spec) = load(d, spec)
  BY <1>1 DEF load, resourceData
<1>3. spec.manifest \in RefKeys(spec)
  BY DEF RefKeys
<1>4. ManifestOf(c, spec) = ManifestOf(d, spec)
  BY <1>1, <1>3 DEF ManifestOf, Exists
<1>. QED  BY <1>2, <1>4

\* The objects behind a link: the secrets, its services, and what supplies
\* their addresses.
LEMMA LinkKinds ==
    ASSUME NEW c \in Copies, NEW n, NEW k \in LinkKeys(c, n)
    PROVE  \/ k \in ProviderSecrets(c)
           \/ k \in LinkedServices(c, n)
           \/ \E s \in LinkedServices(c, n) :
                k = <<"pods", s[2]>> \/ k = <<"endpoints", s[2]>>
<1>1. SUFFICES ASSUME k \notin LinkedServices(c, n), k \notin ProviderSecrets(c)
               PROVE  \E s \in LinkedServices(c, n) :
                        k = <<"pods", s[2]>> \/ k = <<"endpoints", s[2]>>
  OBVIOUS
<1>2. PICK s \in LinkedServices(c, n) : k \in Addresses(c, s)
  BY <1>1 DEF LinkKeys
<1>3. Service[c[s]] \in ServiceType
  BY ServiceTyped DEF LinkedServices, Copies
<1>4. Service[c[s]].type \in {"external", "selector", "endpoints"}
  BY <1>3 DEF ServiceType
<1>5. k = <<"pods", s[2]>> \/ k = <<"endpoints", s[2]>>
  BY <1>2, <1>4 DEF Addresses
<1>. QED  BY <1>5

-----------------------------------------------------------------------------
(* Type correctness *)

LEMMA TypeInit == Init => TypeOK
<1>. SUFFICES ASSUME Init PROVE TypeOK
  OBVIOUS
<1>1. Nothing \in Copies
  BY ReferencesAssumption DEF Nothing, Copies, Versions
<1>2. store \in Copies /\ cache \in Copies
  BY ReferencesAssumption DEF Init, Copies
<1>3. Idle \in RequestType
  BY DEF Idle, AllSpecs, RequestType
<1>4. NotRunning \in [step : {"idle", "apply"}, spec : AllSpecs, read : Copies]
  BY <1>1 DEF NotRunning, AllSpecs
<1>5. changes \in 0 .. MaxChanges
  BY ReferencesAssumption DEF Init
<1>6. pending \in [Keys -> SUBSET Events]
  BY DEF Init
<1>. QED  BY <1>1, <1>2, <1>3, <1>4, <1>5, <1>6 DEF Init, TypeOK, AllSpecs

\* What the watches put into the queue are names of BOSHDeployments, or the
\* empty request.
LEMMA RequestsTyped ==
    ASSUME NEW c \in Copies, NEW k \in Keys, NEW e \in Events
    PROVE  Mapped(c, k, e) \subseteq Names \cup {NoName}
<1>. SUFFICES ASSUME Passes(c, k, e)
              PROVE  Requests(c, k, e) \subseteq Names \cup {NoName}
  BY DEF Mapped
<1>1. GetReconcilesForBDPL(c, k) \subseteq Names
  BY DEF GetReconcilesForBDPL
<1>2. CASE Kind(k) \in Skippable
  BY <1>1, <1>2 DEF Requests
<1>3. CASE Kind(k) = "service"
  <2>1. \A v \in {e.new, e.old} \ {0} : Service[v].label \in Names \cup {NoName}
    <3>. SUFFICES ASSUME NEW v \in {e.new, e.old} \ {0}
                  PROVE  Service[v].label \in Names \cup {NoName}
      OBVIOUS
    <3>1. v \in Versions /\ v > 0
      BY ReferencesAssumption DEF Events, Versions
    <3>2. Service[v] \in ServiceType
      BY <3>1, ServiceTyped
    <3>. QED  BY <3>2 DEF ServiceType
  <2>2. Kind(k) \notin Skippable
    BY <1>3 DEF Skippable
  <2>. QED  BY <1>3, <2>1, <2>2 DEF Requests
<1>4. CASE Kind(k) \notin Skippable /\ Kind(k) # "service"
  <2>1. Kind(k) = "endpoints"
    BY <1>4 DEF Passes, Skippable
  <2>2. /\ EndpointsService(k) \in Keys
        /\ isLinkProviderService(c[EndpointsService(k)])
    BY <2>1 DEF Passes
  <2>3. Service[c[EndpointsService(k)]] \in ServiceType
    BY <2>2, ServiceTyped DEF isLinkProviderService, Copies
  <2>. QED  BY <1>4, <2>3 DEF Requests, ServiceType
<1>. QED  BY <1>2, <1>3, <1>4

LEMMA WatchTypes ==
    ASSUME TypeOK, NEW k \in Keys, Watch(k)
    PROVE  TypeOK'
<1>. DEFINE older == IF Kind(k) \in Skippable THEN {} ELSE pending[k]
            event == [old |-> cache[k], new |-> store[k], live |-> TRUE]
<1>1. /\ cache' = [cache EXCEPT ![k] = store[k]]
      /\ pending' = [pending EXCEPT ![k] =
            IF store[k] > 0 /\ Kind(k) \in Watched THEN older \cup {event}
            ELSE older]
      /\ lost' = lost \cup Unmapped(cache', k, cache[k])
  BY DEF Watch
<1>2. cache' \in Copies
  BY <1>1 DEF TypeOK, Copies
<1>3. store[k] > 0 => event \in Events
  BY ReferencesAssumption DEF TypeOK, Copies, Events, Versions
<1>4. older \subseteq Events
  BY DEF TypeOK
<1>5. pending' \in [Keys -> SUBSET Events]
  BY <1>1, <1>3, <1>4 DEF TypeOK
<1>6. lost' \subseteq Names
  BY <1>1 DEF TypeOK, Unmapped
<1>7. UNCHANGED <<store, bdpl, bdplCache, request, queue, worker, deployed,
                  changes>>
  BY DEF Watch
<1>. QED  BY <1>2, <1>5, <1>6, <1>7 DEF TypeOK

\* Touching, handling and dropping an event.
LEMMA HandleTypes ==
    ASSUME TypeOK, NEW k \in Keys, Touch(k) \/ Handle(k) \/ HandleFails(k)
    PROVE  TypeOK'
<1>1. CASE Touch(k)
  <2>1. PICK e \in pending[k] :
          pending' = [pending EXCEPT ![k] = {[e EXCEPT !.live = FALSE]}]
    BY <1>1 DEF Touch
  <2>2. e \in Events
    BY DEF TypeOK
  <2>3. [e EXCEPT !.live = FALSE] \in Events
    BY <2>2 DEF Events
  <2>. QED  BY <1>1, <2>1, <2>3 DEF Touch, TypeOK
<1>2. CASE Handle(k) \/ HandleFails(k)
  <2>1. PICK e \in pending[k] :
          /\ pending' = [pending EXCEPT ![k] = @ \ {e}]
          /\ \/ /\ queue' = queue \cup Mapped(cache, k, e)
                /\ lost' = lost \cup Gap(cache, k, e)
             \/ /\ queue' = queue
                /\ lost' = lost \cup Gap(cache, k, e)
                                \cup (Mapped(cache, k, e) \cap Names)
    BY <1>2 DEF Handle, HandleFails
  <2>2. Mapped(cache, k, e) \subseteq Names \cup {NoName}
    BY RequestsTyped DEF TypeOK
  <2>3. Gap(cache, k, e) \subseteq Names
    BY DEF Gap
  <2>4. UNCHANGED <<store, cache, bdpl, bdplCache, request, worker, deployed,
                    changes>>
    BY <1>2 DEF Handle, HandleFails
  <2>. QED  BY <2>1, <2>2, <2>3, <2>4 DEF TypeOK
<1>. QED  BY <1>1, <1>2

LEMMA TypeNext == TypeOK /\ [Next]_vars => TypeOK'
<1>. SUFFICES ASSUME TypeOK, [Next]_vars PROVE TypeOK'
  OBVIOUS
<1>1. Nothing \in Copies
  BY ReferencesAssumption DEF Nothing, Copies, Versions
<1>2. Idle \in RequestType
  BY DEF Idle, AllSpecs, RequestType
<1>3. NotRunning \in [step : {"idle", "apply"}, spec : AllSpecs, read : Copies]
  BY <1>1 DEF NotRunning, AllSpecs
<1>4. ASSUME NEW n \in Names, Answer(n)
      PROVE  request' \in [Names -> RequestType]
  BY <1>2, <1>4 DEF Answer, TypeOK, RequestType
<1>5. ASSUME NEW n \in Names, NEW spec \in Specs \cup {EmptySpec},
             NEW meta \in BOOLEAN, Submit(n, spec, meta)
      PROVE  TypeOK'
  <2>1. [step |-> "list", spec |-> spec, meta |-> meta] \in RequestType
    BY DEF AllSpecs, RequestType
  <2>2. changes' \in 0 .. MaxChanges
    BY <1>5, ReferencesAssumption DEF Submit, TypeOK
  <2>3. request' \in [Names -> RequestType]
    BY <1>5, <2>1 DEF Submit, TypeOK, RequestType
  <2>. QED  BY <1>5, <2>2, <2>3 DEF Submit, TypeOK, RequestType
<1>6. ASSUME NEW n \in Names, Validate(n) \/ ListFails(n)
      PROVE  TypeOK'
  <2>1. CASE OnlyOne(n) \/ opsResourcesExist(n)
    <3>1. PICK to \in {"poll", "resolve"} :
            request' = [request EXCEPT ![n].step = to]
      BY <2>1 DEF OnlyOne, opsResourcesExist, Step
    <3>2. request' \in [Names -> RequestType]
      BY <3>1 DEF TypeOK, RequestType
    <3>. QED
      BY <2>1, <3>2
         DEF OnlyOne, opsResourcesExist, Validating, TypeOK, RequestType
  <2>2. CASE NotOnlyOne(n) \/ Timeout(n) \/ Deny(n) \/ ListFails(n)
    <3>1. Answer(n) /\ Validating
      BY <2>2 DEF NotOnlyOne, Timeout, Deny, ListFails
    <3>. QED  BY <3>1, <1>4 DEF Validating, TypeOK, RequestType
  <2>3. CASE Admit(n)
    <3>1. bdpl' \in [Names -> AllSpecs]
      BY <2>3 DEF Admit, TypeOK, RequestType
    <3>. QED  BY <2>3, <3>1, <1>4 DEF Admit, TypeOK, RequestType
  <2>. QED  BY <1>6, <2>1, <2>2, <2>3 DEF Validate
<1>7. ASSUME NEW n \in Names, WatchBDPL(n) PROVE TypeOK'
  BY <1>7 DEF WatchBDPL, TypeOK
<1>8. ASSUME NEW n \in Names, Load(n) PROVE TypeOK'
  <2>1. Restricted(cache, RefKeys(bdplCache[n])) \in Copies
    BY ReferencesAssumption DEF Restricted, Copies, TypeOK, Versions
  <2>2. [step |-> "apply", spec |-> bdplCache[n],
         read |-> Restricted(cache, RefKeys(bdplCache[n]))]
          \in [step : {"idle", "apply"}, spec : AllSpecs, read : Copies]
    BY <2>1 DEF TypeOK
  <2>3. worker' \in [Names -> [step : {"idle", "apply"}, spec : AllSpecs,
                               read : Copies]]
    BY <1>8, <2>2 DEF Load, TypeOK
  <2>. QED  BY <1>8, <2>3 DEF Load, TypeOK
<1>9. ASSUME NEW n \in Names, Resolve(n) PROVE TypeOK'
  <2>1. worker' \in [Names -> [step : {"idle", "apply"}, spec : AllSpecs,
                               read : Copies]]
    BY <1>3, <1>9 DEF Resolve, TypeOK
  <2>2. \A late : [k \in Keys |-> IF k \in late THEN cache[k]
                                  ELSE worker[n].read[k]] \in Copies
    BY DEF TypeOK, Copies
  <2>3. deployed' \in [Names -> Copies]
    <3>1. CASE UNCHANGED deployed
      BY <3>1 DEF TypeOK
    <3>2. CASE \E late : deployed' = [deployed EXCEPT ![n] =
                 [k \in Keys |-> IF k \in late THEN cache[k]
                                 ELSE worker[n].read[k]]]
      <4>1. PICK late : deployed' = [deployed EXCEPT ![n] =
                 [k \in Keys |-> IF k \in late THEN cache[k]
                                 ELSE worker[n].read[k]]]
        BY <3>2
      <4>2. PICK d \in Copies : deployed' = [deployed EXCEPT ![n] = d]
        BY <2>2, <4>1
      <4>. QED  BY <4>2 DEF TypeOK
    <3>. QED  BY <1>9, <3>1, <3>2 DEF Resolve
  <2>4. queue' \subseteq Names \cup {NoName}
    BY <1>9 DEF Resolve, TypeOK
  <2>. QED  BY <1>9, <2>1, <2>3, <2>4 DEF Resolve, TypeOK
<1>10. ASSUME NEW n \in Names \cup {NoName}, NotFound(n) PROVE TypeOK'
  BY <1>10 DEF NotFound, TypeOK
<1>11. ASSUME NEW k \in Keys, Change(k) PROVE TypeOK'
  <2>1. store' \in Copies
    BY <1>11 DEF Change, TypeOK, Copies
  <2>2. changes' \in 0 .. MaxChanges
    BY <1>11, ReferencesAssumption DEF Change, TypeOK
  <2>. QED  BY <1>11, <2>1, <2>2 DEF Change, TypeOK
<1>12. CASE UNCHANGED vars
  BY <1>12 DEF vars, TypeOK
<1>. QED
  BY <1>5, <1>6, <1>7, <1>8, <1>9, <1>10, <1>11, <1>12, WatchTypes, HandleTypes
     DEF Next

-----------------------------------------------------------------------------
(* Which events are noticed: the request is mapped or falls into a gap *)

\* An event of a config map the spec names.
LEMMA ConfigMapNoticed ==
    ASSUME NEW k \in Keys, NEW e, NEW n \in Names,
           bdplCache[n] # NoSpec, Kind(k) = "configmap",
           k \in RefKeys(bdplCache[n])
    PROVE  n \in Mapped(cache, k, e) \cup Gap(cache, k, e)
<1>1. CASE SkipReconciles(k, e)
  BY <1>1 DEF Gap, Using
<1>2. CASE ~ SkipReconciles(k, e)
  <2>1. ~ MappingFails(cache, Kind(k))
    BY DEF MappingFails
  <2>2. n \in GetReconcilesForBDPL(cache, k)
    BY <2>1 DEF GetReconcilesForBDPL, ReferencedBy, getConfMapRefFromBdpl
  <2>3. Passes(cache, k, e)
    BY DEF Passes
  <2>4. n \in Requests(cache, k, e)
    BY <2>2 DEF Requests, Skippable
  <2>. QED  BY <1>2, <2>3, <2>4 DEF Mapped
<1>. QED  BY <1>1, <1>2

\* An event of a secret the deployment depends on: it is mapped to the
\* deployment, or it falls into one of the gaps of the mapping.
LEMMA SecretNoticed ==
    ASSUME NEW k \in Keys, NEW e, NEW n \in Names,
           bdplCache[n] # NoSpec, Kind(k) = "secret",
           k \in RefKeys(bdplCache[n]) \cup bdplCache[n].vars
                   \cup SecretRefs(ManifestOf(cache, bdplCache[n]))
    PROVE  n \in Mapped(cache, k, e) \cup Gap(cache, k, e)
<1>. DEFINE G == GetReconcilesForBDPL(cache, k)
<1>0. CASE SkipReconciles(k, e)
  BY <1>0 DEF Gap, Using
<1>1. CASE MappingFails(cache, "secret")
  BY <1>1 DEF Gap
<1>2. CASE n \notin G /\ ~ MappingFails(cache, "secret")
  <2>1. k \notin RefKeys(bdplCache[n]) \cup bdplCache[n].vars
    BY <1>2 DEF GetReconcilesForBDPL, ReferencedBy, getSecretRefFromBdpl
  <2>2. k \in SecretRefs(ManifestOf(cache, bdplCache[n]))
    BY <2>1
  <2>3. load(cache, bdplCache[n])
    BY <1>2 DEF MappingFails
  <2>. QED  BY <1>2, <2>2, <2>3 DEF Gap
<1>3. CASE n \in G /\ ~ SkipReconciles(k, e)
  <2>1. n \in Requests(cache, k, e)
    BY <1>3 DEF Requests, Skippable
  <2>2. CASE Passes(cache, k, e)
    BY <1>3, <2>1, <2>2 DEF Mapped
  <2>3. CASE ~ Passes(cache, k, e)
    <3>1. e.old = 0 /\ ~ Cardinality(G) > 1
      BY <2>3 DEF Passes
    <3>2. IsFiniteSet(G)
      <4>1. G \subseteq Names
        BY DEF GetReconcilesForBDPL
      <4>. QED  BY <4>1, ReferencesAssumption, FS_Subset
    <3>3. G = {n}
      BY <1>3, <3>1, <3>2, OnlyMember
    <3>. QED  BY <3>1, <3>3 DEF Gap
  <2>. QED  BY <2>2, <2>3
<1>. QED  BY <1>0, <1>1, <1>2, <1>3

\* An event of a service that is, or was, one of the deployment's links: both
\* of its versions are mapped.
LEMMA ServiceNoticed ==
    ASSUME NEW k \in Keys, NEW e \in Events, NEW n \in Names,
           Kind(k) = "service", Links(e, n)
    PROVE  n \in Mapped(cache, k, e)
<1>1. PICK v \in {e.old, e.new} :
        isLinkProviderService(v) /\ Service[v].label = n
  BY DEF Links
<1>2. Passes(cache, k, e)
  BY <1>1 DEF Passes
<1>3. v # 0
  BY <1>1 DEF isLinkProviderService
<1>4. n \in Requests(cache, k, e)
  BY <1>1, <1>3 DEF Requests, Skippable
<1>. QED  BY <1>2, <1>4 DEF Mapped, SkipReconciles, Skippable

\* An event of the endpoints behind such a service.
LEMMA EndpointsNoticed ==
    ASSUME NEW k \in Keys, NEW e, NEW n \in Names,
           NEW s \in LinkedServices(cache, n), k = <<"endpoints", s[2]>>
    PROVE  n \in Mapped(cache, k, e)
<1>1. /\ s \in Keys /\ Kind(s) = "service" /\ cache[s] > 0
      /\ Service[cache[s]].provider /\ Service[cache[s]].label = n
  BY DEF LinkedServices
<1>2. s = <<"service", s[2]>>
  BY <1>1, KeyIsPair DEF Kind
<1>3. EndpointsService(k) = s /\ Kind(k) = "endpoints"
  BY <1>2 DEF EndpointsService, Kind
<1>4. Passes(cache, k, e)
  BY <1>1, <1>3 DEF Passes, isLinkProviderService
<1>5. n \in Requests(cache, k, e)
  BY <1>1, <1>3, ReferencesAssumption DEF Requests, Skippable
<1>. QED  BY <1>3, <1>4, <1>5 DEF Mapped, SkipReconciles, Skippable

-----------------------------------------------------------------------------
(* What an update of the caches leaves alone *)

\* The caches and the events after an update.
LEMMA WatchEffect ==
    ASSUME TypeOK, NEW k \in Keys, Watch(k)
    PROVE  /\ cache' \in Copies /\ cache'[k] = store[k] /\ store[k] # cache[k]
           /\ \A j \in Keys : j # k => cache'[j] = cache[j]
           /\ \A j \in Keys : j # k => pending'[j] = pending[j]
           /\ Kind(k) \notin Skippable => pending[k] \subseteq pending'[k]
           /\ store[k] > 0 /\ Kind(k) \in Watched =>
                [old |-> cache[k], new |-> store[k], live |-> TRUE] \in pending'[k]
           /\ lost' = lost \cup Unmapped(cache', k, cache[k])
           /\ UNCHANGED <<store, bdpl, bdplCache, request, queue, worker,
                          deployed>>
<1>1. cache' = [cache EXCEPT ![k] = store[k]] /\ store[k] # cache[k]
  BY DEF Watch
<1>2. /\ cache' \in Copies /\ cache'[k] = store[k]
      /\ \A j \in Keys : j # k => cache'[j] = cache[j]
  BY <1>1 DEF TypeOK, Copies
<1>3. /\ \A j \in Keys : j # k => pending'[j] = pending[j]
      /\ Kind(k) \notin Skippable => pending[k] \subseteq pending'[k]
      /\ store[k] > 0 /\ Kind(k) \in Watched =>
           [old |-> cache[k], new |-> store[k], live |-> TRUE] \in pending'[k]
  BY DEF Watch, TypeOK
<1>. QED  BY <1>1, <1>2, <1>3 DEF Watch

\* An update that makes a service one of the deployment's links, or changes or
\* removes one of them, is announced or falls into a gap.
LEMMA ServiceAnnounced ==
    ASSUME TypeOK, NEW k \in Keys, Watch(k), NEW n \in Names,
           bdplCache[n] # NoSpec,
           k \in LinkedServices(cache, n) \cup LinkedServices(cache', n)
    PROVE  Announced(n)' \/ n \in lost'
<1>. DEFINE e == [old |-> cache[k], new |-> store[k], live |-> TRUE]
<1>1. /\ cache'[k] = store[k] /\ cache[k] \in Versions /\ store[k] \in Versions
      /\ lost' = lost \cup Unmapped(cache', k, cache[k])
      /\ bdplCache' = bdplCache
  BY WatchEffect DEF TypeOK, Copies
<1>2. Kind(k) = "service"
  BY DEF LinkedServices
<1>3. PICK v \in {cache[k], store[k]} :
        v > 0 /\ Service[v].provider /\ Service[v].label = n
  BY <1>1 DEF LinkedServices
<1>4. CASE store[k] = 0
  <2>1. v = cache[k]
    BY <1>3, <1>4
  <2>. QED
    BY <1>1, <1>2, <1>3, <1>4, <2>1 DEF Unmapped, isLinkProviderService
<1>5. CASE store[k] # 0
  <2>1. store[k] > 0
    BY <1>1, <1>5, ReferencesAssumption DEF Versions
  <2>2. e \in pending'[k]
    BY <1>2, <2>1, WatchEffect DEF Watched
  <2>3. Links(e, n)
    BY <1>3 DEF Links, isLinkProviderService
  <2>. QED  BY <1>2, <2>2, <2>3 DEF Announced, Links
<1>. QED  BY <1>4, <1>5

\* A change of a link secret falls into a gap.
LEMMA LinkSecretLost ==
    ASSUME TypeOK, NEW k \in Keys, Watch(k), NEW n \in Names,
           bdplCache[n] # NoSpec, k \in LinkSecrets,
           load(cache', bdplCache[n]), ManifestOf(cache', bdplCache[n]).linked
    PROVE  n \in lost'
  BY WatchEffect DEF Unmapped

\* An update that announces nothing to a deployment, and falls into no gap, is
\* not one of its references, changes neither its manifest nor the set of
\* objects it depends on, and when the object is one of those it is gone or an
\* event of it is awaited.
LEMMA UnnoticedChange ==
    ASSUME TypeOK, UrlsFixed, NEW k \in Keys, Watch(k), NEW n \in Names,
           bdplCache[n] # NoSpec, ~ Announced(n)', n \notin lost',
           load(cache', bdplCache[n])
    PROVE  /\ k \notin RefKeys(bdplCache[n])
           /\ load(cache, bdplCache[n])
           /\ ManifestOf(cache', bdplCache[n]) = ManifestOf(cache, bdplCache[n])
           /\ Tracked(cache', n, bdplCache[n]) = Tracked(cache, n, bdplCache[n])
           /\ k \in Tracked(cache', n, bdplCache[n]) /\ Kind(k) # "pods" =>
                ~ cache'[k] > 0 \/ Awaited(n, k)'
<1>. DEFINE spec == bdplCache[n]
            m == ManifestOf(cache', spec)
<1>1. /\ cache \in Copies /\ spec \in AllSpecs /\ cache' \in Copies
      /\ bdplCache' = bdplCache /\ cache'[k] = store[k] /\ store[k] # cache[k]
      /\ \A j \in Keys : j # k => cache'[j] = cache[j]
  BY WatchEffect DEF TypeOK
<1>2. Kind(k) \in Watched /\ store[k] > 0 => pending'[k] # {}
  BY WatchEffect
<1>3. k \notin RefKeys(spec)
  <2>. SUFFICES ASSUME k \in RefKeys(spec) PROVE FALSE
    OBVIOUS
  <2>1. cache'[k] > 0 /\ Kind(k) \in ReferenceTypes
    BY <1>1, LoadedManifest
  <2>2. Kind(k) # "url"
    BY <1>1 DEF UrlsFixed
  <2>3. Kind(k) \in Skippable
    BY <2>1, <2>2 DEF ReferenceTypes, Skippable
  <2>4. pending'[k] # {}
    BY <1>1, <1>2, <2>1, <2>3 DEF Watched
  <2>. QED  BY <1>1, <2>3, <2>4 DEF Announced
<1>4. load(cache, spec) /\ m = ManifestOf(cache, spec)
  <2>1. \A j \in RefKeys(spec) : j \in Keys => cache'[j] = cache[j]
    BY <1>1, <1>3
  <2>. QED  BY <2>1, SameReferences
<1>5. k \notin LinkedServices(cache, n) /\ k \notin LinkedServices(cache', n)
  BY ServiceAnnounced
<1>6. LinkedServices(cache', n) = LinkedServices(cache, n)
  BY <1>1, <1>5 DEF LinkedServices
<1>7. \A s \in LinkedServices(cache, n) : Addresses(cache', s) = Addresses(cache, s)
  <2>1. \A s \in LinkedServices(cache, n) : cache'[s] = cache[s]
    BY <1>1, <1>5 DEF LinkedServices
  <2>. QED  BY <2>1 DEF Addresses
<1>8. m.linked => k \notin LinkSecrets
  BY LinkSecretLost
<1>9. m.linked => ProviderSecrets(cache') = ProviderSecrets(cache)
  <2>1. LinkSecrets \subseteq Keys
    BY ReferencesAssumption DEF Secrets
  <2>. QED  BY <1>1, <1>8, <2>1 DEF ProviderSecrets
<1>10. m.linked => LinkKeys(cache', n) = LinkKeys(cache, n)
  BY <1>6, <1>7, <1>9 DEF LinkKeys
<1>11. Tracked(cache', n, spec) = Tracked(cache, n, spec)
  BY <1>4, <1>10 DEF Tracked, LateKeys
<1>12. ASSUME k \in Tracked(cache', n, spec), Kind(k) # "pods", cache'[k] > 0
       PROVE  Awaited(n, k)'
  <2>1. CASE k \in spec.vars \cup SecretRefs(m)
    <3>1. Kind(k) = "secret"
      BY <1>1, <2>1, VariablesAreSecrets
    <3>2. pending'[k] # {}
      BY <1>1, <1>2, <1>12, <3>1 DEF Watched, Skippable
    <3>. QED  BY <1>1, <2>1, <3>2 DEF Awaited
  <2>2. CASE k \notin spec.vars \cup SecretRefs(m)
    <3>1. m.linked /\ k \in LinkKeys(cache', n)
      BY <1>3, <1>12, <2>2 DEF Tracked, LateKeys
    <3>2. k \notin ProviderSecrets(cache')
      BY <1>8, <3>1 DEF ProviderSecrets
    <3>3. PICK s \in LinkedServices(cache', n) :
            k = <<"pods", s[2]>> \/ k = <<"endpoints", s[2]>>
      BY <1>1, <1>5, <3>1, <3>2, LinkKinds
    <3>4. Kind(k) = "endpoints"
      BY <1>12, <3>3 DEF Kind
    <3>5. pending'[k] # {}
      BY <1>1, <1>2, <1>12, <3>4 DEF Watched
    <3>. QED  BY <3>4, <3>5 DEF Awaited
  <2>. QED  BY <2>1, <2>2
<1>. QED  BY <1>3, <1>4, <1>11, <1>12

-----------------------------------------------------------------------------
(* No change is missed *)

LEMMA FollowInit == Init => FollowInv
<1>. SUFFICES ASSUME Init PROVE FollowInv
  OBVIOUS
<1>1. UrlsFixed
  BY DEF Init, UrlsFixed
<1>2. \A n \in Names : Followed(n)
  BY DEF Init, Followed
<1>3. RunsCurrent
  BY DEF Init, RunsCurrent, NotRunning
<1>. QED  BY <1>1, <1>2, <1>3, TypeInit DEF FollowInv

\* An update of the caches leaves every deployment followed.
LEMMA WatchFollows ==
    ASSUME FollowInv, NEW k \in Keys, Watch(k), NEW n \in Names
    PROVE  Followed(n)'
<1>1. /\ cache \in Copies /\ cache' \in Copies /\ cache'[k] = store[k]
      /\ \A j \in Keys : j # k => cache'[j] = cache[j]
      /\ \A j \in Keys : j # k => pending'[j] = pending[j]
      /\ Kind(k) \notin Skippable => pending[k] \subseteq pending'[k]
      /\ queue' = queue /\ lost \subseteq lost'
      /\ bdplCache' = bdplCache /\ worker' = worker /\ deployed' = deployed
  BY WatchEffect DEF FollowInv, TypeOK
<1>. SUFFICES ASSUME bdplCache[n] # NoSpec, n \notin queue, n \notin lost',
                     ~ Announced(n)'
              PROVE  \/ worker[n].step = "apply" /\ LoadedCurrent(n)'
                     \/ worker[n].step = "idle" /\ Agrees(n)'
  BY <1>1 DEF Followed
<1>. DEFINE spec == bdplCache[n]
<1>2. CASE ~ load(cache', spec)
  <2>1. worker[n].step = "apply" => LoadedCurrent(n)'
    BY <1>1, <1>2 DEF LoadedCurrent, FollowInv, RunsCurrent
  <2>2. Agrees(n)'
    BY <1>1, <1>2 DEF Agrees
  <2>3. worker[n].step \in {"apply", "idle"}
    BY DEF FollowInv, TypeOK
  <2>. QED  BY <2>1, <2>2, <2>3
<1>3. CASE load(cache', spec)
  <2>0. /\ k \notin RefKeys(spec) /\ load(cache, spec)
        /\ ManifestOf(cache', spec) = ManifestOf(cache, spec)
        /\ Tracked(cache', n, spec) = Tracked(cache, n, spec)
        /\ k \in Tracked(cache', n, spec) /\ Kind(k) # "pods" =>
             ~ cache'[k] > 0 \/ Awaited(n, k)'
    BY <1>3, UnnoticedChange DEF FollowInv
  <2>1. ~ Announced(n)
    <3>1. ASSUME NEW j \in Keys, j \in RefKeys(spec), Kind(j) \in Skippable,
                 pending[j] # {}
          PROVE  FALSE
      BY <1>1, <2>0, <3>1 DEF Announced
    <3>2. ASSUME NEW j \in Keys, Kind(j) = "service",
                 NEW e \in pending[j], Links(e, n)
          PROVE  FALSE
      <4>1. e \in pending'[j]
        BY <1>1, <3>2 DEF Skippable
      <4>. QED  BY <3>2, <4>1 DEF Announced, Links
    <3>. QED  BY <3>1, <3>2 DEF Announced
  <2>2. CASE worker[n].step = "apply" /\ LoadedCurrent(n)
    <3>1. Restricted(cache', RefKeys(spec)) = Restricted(cache, RefKeys(spec))
      BY <1>1, <2>0 DEF Restricted
    <3>. QED  BY <1>1, <2>0, <2>2, <3>1 DEF LoadedCurrent
  <2>3. CASE worker[n].step = "idle" /\ Agrees(n)
    <3>1. ASSUME NEW j \in Keys, Kind(j) # "pods"
          PROVE  IF j \in Tracked(cache', n, spec)
                 THEN cache'[j] > 0 =>
                        deployed[n][j] = cache'[j] \/ Awaited(n, j)'
                 ELSE deployed[n][j] = 0
      <4>1. IF j \in Tracked(cache, n, spec)
            THEN cache[j] > 0 => deployed[n][j] = cache[j] \/ Awaited(n, j)
            ELSE deployed[n][j] = 0
        BY <2>0, <2>3, <3>1 DEF Agrees
      <4>2. j # k => (Awaited(n, j)' <=> Awaited(n, j))
        BY <1>1, <2>0 DEF Awaited
      <4>3. CASE j # k
        BY <1>1, <2>0, <4>1, <4>2, <4>3
      <4>4. CASE j = k
        <5>1. CASE k \in Tracked(cache', n, spec)
          BY <2>0, <3>1, <4>4, <5>1
        <5>2. CASE k \notin Tracked(cache', n, spec)
          BY <2>0, <4>1, <4>4, <5>2
        <5>. QED  BY <5>1, <5>2
      <4>. QED  BY <4>3, <4>4
    <3>. QED  BY <1>1, <2>3, <3>1 DEF Agrees
  <2>. QED  BY <1>1, <2>1, <2>2, <2>3 DEF FollowInv, Followed
<1>. QED  BY <1>2, <1>3

\* Handling an event leaves every deployment followed: one to which the event
\* was announced, or that awaited it, is queued or falls into a gap.
LEMMA HandleFollows ==
    ASSUME FollowInv, NEW k \in Keys, NEW n \in Names,
           Handle(k) \/ HandleFails(k)
    PROVE  Followed(n)'
<1>1. PICK e \in pending[k] :
        /\ pending' = [pending EXCEPT ![k] = @ \ {e}]
        /\ queue \subseteq queue' /\ lost \subseteq lost'
        /\ n \in Mapped(cache, k, e) \cup Gap(cache, k, e) =>
             n \in queue' \/ n \in lost'
  BY DEF Handle, HandleFails
<1>2. UNCHANGED <<cache, bdplCache, worker, deployed>>
  BY DEF Handle, HandleFails
<1>3. /\ e \in Events /\ cache \in Copies /\ bdplCache[n] \in AllSpecs
      /\ \A j \in Keys : j # k => pending'[j] = pending[j]
      /\ pending'[k] = pending[k] \ {e}
  BY <1>1 DEF FollowInv, TypeOK
<1>. SUFFICES ASSUME bdplCache[n] # NoSpec, n \notin queue', n \notin lost'
              PROVE  \/ Announced(n)'
                     \/ worker[n].step = "apply" /\ LoadedCurrent(n)'
                     \/ worker[n].step = "idle" /\ Agrees(n)'
  BY <1>2 DEF Followed
<1>4. n \notin Mapped(cache, k, e) /\ n \notin Gap(cache, k, e)
  BY <1>1
<1>. DEFINE spec == bdplCache[n]
<1>5. CASE Announced(n)
  <2>1. ASSUME NEW j \in Keys, j \in RefKeys(spec), Kind(j) \in Skippable,
               pending[j] # {}
        PROVE  Announced(n)'
    <3>1. j # k
      BY <1>4, <2>1, ConfigMapNoticed, SecretNoticed DEF Skippable
    <3>. QED  BY <1>2, <1>3, <2>1, <3>1 DEF Announced
  <2>2. ASSUME NEW j \in Keys, Kind(j) = "service", NEW f \in pending[j],
               Links(f, n)
        PROVE  Announced(n)'
    <3>1. ~ (j = k /\ f = e)
      BY <1>3, <1>4, <2>2, ServiceNoticed
    <3>2. f \in pending'[j]
      BY <1>3, <3>1
    <3>. QED  BY <2>2, <3>2 DEF Announced, Links
  <2>. QED  BY <1>5, <2>1, <2>2 DEF Announced
<1>6. CASE worker[n].step = "apply" /\ LoadedCurrent(n)
  BY <1>2, <1>6 DEF LoadedCurrent
<1>7. CASE worker[n].step = "idle" /\ Agrees(n)
  <2>1. ASSUME load(cache, spec), NEW j \in Keys, Kind(j) # "pods",
               j \in Tracked(cache, n, spec), Awaited(n, j)
        PROVE  Awaited(n, j)'
    <3>1. j # k
      <4>1. CASE k \in spec.vars \cup SecretRefs(ManifestOf(cache, spec))
        <5>1. Kind(k) = "secret"
          BY <1>3, <2>1, <4>1, VariablesAreSecrets
        <5>. QED  BY <1>4, <4>1, <5>1, SecretNoticed
      <4>2. ASSUME j = k, k \notin spec.vars \cup SecretRefs(ManifestOf(cache, spec))
            PROVE  FALSE
        <5>1. Kind(k) = "endpoints"
          BY <2>1, <4>2 DEF Awaited
        <5>2. k \notin RefKeys(spec)
          BY <1>3, <2>1, <5>1, LoadedManifest DEF ReferenceTypes
        <5>3. k \in LinkKeys(cache, n)
          BY <2>1, <4>2, <5>2 DEF Tracked, LateKeys
        <5>4. k \notin LinkedServices(cache, n)
          BY <5>1 DEF LinkedServices
        <5>5. CASE k \in ProviderSecrets(cache)
          BY <5>1, <5>5, ReferencesAssumption DEF ProviderSecrets, Secrets, Kind
        <5>6. CASE k \notin ProviderSecrets(cache)
          <6>1. PICK s \in LinkedServices(cache, n) :
                  k = <<"pods", s[2]>> \/ k = <<"endpoints", s[2]>>
            BY <1>3, <5>3, <5>4, <5>6, LinkKinds
          <6>2. k = <<"endpoints", s[2]>>
            BY <5>1, <6>1 DEF Kind
          <6>. QED  BY <1>4, <6>2, EndpointsNoticed
        <5>. QED  BY <5>5, <5>6
      <4>. QED  BY <4>1, <4>2
    <3>. QED  BY <1>2, <1>3, <2>1, <3>1 DEF Awaited
  <2>. QED  BY <1>2, <1>7, <2>1 DEF Agrees
<1>. QED  BY <1>1, <1>5, <1>6, <1>7 DEF FollowInv, Followed

\* An event that is outdated is still on its way.
LEMMA TouchFollows ==
    ASSUME FollowInv, NEW k \in Keys, Touch(k), NEW n \in Names
    PROVE  Followed(n)'
<1>1. /\ Kind(k) \in Skippable /\ pending'[k] # {} /\ pending[k] # {}
      /\ \A j \in Keys : j # k => pending'[j] = pending[j]
      /\ UNCHANGED <<cache, bdplCache, queue, lost, worker, deployed>>
  BY DEF Touch, FollowInv, TypeOK
<1>2. Announced(n) => Announced(n)'
  BY <1>1 DEF Announced, Skippable, Links
<1>3. \A j \in Keys : Awaited(n, j) => Awaited(n, j)'
  BY <1>1 DEF Awaited
<1>4. Agrees(n) => Agrees(n)'
  BY <1>1, <1>3 DEF Agrees
<1>5. LoadedCurrent(n) => LoadedCurrent(n)'
  BY <1>1 DEF LoadedCurrent
<1>. QED  BY <1>1, <1>2, <1>4, <1>5 DEF FollowInv, Followed

\* A reconcile that has resolved what it loaded has deployed what the caches
\* hold, when they still hold what it loaded.
LEMMA ResolveFollows ==
    ASSUME FollowInv, NEW n \in Names, Resolve(n)
    PROVE  Followed(n)'
<1>. SUFFICES ASSUME bdplCache[n] # NoSpec, n \notin queue', n \notin lost',
                     ~ Announced(n)'
              PROVE  worker'[n].step = "idle" /\ Agrees(n)'
  BY DEF Resolve, Followed
<1>. DEFINE spec == bdplCache[n]
            w == worker[n]
<1>1. /\ w.step = "apply" /\ worker' = [worker EXCEPT ![n] = NotRunning]
      /\ queue \subseteq queue'
      /\ UNCHANGED <<cache, pending, bdplCache, lost>>
      /\ cache \in Copies /\ spec \in AllSpecs
  BY DEF Resolve, FollowInv, TypeOK
<1>2. worker'[n].step = "idle"
  BY <1>1 DEF FollowInv, TypeOK, NotRunning
<1>3. LoadedCurrent(n)
  BY <1>1 DEF FollowInv, Followed, Announced, Links
<1>4. ASSUME load(cache, spec), NEW k \in Keys, Kind(k) # "pods"
      PROVE  IF k \in Tracked(cache, n, spec)
             THEN cache[k] > 0 => deployed'[n][k] = cache[k]
             ELSE deployed'[n][k] = 0
  <2>1. w.spec = spec /\ w.read = Restricted(cache, RefKeys(spec))
    BY <1>3, <1>4 DEF LoadedCurrent
  <2>2. ManifestOf(w.read, w.spec) = ManifestOf(cache, spec)
    <3>1. \A j \in RefKeys(spec) : j \in Keys => w.read[j] = cache[j]
      BY <2>1 DEF Restricted
    <3>. QED  BY <2>1, <3>1, SameReferences
  <2>3. deployed' = [deployed EXCEPT ![n] =
          [j \in Keys |-> IF j \in LateKeys(cache, n, w.spec,
                                            ManifestOf(w.read, w.spec))
                          THEN cache[j] ELSE w.read[j]]]
    BY DEF Resolve
  <2>4. deployed'[n][k] =
          IF k \in LateKeys(cache, n, spec, ManifestOf(cache, spec))
          THEN cache[k] ELSE w.read[k]
    BY <2>1, <2>2, <2>3 DEF FollowInv, TypeOK
  <2>5. w.read[k] = IF k \in RefKeys(spec) THEN cache[k] ELSE 0
    BY <2>1 DEF Restricted
  <2>. QED  BY <2>4, <2>5 DEF Tracked
<1>. QED  BY <1>1, <1>2, <1>4 DEF Agrees

LEMMA FollowNext == FollowInv /\ [Next]_vars => FollowInv'
<1>. SUFFICES ASSUME FollowInv, [Next]_vars PROVE FollowInv'
  OBVIOUS
<1>1. TypeOK /\ TypeOK'
  BY TypeNext DEF FollowInv
<1>2. UrlsFixed'
  <2>1. CASE UNCHANGED <<store, cache>>
    BY <2>1 DEF FollowInv, UrlsFixed
  <2>2. ASSUME NEW k \in Keys, Watch(k) PROVE UrlsFixed'
    BY <1>1, <2>2 DEF FollowInv, UrlsFixed, Watch, TypeOK, Copies
  <2>3. ASSUME NEW k \in Keys, Change(k) PROVE UrlsFixed'
    BY <1>1, <2>3 DEF FollowInv, UrlsFixed, Change, TypeOK, Copies
  <2>. QED
    BY <2>1, <2>2, <2>3 DEF Next, Submit, Validate, OnlyOne, NotOnlyOne, Admit,
       opsResourcesExist, Timeout, Deny, ListFails, Validating, WatchBDPL, Load,
       Resolve, NotFound, Touch, Handle, HandleFails, vars
<1>3. ASSUME NEW n \in Names PROVE Followed(n)'
  <2>0. Followed(n)
    BY DEF FollowInv
  <2>1. CASE UNCHANGED <<cache, pending, bdplCache, worker, deployed>>
             /\ (n \in queue => n \in queue') /\ (n \in lost => n \in lost')
    BY <2>0, <2>1 DEF Followed, LoadedCurrent, Agrees, Announced, Awaited, Links
  <2>2. ASSUME NEW k \in Keys,
               Watch(k) \/ Touch(k) \/ Handle(k) \/ HandleFails(k)
        PROVE  Followed(n)'
    BY <2>2, WatchFollows, TouchFollows, HandleFollows
  <2>3. ASSUME NEW p \in Names, WatchBDPL(p) PROVE Followed(n)'
    <3>1. CASE p = n
      BY <2>3, <3>1 DEF WatchBDPL, Followed
    <3>2. CASE p # n
      <4>1. bdplCache'[n] = bdplCache[n] /\ queue \subseteq queue'
            /\ UNCHANGED <<cache, pending, worker, deployed, lost>>
        BY <1>1, <2>3, <3>2 DEF WatchBDPL, TypeOK
      <4>. QED
        BY <2>0, <4>1
           DEF Followed, LoadedCurrent, Agrees, Announced, Awaited, Links
    <3>. QED  BY <3>1, <3>2
  <2>4. ASSUME NEW p \in Names, Load(p) PROVE Followed(n)'
    <3>1. CASE p = n /\ load(cache, bdplCache[p])
      <4>1. worker'[n] = [step |-> "apply", spec |-> bdplCache[n],
                          read |-> Restricted(cache, RefKeys(bdplCache[n]))]
        BY <1>1, <2>4, <3>1 DEF Load, TypeOK
      <4>2. UNCHANGED <<cache, bdplCache>>
        BY <2>4 DEF Load
      <4>3. LoadedCurrent(n)'
        BY <4>1, <4>2 DEF LoadedCurrent
      <4>. QED  BY <4>1, <4>3 DEF Followed
    <3>2. CASE p = n /\ ~ load(cache, bdplCache[p])
      BY <2>4, <3>2 DEF Load, Followed
    <3>3. CASE p # n
      <4>1. /\ worker'[n] = worker[n]
            /\ UNCHANGED <<cache, pending, bdplCache, deployed>>
            /\ (n \in queue => n \in queue') /\ (n \in lost => n \in lost')
        BY <1>1, <2>4, <3>3 DEF Load, TypeOK
      <4>. QED
        BY <2>0, <4>1
           DEF Followed, LoadedCurrent, Agrees, Announced, Awaited, Links
    <3>. QED  BY <3>1, <3>2, <3>3
  <2>5. ASSUME NEW p \in Names, Resolve(p) PROVE Followed(n)'
    <3>1. CASE p = n
      BY <2>5, <3>1, ResolveFollows
    <3>2. CASE p # n
      <4>1. UNCHANGED <<cache, pending, bdplCache, lost>>
            /\ queue \subseteq queue' /\ worker'[n] = worker[n]
        BY <1>1, <2>5, <3>2 DEF Resolve, TypeOK
      <4>2. deployed'[n] = deployed[n]
        BY <1>1, <2>5, <3>2 DEF Resolve, TypeOK
      <4>. QED
        BY <2>0, <4>1, <4>2
           DEF Followed, LoadedCurrent, Agrees, Announced, Awaited, Links
    <3>. QED  BY <3>1, <3>2
  <2>6. ASSUME NEW p \in Names \cup {NoName}, NotFound(p) PROVE Followed(n)'
    <3>1. CASE p = n
      BY <2>6, <3>1 DEF NotFound, Followed
    <3>2. CASE p # n
      BY <2>1, <2>6, <3>2 DEF NotFound
    <3>. QED  BY <3>1, <3>2
  <2>. QED
    BY <2>1, <2>2, <2>3, <2>4, <2>5, <2>6 DEF Next, Submit, Validate, OnlyOne,
       NotOnlyOne, Admit, opsResourcesExist, Timeout, Deny, ListFails,
       Validating, Change, vars
<1>4. RunsCurrent'
  <2>1. ASSUME NEW n \in Names
        PROVE  worker'[n].step = "apply" =>
                 worker'[n].spec = bdplCache'[n] \/ n \in queue'
    <3>0. worker[n].step = "apply" => worker[n].spec = bdplCache[n] \/ n \in queue
      BY DEF FollowInv, RunsCurrent
    <3>1. CASE UNCHANGED <<worker, bdplCache>> /\ queue \subseteq queue'
      BY <3>0, <3>1
    <3>2. ASSUME NEW p \in Names, WatchBDPL(p)
          PROVE  worker'[n].step = "apply" =>
                   worker'[n].spec = bdplCache'[n] \/ n \in queue'
      BY <1>1, <3>0, <3>2 DEF WatchBDPL, TypeOK
    <3>3. ASSUME NEW p \in Names, Load(p)
          PROVE  worker'[n].step = "apply" =>
                   worker'[n].spec = bdplCache'[n] \/ n \in queue'
      BY <1>1, <3>0, <3>3 DEF Load, TypeOK
    <3>4. ASSUME NEW p \in Names, Resolve(p)
          PROVE  worker'[n].step = "apply" =>
                   worker'[n].spec = bdplCache'[n] \/ n \in queue'
      <4>1. /\ worker' = [worker EXCEPT ![p] = NotRunning]
            /\ bdplCache' = bdplCache /\ queue \subseteq queue'
        BY <3>4 DEF Resolve
      <4>. QED  BY <1>1, <3>0, <4>1 DEF TypeOK, NotRunning
    <3>5. ASSUME NEW p \in Names \cup {NoName}, NotFound(p)
          PROVE  worker'[n].step = "apply" =>
                   worker'[n].spec = bdplCache'[n] \/ n \in queue'
      BY <3>0, <3>5 DEF NotFound
    <3>. QED
      BY <3>1, <3>2, <3>3, <3>4, <3>5 DEF Next, Submit, Validate, OnlyOne,
         NotOnlyOne, Admit, opsResourcesExist, Timeout, Deny, ListFails,
         Validating, Watch, Touch, Handle, HandleFails, Change, vars
  <2>. QED  BY <2>1 DEF RunsCurrent
<1>. QED  BY <1>1, <1>2, <1>3, <1>4 DEF FollowInv

\* Whenever a deployment can be resolved, every object it depends on exists;
\* the pods a service selects need not.
LEMMA ResolvableExists ==
    ASSUME NEW c \in Copies, NEW spec \in AllSpecs, NEW n \in Names,
           Resolvable(c, n, spec), NEW k \in Tracked(c, n, spec),
           Kind(k) # "pods"
    PROVE  c[k] > 0
<1>. DEFINE m == ManifestOf(c, spec)
<1>1. CASE k \in RefKeys(spec)
  BY <1>1, LoadedManifest DEF Resolvable
<1>2. CASE k \in spec.vars \cup SecretRefs(m)
  BY <1>2 DEF Resolvable, applyVariables, Exists
<1>3. CASE m.linked /\ k \in LinkKeys(c, n)
  <2>0. CASE k \in ProviderSecrets(c)
    BY <2>0 DEF ProviderSecrets
  <2>1. CASE k \in LinkedServices(c, n)
    BY <2>1 DEF LinkedServices
  <2>2. CASE Kind(k) = "endpoints"
    BY <1>3, <2>2 DEF Resolvable, List, nativeQuarksLinks, Exists
  <2>. QED  BY <1>3, <2>0, <2>1, <2>2, LinkKinds DEF Kind
<1>. QED  BY <1>1, <1>2, <1>3 DEF Tracked, LateKeys

\* No order of cache updates, mappings of events and reads of a reconcile loses
\* a change of what a deployment was resolved from, other than through the
\* gaps Gap, Unmapped and HandleFails name, whatever the specs, the manifests
\* and the services say (deployment_controller.go, reconciles.go, resolver.go).
THEOREM ChangesFollowed == Spec => []NoChangeMissed
<1>1. FollowInv => NoChangeMissed
  <2>. SUFFICES ASSUME FollowInv, Quiet, NEW n \in Names, n \notin lost,
                       bdpl[n] # NoSpec, Resolvable(store, n, bdpl[n])
                PROVE  Current(n)
    BY DEF NoChangeMissed, Settled
  <2>1. store = cache /\ bdpl = bdplCache /\ queue = {} /\ worker[n].step = "idle"
    BY DEF Quiet, NotRunning
  <2>2. store \in Copies /\ bdpl[n] \in AllSpecs
    BY DEF FollowInv, TypeOK
  <2>3. /\ Agrees(n) /\ load(store, bdpl[n])
        /\ \A k \in Keys : ~ Awaited(n, k)
    BY <2>1 DEF FollowInv, Followed, Resolvable, Quiet, Announced, Awaited
  <2>4. ASSUME NEW k \in Keys, Kind(k) # "pods"
        PROVE  deployed[n][k] = Resolved(store, n, bdpl[n])[k]
    <3>1. Resolved(store, n, bdpl[n])[k] =
            IF k \in Tracked(store, n, bdpl[n]) THEN store[k] ELSE 0
      BY DEF Resolved, Restricted, Tracked
    <3>2. k \in Tracked(store, n, bdpl[n]) => store[k] > 0
      BY <2>2, <2>4, ResolvableExists
    <3>. QED  BY <2>1, <2>3, <2>4, <3>1, <3>2 DEF Agrees
  <2>. QED  BY <2>4 DEF Current
<1>. QED  BY <1>1, FollowInit, FollowNext, PTL DEF Spec

=============================================================================
