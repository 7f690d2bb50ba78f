------------------------ MODULE DeviceRegistryProofs ------------------------
(* Proofs about DeviceRegistry, for any number of requests in flight, MACs, *)
(* hostnames, addresses and rows, any interleaving and any failures: first  *)
(* what the tables owe each other, then what a request has looked up of     *)
(* them and the unknown-device alerts it raises.                            *)
EXTENDS DeviceRegistry, TLAPS

(* A request reset to Idle, whatever it was doing, owes nothing.           *)
LEMMA IdleSound == Idle \in Request /\ RequestSound(Idle)
BY ConstantsAssumption DEF Idle, Request, Steps, RequestSound

(* What a request relies on of the tables only grows: registered devices   *)
(* stay, and so do the MACs they had.                                      *)
LEMMA SoundStable ==
    ASSUME NEW r \in Request, RequestSound(r), owned \subseteq owned', Registered \subseteq Registered'
    PROVE  RequestSound(r)'
BY DEF RequestSound, KeyFits, ObservationSound, Observation, KeyOf, IdentityIds, Keys

(* A step that only adds to what requests rely on keeps every request     *)
(* sound if it leaves its own so.                                          *)
LEMMA RequestsStaySound ==
    ASSUME TablesSound, NEW h \in Handlers, NEW r \in Request, RequestSound(r)',
           req' = [req EXCEPT ![h] = r],
           owned \subseteq owned', Registered \subseteq Registered'
    PROVE  /\ req' \in [Handlers -> Request]
           /\ \A g \in Handlers : RequestSound(req[g])'
<1>1. ASSUME NEW g \in Handlers, g # h PROVE RequestSound(req[g])'
  BY <1>1, SoundStable DEF TablesSound, TypeOK
<1> QED
  BY <1>1 DEF TablesSound, TypeOK

(* The same of a request that answers and, on its way, tells the others of  *)
(* a device that got the MAC they had looked for.                           *)
LEMMA RequestsStaySoundGiving ==
    ASSUME TablesSound, NEW h \in Handlers, NEW d \in DeviceIds, NEW m, RespondGiving(h, d, m),
           owned \subseteq owned', Registered \subseteq Registered'
    PROVE  /\ req' \in [Handlers -> Request]
           /\ \A g \in Handlers : RequestSound(req[g])'
<1>1. RequestSound(Idle)'
  BY DEF RequestSound, Idle
<1>2. req \in [Handlers -> Request] /\ \A g \in Handlers : RequestSound(req[g])
  BY DEF TablesSound, TypeOK
<1>3. ASSUME NEW r \in Request, RequestSound(r)
      PROVE  LET n == [r EXCEPT !.late = @ \cup {d}] IN n \in Request /\ RequestSound(n)
  BY <1>3 DEF Request, RequestSound
<1>4. ASSUME NEW g \in Handlers PROVE req'[g] \in Request /\ RequestSound(req[g])'
  <2>1. req'[g] = Idle \/ req'[g] = req[g] \/ req'[g] = [req[g] EXCEPT !.late = @ \cup {d}]
    BY DEF RespondGiving
  <2>2. CASE req'[g] = Idle
    BY <2>2, <1>1, IdleSound
  <2>3. CASE req'[g] = req[g]
    BY <2>3, <1>2, SoundStable
  <2>4. CASE req'[g] = [req[g] EXCEPT !.late = @ \cup {d}]
    <3>1. PICK n \in Request : n = [req[g] EXCEPT !.late = @ \cup {d}] /\ RequestSound(n)
      BY <1>2, <1>3
    <3>2. RequestSound(n)'
      BY <3>1, SoundStable
    <3> QED
      BY <3>1, <3>2, <2>4
  <2> QED
    BY <2>1, <2>2, <2>3, <2>4
<1>5. req' = [g \in Handlers |-> req'[g]]
  BY DEF RespondGiving
<1> QED
  BY <1>4, <1>5

(* A step that writes no table keeps the invariant if it leaves its own    *)
(* request sound.                                                          *)
LEMMA ReadStep ==
    ASSUME TablesSound, NEW h \in Handlers, NEW r \in Request, RequestSound(r),
           req' = [req EXCEPT ![h] = r], UNCHANGED tables
    PROVE  TablesSound'
<1>1. Registered' = Registered /\ Unknown' = Unknown
  BY DEF tables, Registered, Unknown
<1>2. RequestSound(r)'
  BY <1>1, SoundStable DEF tables
<1>3. TypeOK' /\ \A g \in Handlers : RequestSound(req[g])'
  BY <1>1, <1>2, RequestsStaySound DEF TablesSound, TypeOK, tables, marks
<1>4. (\A i \in Unknown : KeyFits(KeyOf(i), identities[i]))'
  BY <1>1 DEF TablesSound, tables, KeyFits, KeyOf
<1> QED
  BY <1>1, <1>3, <1>4 DEF TablesSound, tables, CurrentMacOwned, PlaceholderNeverStored, MacKeyIsOwn,
     HistoryOnlyOwnMacs, ScanTargetIsOwn, IdentityKeysUnique

-----------------------------------------------------------------------------
(* Receiving a sound observation.                                          *)
LEMMA ReceiveInv ==
    ASSUME TablesSound, NEW h \in Handlers, NEW o, ObservationSound(o), o.source = "dhcp" => o.mac \in Macs,
           Receive(h, o)
    PROVE  TablesSound'
<1> DEFINE r == [Idle EXCEPT !.pc = IF o.mac = Placeholder THEN "check" ELSE "match", !.obs = o]
<1>1. r \in Request
  BY DEF ObservationSound, Idle, Request, Steps
<1>2. RequestSound(r)
  BY ConstantsAssumption DEF ObservationSound, Observation, Idle, RequestSound
<1> QED
  BY <1>1, <1>2, ReadStep DEF Receive

(* The steps of a request that only read.                                  *)
LEMMA IngestInv ==
    ASSUME TablesSound, NEW h \in Handlers, IngestArp(h) \/ IngestDhcp(h) \/ IngestMdns(h)
    PROVE  TablesSound'
<1>1. CASE IngestArp(h)
  <2>1. PICK m \in Macs, a \in Ips : Receive(h, ArpObservation(m, a))
    BY <1>1 DEF IngestArp
  <2>2. ObservationSound(ArpObservation(m, a))
    BY ConstantsAssumption DEF ObservationSound, Observation, ArpObservation
  <2> QED
    BY <2>1, <2>2, ReceiveInv DEF ArpObservation
<1>2. CASE IngestDhcp(h)
  <2>1. PICK m \in Macs, n \in Hosts \cup {NONE} : Receive(h, DhcpObservation(m, n))
    BY <1>2 DEF IngestDhcp
  <2>2. ObservationSound(DhcpObservation(m, n))
    BY ConstantsAssumption DEF ObservationSound, Observation, DhcpObservation
  <2> QED
    BY <2>1, <2>2, ReceiveInv DEF DhcpObservation
<1>3. CASE IngestMdns(h)
  <2>1. PICK n \in Hosts : Receive(h, MdnsObservation(n))
    BY <1>3 DEF IngestMdns
  <2>2. ObservationSound(MdnsObservation(n))
    BY ConstantsAssumption DEF ObservationSound, Observation, MdnsObservation
  <2> QED
    BY <2>1, <2>2, ReceiveInv DEF MdnsObservation
<1> QED
  BY <1>1, <1>2, <1>3

(* Loading a device or an identity gives a request a row that exists.      *)
LEMMA LoadedDevice ==
    ASSUME TablesSound, NEW d \in Registered
    PROVE  /\ LoadDevice(d) \in DeviceView
           /\ devices[d] \in Device
           /\ devices[d].mac \in Macs => <<d, devices[d].mac>> \in owned
BY ConstantsAssumption DEF TablesSound, TypeOK, CurrentMacOwned, Registered, LoadDevice, DeviceView, Device

(* The lookup by the observed MAC only fixes what the request holds.       *)
LEMMA MatchDeviceInv ==
    ASSUME TablesSound, NEW h \in Handlers, MatchDevice(h)
    PROVE  TablesSound'
<1> DEFINE q == req[h]
           found == WithMac(q.obs.mac)
<1>1. q \in Request /\ RequestSound(q) /\ q.pc = "match" /\ UNCHANGED tables
  BY DEF TablesSound, TypeOK, MatchDevice
<1>2. ObservationSound(q.obs) /\ q.obs.mac \in Macs
  BY <1>1 DEF RequestSound
<1>3. CASE req' = [req EXCEPT ![h].pc = "check"]
  <2> DEFINE r == [q EXCEPT !.pc = "check"]
  <2>1. r \in Request /\ RequestSound(r)
    BY <1>1, <1>2 DEF Request, Steps, RequestSound
  <2>2. req' = [req EXCEPT ![h] = r]
    BY <1>3
  <2> QED
    BY <1>1, <2>1, <2>2, ReadStep
<1>4. ASSUME NEW d \in found,
             req' = [req EXCEPT ![h].pc = "update", ![h].dev = d, ![h].seen = LoadDevice(d)]
      PROVE  TablesSound'
  <2> DEFINE r == [q EXCEPT !.pc = "update", !.dev = d, !.seen = LoadDevice(d)]
  <2>1. d \in Registered /\ devices[d].mac = q.obs.mac
    BY DEF WithMac
  <2>2. LoadDevice(d) \in DeviceView /\ <<d, q.obs.mac>> \in owned
    BY <1>2, <2>1, LoadedDevice
  <2>3. r \in Request
    BY <1>1, <2>1, <2>2 DEF Request, Steps, Registered
  <2>4. RequestSound(r)
    BY <1>1, <1>2, <2>1, <2>2 DEF Request, RequestSound
  <2>5. req' = [req EXCEPT ![h] = r]
    BY <1>4
  <2> QED
    BY <1>1, <2>3, <2>4, <2>5, ReadStep
<1>5. CASE Respond(h)
  BY <1>1, <1>5, IdleSound, ReadStep DEF Respond
<1> QED
  BY <1>3, <1>4, <1>5 DEF MatchDevice

(* ingest_arp's own lookup only fixes the device whose address it sets.    *)
LEMMA MatchIpDeviceInv ==
    ASSUME TablesSound, NEW h \in Handlers, MatchIpDevice(h)
    PROVE  TablesSound'
<1> DEFINE q == req[h]
           found == WithMac(q.obs.mac)
<1>1. q \in Request /\ RequestSound(q) /\ q.pc = "matchIp" /\ UNCHANGED tables
  BY DEF TablesSound, TypeOK, MatchIpDevice
<1>2. ObservationSound(q.obs) /\ q.obs.mac \in Macs /\ q.obs.source = "arp"
  BY <1>1 DEF RequestSound
<1>3. ASSUME NEW d \in found,
             req' = [req EXCEPT ![h].pc = "setIp", ![h].dev = d, ![h].seen = LoadDevice(d)]
      PROVE  TablesSound'
  <2> DEFINE r == [q EXCEPT !.pc = "setIp", !.dev = d, !.seen = LoadDevice(d)]
  <2>1. d \in Registered /\ devices[d].mac = q.obs.mac
    BY DEF WithMac
  <2>2. LoadDevice(d) \in DeviceView /\ <<d, q.obs.mac>> \in owned
    BY <1>2, <2>1, LoadedDevice
  <2>3. r \in Request
    BY <1>1, <2>1, <2>2 DEF Request, Steps, Registered
  <2>4. RequestSound(r)
    BY <1>1, <1>2, <2>1, <2>2 DEF Request, RequestSound
  <2>5. req' = [req EXCEPT ![h] = r]
    BY <1>3
  <2> QED
    BY <1>1, <2>3, <2>4, <2>5, ReadStep
<1>4. CASE Respond(h)
  BY <1>1, <1>4, IdleSound, ReadStep DEF Respond
<1> QED
  BY <1>3, <1>4 DEF MatchIpDevice

(* The pre-check of the upsert only fixes is_new_identity.                 *)
LEMMA CheckIdentityInv ==
    ASSUME TablesSound, NEW h \in Handlers, CheckIdentity(h)
    PROVE  TablesSound'
<1> DEFINE q == req[h]
           r == [q EXCEPT !.pc = "upsert", !.isNew = RowsOf(Key(q.obs)) = {}]
<1>1. q \in Request /\ RequestSound(q) /\ q.pc = "check" /\ UNCHANGED tables
  BY DEF TablesSound, TypeOK, CheckIdentity
<1>2. r \in Request
  BY <1>1 DEF Request, Steps
<1>3. RequestSound(r)
  BY <1>1 DEF Request, RequestSound
<1>4. req' = [req EXCEPT ![h] = r]
  BY DEF CheckIdentity
<1> QED
  BY <1>1, <1>2, <1>3, <1>4, ReadStep

(* Loading the identity to register leaves a request that fits it.         *)
LEMMA RegisterDeviceInv ==
    ASSUME TablesSound, NEW h \in Handlers, RegisterDevice(h)
    PROVE  TablesSound'
<1>1. PICK i \in Unknown :
        req' = [req EXCEPT ![h] = [Idle EXCEPT !.pc = "create", !.row = i, !.mac = identities[i]]]
  BY DEF RegisterDevice
<1> DEFINE r == [Idle EXCEPT !.pc = "create", !.row = i, !.mac = identities[i]]
<1>2. i \in IdentityIds /\ KeyFits(KeyOf(i), identities[i])
  BY DEF TablesSound, Unknown
<1>3. r \in Request
  BY <1>2, IdleSound DEF Request, Steps, KeyFits
<1>4. RequestSound(r)
  BY <1>2 DEF RequestSound, Idle
<1> QED
  BY <1>1, <1>3, <1>4, ReadStep DEF RegisterDevice

(* Loading the identity to merge leaves a request that fits it.            *)
LEMMA MergeDeviceInv ==
    ASSUME TablesSound, NEW h \in Handlers, MergeDevice(h)
    PROVE  TablesSound'
<1>1. PICK i \in Unknown, d \in Registered :
        req' = [req EXCEPT ![h] = [Idle EXCEPT !.pc = "target", !.row = i, !.mac = identities[i], !.dev = d]]
  BY DEF MergeDevice
<1> DEFINE r == [Idle EXCEPT !.pc = "target", !.row = i, !.mac = identities[i], !.dev = d]
<1>2. i \in IdentityIds /\ KeyFits(KeyOf(i), identities[i])
  BY DEF TablesSound, Unknown
<1>3. r \in Request
  BY <1>2, IdleSound DEF Request, Steps, KeyFits, Registered
<1>4. RequestSound(r)
  BY <1>2 DEF RequestSound, Idle
<1> QED
  BY <1>1, <1>3, <1>4, ReadStep DEF MergeDevice

(* Loading the target of a merge only fixes the MAC the request saw.       *)
LEMMA LoadTargetInv ==
    ASSUME TablesSound, NEW h \in Handlers, LoadTarget(h)
    PROVE  TablesSound'
<1> DEFINE q == req[h]
           r == [q EXCEPT !.pc = "merge", !.seen = LoadDevice(q.dev)]
<1>1. q \in Request /\ RequestSound(q) /\ q.pc = "target" /\ UNCHANGED tables
  BY DEF TablesSound, TypeOK, LoadTarget
<1>2. q.dev \in Registered
  BY <1>1 DEF RequestSound
<1>3. r \in Request
  BY <1>1, <1>2, LoadedDevice DEF Request, Steps
<1>4. RequestSound(r)
  BY <1>1 DEF Request, RequestSound
<1>5. req' = [req EXCEPT ![h] = r]
  BY DEF LoadTarget
<1> QED
  BY <1>1, <1>3, <1>4, <1>5, ReadStep

-----------------------------------------------------------------------------
(* The steps that write.                                                   *)

(* What is left of an ingest request relies on no table.                   *)
LEMMA ObservedSound ==
    ASSUME NEW h \in Handlers, req[h] \in Request, ObservationSound(req[h].obs), Observed(h)
    PROVE  \E r \in Request : RequestSound(r) /\ req' = [req EXCEPT ![h] = r]
<1>1. CASE req[h].obs.source = "arp"
  <2> DEFINE r == [Idle EXCEPT !.pc = "matchIp", !.obs = req[h].obs]
  <2>1. r \in Request
    BY IdleSound DEF Request, Steps, Idle
  <2>2. RequestSound(r)
    BY <1>1 DEF RequestSound, Idle, ObservationSound
  <2>3. req' = [req EXCEPT ![h] = r]
    BY <1>1 DEF Observed
  <2> QED
    BY <2>1, <2>2, <2>3
<1>2. CASE req[h].obs.source # "arp"
  BY <1>2, IdleSound DEF Observed, Respond
<1> QED
  BY <1>1, <1>2

(* What follows the upsert still holds the request's sound observation.    *)
LEMMA AfterUpsertSound ==
    ASSUME NEW h \in Handlers, NEW i \in IdentityIds, req[h] \in Request,
           ObservationSound(req[h].obs), AfterUpsert(h, i)
    PROVE  \E r \in Request : RequestSound(r) /\ req' = [req EXCEPT ![h] = r]
<1>1. CASE req[h].isNew
  <2> DEFINE r == [req[h] EXCEPT !.pc = "alert", !.row = i]
  <2>1. r \in Request
    BY DEF Request, Steps
  <2>2. RequestSound(r)
    BY DEF RequestSound, Request, ObservationSound
  <2>3. req' = [req EXCEPT ![h] = r]
    BY <1>1 DEF AfterUpsert
  <2> QED
    BY <2>1, <2>2, <2>3
<1>2. CASE ~req[h].isNew
  BY <1>2, ObservedSound DEF AfterUpsert
<1> QED
  BY <1>1, <1>2

(* An observation's commit writes its own key and leaves the device's MAC. *)
LEMMA UpdateDeviceInv ==
    ASSUME TablesSound, NEW h \in Handlers, UpdateDevice(h)
    PROVE  TablesSound'
<1> DEFINE q == req[h]
           k == Key(q.obs)
<1>1. q \in Request /\ RequestSound(q) /\ q.pc = "update"
  BY DEF TablesSound, TypeOK, UpdateDevice
<1>2. /\ ObservationSound(q.obs) /\ q.obs.mac \in Macs
      /\ q.dev \in Registered /\ <<q.dev, q.obs.mac>> \in owned
  BY <1>1 DEF RequestSound
<1>3. PICK r \in Request : RequestSound(r) /\ r = [q EXCEPT !.pc = "history"]
  BY <1>1 DEF Request, Steps, RequestSound
<1>4. CASE q.seen.key = k
  <2>1. req' = [req EXCEPT ![h] = r] /\ UNCHANGED tables
    BY <1>3, <1>4 DEF UpdateDevice, tables
  <2> QED
    BY <1>3, <2>1, ReadStep
<1>5. CASE q.seen.key # k /\ KeyTaken(k, q.dev)
  <2>1. Respond(h) /\ UNCHANGED tables
    BY <1>5 DEF UpdateDevice, tables
  <2> QED
    BY <2>1, IdleSound, ReadStep DEF Respond
<1>6. CASE q.seen.key # k /\ ~KeyTaken(k, q.dev)
  <2>1. /\ devices' = [devices EXCEPT ![q.dev].key = k]
        /\ req' = [req EXCEPT ![h] = r]
        /\ UNCHANGED <<identities, history, owned, marks>>
    BY <1>3, <1>6 DEF UpdateDevice
  <2>2. k \in Keys /\ \A m \in Macs \cup {Placeholder} : k = <<"mac", m>> => m = q.obs.mac
    BY <1>2 DEF Key, Keys, ObservationSound, Observation
  <2>3. devices' \in [DeviceIds -> Device \cup {NONE}]
    BY <2>1, <2>2, <1>2 DEF TablesSound, TypeOK, Registered, Device
  <2>4. /\ \A d \in DeviceIds : d # q.dev => devices'[d] = devices[d]
        /\ devices'[q.dev] = [devices[q.dev] EXCEPT !.key = k]
        /\ devices[q.dev] \in Device /\ devices'[q.dev] \in Device
    BY <2>1, <2>2, <1>2 DEF TablesSound, TypeOK, Registered, Device
  <2>5. Registered' = Registered /\ Unknown' = Unknown
    BY <2>1, <2>4, <1>2, ConstantsAssumption DEF Registered, Unknown
  <2>6. RequestSound(r)'
    BY <2>1, <2>5, <1>3, SoundStable
  <2>7. TypeOK' /\ \A g \in Handlers : RequestSound(req[g])'
    BY <2>1, <2>3, <2>5, <2>6, <1>3, RequestsStaySound DEF TablesSound, TypeOK, marks
  <2>8. (\A i \in Unknown : KeyFits(KeyOf(i), identities[i]))' /\ IdentityKeysUnique'
    BY <2>1, <2>5 DEF TablesSound, KeyFits, KeyOf, IdentityKeysUnique
  <2>9. \A d \in Registered : /\ devices'[d].mac = devices[d].mac
                              /\ devices'[d].ip = devices[d].ip
                              /\ devices'[d].ipFrom = devices[d].ipFrom
    BY <2>4 DEF Registered, Device
  <2>10. CurrentMacOwned' /\ PlaceholderNeverStored' /\ HistoryOnlyOwnMacs' /\ ScanTargetIsOwn'
    BY <2>1, <2>5, <2>9 DEF TablesSound, CurrentMacOwned, PlaceholderNeverStored, HistoryOnlyOwnMacs, ScanTargetIsOwn
  <2>11. MacKeyIsOwn'
    <3> SUFFICES ASSUME NEW d \in Registered, NEW m \in Macs \cup {Placeholder},
                        devices'[d].key = <<"mac", m>>
                 PROVE  <<d, m>> \in owned
      BY <2>1, <2>5 DEF MacKeyIsOwn
    <3>1. CASE d = q.dev
      BY <3>1, <1>2, <2>2, <2>4 DEF Device
    <3>2. CASE d # q.dev
      BY <3>2, <2>4 DEF TablesSound, MacKeyIsOwn, Registered
    <3> QED
      BY <3>1, <3>2
  <2> QED
    BY <2>7, <2>8, <2>10, <2>11 DEF TablesSound
<1> QED
  BY <1>4, <1>5, <1>6

(* The history row names a MAC the matched device had when it was read.    *)
LEMMA RecordMacInv ==
    ASSUME TablesSound, NEW h \in Handlers, RecordMac(h)
    PROVE  TablesSound'
<1> DEFINE q == req[h]
<1>1. q \in Request /\ RequestSound(q) /\ q.pc = "history"
  BY DEF TablesSound, TypeOK, RecordMac
<1>2. ObservationSound(q.obs) /\ q.obs.mac \in Macs /\ q.dev \in DeviceIds /\ <<q.dev, q.obs.mac>> \in owned
  BY <1>1 DEF RequestSound, Registered
<1>3. PICK r \in Request : RequestSound(r) /\ req' = [req EXCEPT ![h] = r]
  BY <1>1, <1>2, ObservedSound DEF RecordMac
<1>4. Registered' = Registered /\ Unknown' = Unknown
  BY DEF RecordMac, Registered, Unknown
<1>5. RequestSound(r)'
  BY <1>3, <1>4, SoundStable DEF RecordMac
<1>6. TypeOK' /\ \A g \in Handlers : RequestSound(req[g])'
  BY <1>2, <1>3, <1>4, <1>5, RequestsStaySound DEF TablesSound, TypeOK, RecordMac, marks
<1>7. (\A i \in Unknown : KeyFits(KeyOf(i), identities[i]))'
  BY <1>4 DEF TablesSound, KeyFits, KeyOf, RecordMac
<1>8. CurrentMacOwned' /\ MacKeyIsOwn' /\ ScanTargetIsOwn' /\ IdentityKeysUnique'
  BY <1>4 DEF TablesSound, CurrentMacOwned, MacKeyIsOwn, ScanTargetIsOwn, IdentityKeysUnique, RecordMac
<1>9. HistoryOnlyOwnMacs'
  BY <1>2 DEF TablesSound, HistoryOnlyOwnMacs, RecordMac
<1>10. PlaceholderNeverStored'
  BY <1>2, <1>4, ConstantsAssumption DEF TablesSound, PlaceholderNeverStored, RecordMac
<1> QED
  BY <1>6, <1>7, <1>8, <1>9, <1>10 DEF TablesSound

(* The upsert files a key once and keeps MACs fit for their keys.          *)
LEMMA UpsertIdentityInv ==
    ASSUME TablesSound, NEW h \in Handlers, UpsertIdentity(h)
    PROVE  TablesSound'
<1> DEFINE q == req[h]
           o == q.obs
           Writes(i) ==
              /\ identities' = [identities EXCEPT ![i] = o.mac]
              /\ AfterUpsert(h, i)
              /\ \A j \in RowsOf(Key(o)) : j = i
<1>1. q \in Request /\ RequestSound(q) /\ q.pc = "upsert" /\ UNCHANGED <<devices, history, owned>>
  BY DEF TablesSound, TypeOK, UpsertIdentity
<1>2. ObservationSound(o)
  BY <1>1 DEF RequestSound
<1>3. Key(o) \in Keys /\ KeyFits(Key(o), o.mac)
  BY <1>2 DEF Key, Keys, KeyFits, ObservationSound, Observation
<1>4. \E i \in IdentityIds : KeyOf(i) = Key(o) /\ Writes(i)
  <2>1. CASE \E j \in RowsOf(Key(o)) : identities' = [identities EXCEPT ![j] = o.mac] /\ AfterUpsert(h, j)
    BY <2>1 DEF TablesSound, IdentityKeysUnique, RowsOf, Unknown
  <2>2. CASE /\ RowsOf(Key(o)) = {}
             /\ FreshIds(Key(o)) # {}
             /\ identities' = [identities EXCEPT ![CHOOSE x \in FreshIds(Key(o)) : TRUE] = o.mac]
             /\ AfterUpsert(h, CHOOSE x \in FreshIds(Key(o)) : TRUE)
    <3>1. PICK i \in FreshIds(Key(o)) : identities' = [identities EXCEPT ![i] = o.mac] /\ AfterUpsert(h, i)
      BY <2>2
    <3>2. i \in IdentityIds /\ KeyOf(i) = Key(o)
      BY <1>3 DEF FreshIds, IdentityIds, KeyOf
    <3> QED
      BY <2>2, <3>1, <3>2
  <2> QED
    BY <2>1, <2>2 DEF UpsertIdentity
<1>5. PICK i \in IdentityIds : KeyOf(i) = Key(o) /\ Writes(i)
  BY <1>4
<1>6. PICK r \in Request : RequestSound(r) /\ req' = [req EXCEPT ![h] = r]
  BY <1>1, <1>2, <1>5, AfterUpsertSound
<1>7. Registered' = Registered /\ Unknown' = Unknown \cup {i}
  BY <1>1, <1>3, <1>5, ConstantsAssumption DEF Registered, Unknown, TablesSound, TypeOK, KeyFits
<1>8. RequestSound(r)'
  BY <1>1, <1>6, <1>7, SoundStable
<1>9. alerts' \in [IdentityIds -> Nat]
  <2>1. alerts' = alerts \/ \E j : alerts' = [alerts EXCEPT ![j] = 0]
    BY DEF UpsertIdentity
  <2> QED
    BY <2>1 DEF TablesSound, TypeOK
<1>14. raced' \subseteq Handlers /\ excused' \subseteq IdentityIds
  <2>1. raced' \subseteq Handlers
    BY DEF UpsertIdentity, Overtake, TablesSound, TypeOK
  <2>2. excused' \subseteq excused \cup Unknown
        \/ excused' \subseteq excused \cup {CHOOSE x \in FreshIds(Key(o)) : TRUE}
    BY DEF UpsertIdentity, RowsOf
  <2>3. FreshIds(Key(o)) # {} => (CHOOSE x \in FreshIds(Key(o)) : TRUE) \in IdentityIds
    BY <1>3 DEF FreshIds, IdentityIds
  <2>4. excused' \subseteq excused \cup Unknown \/ FreshIds(Key(o)) # {}
    BY DEF UpsertIdentity, RowsOf
  <2> QED
    BY <2>1, <2>2, <2>3, <2>4 DEF TablesSound, TypeOK, Unknown
<1>10. TypeOK' /\ \A g \in Handlers : RequestSound(req[g])'
  BY <1>1, <1>3, <1>5, <1>6, <1>7, <1>8, <1>9, <1>14, RequestsStaySound DEF TablesSound, TypeOK, KeyFits
<1>11. (\A j \in Unknown : KeyFits(KeyOf(j), identities[j]))'
  <2>1. \A j \in Unknown : KeyFits(KeyOf(j), identities[j])
    BY DEF TablesSound
  <2>2. \A j \in Unknown' : j # i => j \in Unknown /\ identities'[j] = identities[j]
    BY <1>5, <1>7 DEF TablesSound, TypeOK, Unknown
  <2>3. identities'[i] = o.mac
    BY <1>5 DEF TablesSound, TypeOK
  <2>4. KeyOf(i) = Key(o) /\ KeyFits(Key(o), o.mac)
    BY <1>3, <1>5
  <2>5. KeyFits(KeyOf(i), identities'[i])
    BY <2>3, <2>4
  <2>6. ASSUME NEW j \in Unknown' PROVE KeyFits(KeyOf(j), identities'[j])
    <3>1. CASE j = i
      BY <2>5, <3>1
    <3>2. CASE j # i
      BY <2>1, <2>2, <3>2
    <3> QED
      BY <3>1, <3>2
  <2> QED
    BY <2>6 DEF KeyFits, KeyOf
<1>12. IdentityKeysUnique'
  BY <1>5, <1>7 DEF TablesSound, IdentityKeysUnique, KeyOf, RowsOf
<1>13. /\ CurrentMacOwned' /\ MacKeyIsOwn' /\ ScanTargetIsOwn'
       /\ HistoryOnlyOwnMacs' /\ PlaceholderNeverStored'
  BY <1>1, <1>7 DEF TablesSound, CurrentMacOwned, MacKeyIsOwn, ScanTargetIsOwn, HistoryOnlyOwnMacs, PlaceholderNeverStored
<1> QED
  BY <1>10, <1>11, <1>12, <1>13 DEF TablesSound

(* The alert's transaction touches no row the invariant speaks of.         *)
LEMMA RaiseUnknownAlertInv ==
    ASSUME TablesSound, NEW h \in Handlers, RaiseUnknownAlert(h)
    PROVE  TablesSound'
<1> DEFINE q == req[h]
<1>1. q \in Request /\ RequestSound(q) /\ q.pc = "alert"
  BY DEF TablesSound, TypeOK, RaiseUnknownAlert
<1>2. ObservationSound(q.obs)
  BY <1>1 DEF RequestSound
<1>3. PICK r \in Request : RequestSound(r) /\ req' = [req EXCEPT ![h] = r]
  BY <1>1, <1>2, ObservedSound DEF RaiseUnknownAlert
<1>4. Registered' = Registered /\ Unknown' = Unknown
  BY DEF RaiseUnknownAlert, Registered, Unknown
<1>5. RequestSound(r)'
  BY <1>3, <1>4, SoundStable DEF RaiseUnknownAlert
<1>6. TypeOK' /\ \A g \in Handlers : RequestSound(req[g])'
  <2>1. alerts \in [IdentityIds -> Nat] /\ q.row \in IdentityIds
    BY <1>1 DEF TablesSound, TypeOK, RequestSound
  <2>2. alerts' = [alerts EXCEPT ![q.row] = alerts[q.row] + 1]
    BY DEF RaiseUnknownAlert
  <2>3. alerts' \in [IdentityIds -> Nat]
    BY <2>1, <2>2
  <2> QED
    BY <2>3, <1>3, <1>4, <1>5, RequestsStaySound DEF TablesSound, TypeOK, RaiseUnknownAlert
<1>7. (\A i \in Unknown : KeyFits(KeyOf(i), identities[i]))'
  BY <1>4 DEF TablesSound, KeyFits, KeyOf, RaiseUnknownAlert
<1>8. /\ CurrentMacOwned' /\ MacKeyIsOwn' /\ ScanTargetIsOwn' /\ IdentityKeysUnique'
      /\ HistoryOnlyOwnMacs' /\ PlaceholderNeverStored'
  BY <1>4 DEF TablesSound, CurrentMacOwned, MacKeyIsOwn, ScanTargetIsOwn, IdentityKeysUnique,
     HistoryOnlyOwnMacs, PlaceholderNeverStored, RaiseUnknownAlert
<1> QED
  BY <1>6, <1>7, <1>8 DEF TablesSound

(* The scan address is written to the device that was found by its MAC.    *)
LEMMA SetIpInv ==
    ASSUME TablesSound, NEW h \in Handlers, SetIp(h)
    PROVE  TablesSound'
<1> DEFINE q == req[h]
<1>1. q \in Request /\ RequestSound(q) /\ q.pc = "setIp"
  BY DEF TablesSound, TypeOK, SetIp
<1>2. /\ ObservationSound(q.obs) /\ q.obs.mac \in Macs /\ q.obs.ip \in Ips
      /\ q.dev \in Registered /\ <<q.dev, q.obs.mac>> \in owned
  BY <1>1 DEF RequestSound, ObservationSound
<1>3. CASE q.seen.ip = q.obs.ip
  <2>1. req' = [req EXCEPT ![h] = Idle] /\ UNCHANGED tables
    BY <1>3 DEF SetIp, Respond, tables
  <2> QED
    BY <2>1, IdleSound, ReadStep
<1>4. CASE q.seen.ip # q.obs.ip
  <2>1. /\ devices' = [devices EXCEPT ![q.dev].ip = q.obs.ip, ![q.dev].ipFrom = q.obs.mac]
        /\ req' = [req EXCEPT ![h] = Idle]
        /\ UNCHANGED <<identities, history, owned, marks>>
    BY <1>4 DEF SetIp, Respond
  <2>2. /\ \A d \in DeviceIds : d # q.dev => devices'[d] = devices[d]
        /\ devices'[q.dev] = [devices[q.dev] EXCEPT !.ip = q.obs.ip, !.ipFrom = q.obs.mac]
        /\ devices[q.dev] \in Device
    BY <2>1, <1>2 DEF TablesSound, TypeOK, Registered
  <2>3. /\ devices'[q.dev] \in Device
        /\ devices'[q.dev].mac = devices[q.dev].mac /\ devices'[q.dev].key = devices[q.dev].key
        /\ devices'[q.dev].ip = q.obs.ip /\ devices'[q.dev].ipFrom = q.obs.mac
    BY <2>2, <1>2 DEF Device
  <2>4. devices' \in [DeviceIds -> Device \cup {NONE}]
    BY <2>1, <2>2, <2>3 DEF TablesSound, TypeOK
  <2>5. Registered' = Registered /\ Unknown' = Unknown
    <3>1. devices'[q.dev] # NONE /\ devices[q.dev] # NONE
      BY <2>2, <2>3, ConstantsAssumption
    <3> QED
      BY <2>1, <2>2, <3>1 DEF Registered, Unknown
  <2>6. RequestSound(Idle)'
    BY DEF RequestSound, Idle
  <2>7. TypeOK' /\ \A g \in Handlers : RequestSound(req[g])'
    BY <2>1, <2>4, <2>5, <2>6, IdleSound, RequestsStaySound DEF TablesSound, TypeOK, marks
  <2>8. (\A i \in Unknown : KeyFits(KeyOf(i), identities[i]))' /\ IdentityKeysUnique'
    BY <2>1, <2>5 DEF TablesSound, KeyFits, KeyOf, IdentityKeysUnique
  <2>9. \A d \in Registered : devices'[d].mac = devices[d].mac /\ devices'[d].key = devices[d].key
    BY <2>2, <2>3 DEF Registered
  <2>10. CurrentMacOwned' /\ MacKeyIsOwn' /\ HistoryOnlyOwnMacs'
    <3>1. UNCHANGED <<history, owned>>
      BY <2>1
    <3> QED
      BY <3>1, <2>5, <2>9 DEF TablesSound, CurrentMacOwned, MacKeyIsOwn, HistoryOnlyOwnMacs
  <2>11. \A d \in Registered :
            \/ devices'[d].ip = devices[d].ip /\ devices'[d].ipFrom = devices[d].ipFrom
            \/ d = q.dev /\ devices'[d].ip = q.obs.ip /\ devices'[d].ipFrom = q.obs.mac
    <3>1. \A d \in Registered : d # q.dev => devices'[d] = devices[d]
      BY <2>2 DEF Registered
    <3> QED
      BY <2>3, <3>1
  <2>12. ScanTargetIsOwn'
    BY <2>1, <2>5, <2>11, <1>2 DEF TablesSound, ScanTargetIsOwn
  <2>13. PlaceholderNeverStored'
    BY <2>1, <2>5, <2>9, <2>11, <1>2, ConstantsAssumption DEF TablesSound, PlaceholderNeverStored
  <2> QED
    BY <2>7, <2>8, <2>10, <2>12, <2>13 DEF TablesSound
<1> QED
  BY <1>3, <1>4

(* A new device takes key and MAC of one identity, and owns that MAC.      *)
LEMMA CreateDeviceInv ==
    ASSUME TablesSound, NEW h \in Handlers, CreateDevice(h)
    PROVE  TablesSound'
<1> DEFINE q == req[h]
           k == KeyOf(q.row)
           mac == IF q.mac = Placeholder THEN NONE ELSE q.mac
           dev == [key |-> k, mac |-> mac, ip |-> NONE, ipFrom |-> NONE]
<1>1. q \in Request /\ RequestSound(q) /\ q.pc = "create"
  BY DEF TablesSound, TypeOK, CreateDevice
<1>2. q.row \in IdentityIds /\ k \in Keys /\ KeyFits(k, q.mac)
  BY <1>1 DEF RequestSound, KeyOf, IdentityIds
<1>3. CASE KeyTaken(k, NONE)
  <2>1. req' = [req EXCEPT ![h] = Idle] /\ UNCHANGED tables
    BY <1>3 DEF CreateDevice, Respond, tables, marks
  <2> QED
    BY <2>1, IdleSound, ReadStep
<1>4. CASE ~KeyTaken(k, NONE)
  <2>1. PICK d \in FreeDeviceIds : devices' = [devices EXCEPT ![d] = dev]
                                   /\ owned' = (IF mac = NONE THEN owned ELSE owned \cup {<<d, mac>>})
                                   /\ RespondGiving(h, d, mac)
    BY <1>4 DEF CreateDevice
  <2>2. identities' = [identities EXCEPT ![q.row] = NONE] /\ UNCHANGED <<history, alerts, excused>>
    BY <1>4 DEF CreateDevice
  <2>3. mac \in Macs \cup {NONE} /\ dev \in Device /\ d \in DeviceIds
    BY <1>2 DEF KeyFits, Device, FreeDeviceIds
  <2>4. /\ devices' \in [DeviceIds -> Device \cup {NONE}] /\ devices'[d] = dev
        /\ \A e \in DeviceIds : e # d => devices'[e] = devices[e]
    BY <2>1, <2>3 DEF TablesSound, TypeOK
  <2>5. Registered' = Registered \cup {d} /\ d \notin Registered
    BY <2>1, <2>3, <2>4, ConstantsAssumption DEF Registered, FreeDeviceIds
  <2>6. \A i \in Unknown' : i \in Unknown /\ identities'[i] = identities[i]
    BY <2>2 DEF Unknown, TablesSound, TypeOK
  <2>7. owned \subseteq owned' /\ owned' \subseteq DeviceIds \X (Macs \cup {Placeholder})
    BY <2>1, <2>3 DEF TablesSound, TypeOK
  <2>8. raced' \subseteq Handlers
    BY <1>4 DEF CreateDevice, Overtake, TablesSound, TypeOK
  <2>9. identities' \in [IdentityIds -> Macs \cup {Placeholder, NONE}]
    BY <2>2 DEF TablesSound, TypeOK
  <2>10. TypeOK' /\ \A g \in Handlers : RequestSound(req[g])'
    BY <2>1, <2>2, <2>3, <2>4, <2>5, <2>7, <2>8, <2>9, RequestsStaySoundGiving DEF TablesSound, TypeOK
  <2>11. (\A i \in Unknown : KeyFits(KeyOf(i), identities[i]))' /\ IdentityKeysUnique'
    BY <2>6 DEF TablesSound, KeyFits, KeyOf, IdentityKeysUnique
  <2>12. \A e \in Registered : devices'[e] = devices[e]
    BY <2>4, <2>5 DEF Registered
  <2>13. mac # NONE => <<d, mac>> \in owned'
    BY <2>1
  <2>14. CurrentMacOwned' /\ ScanTargetIsOwn' /\ HistoryOnlyOwnMacs'
    BY <2>2, <2>4, <2>5, <2>7, <2>12, <2>13 DEF TablesSound, CurrentMacOwned, ScanTargetIsOwn, HistoryOnlyOwnMacs
  <2>15. MacKeyIsOwn'
    <3>1. \A m \in Macs \cup {Placeholder} : k = <<"mac", m>> => mac = m /\ m # NONE
      BY <1>2, ConstantsAssumption DEF KeyFits
    <3> QED
      BY <2>4, <2>5, <2>7, <2>12, <2>13, <3>1 DEF TablesSound, MacKeyIsOwn
  <2>16. PlaceholderNeverStored'
    BY <2>2, <2>3, <2>4, <2>5, <2>12, ConstantsAssumption DEF TablesSound, PlaceholderNeverStored
  <2> QED
    BY <2>10, <2>11, <2>14, <2>15, <2>16 DEF TablesSound
<1> QED
  BY <1>3, <1>4

(* A merge gives the device the identity's MAC; key and history stay.      *)
LEMMA MergeIdentityInv ==
    ASSUME TablesSound, NEW h \in Handlers, MergeIdentity(h)
    PROVE  TablesSound'
<1> DEFINE q == req[h]
<1>1. q \in Request /\ RequestSound(q) /\ q.pc = "merge"
  BY DEF TablesSound, TypeOK, MergeIdentity
<1>2. q.dev \in Registered /\ q.mac \in Macs \cup {Placeholder}
  BY <1>1 DEF RequestSound, KeyFits
<1>3. identities' = [identities EXCEPT ![q.row] = NONE] /\ UNCHANGED <<history, alerts, excused>>
  BY DEF MergeIdentity
<1>4. identities' \in [IdentityIds -> Macs \cup {Placeholder, NONE}]
      /\ \A i \in Unknown' : i \in Unknown /\ identities'[i] = identities[i]
  BY <1>3 DEF Unknown, TablesSound, TypeOK
<1>5. (\A i \in Unknown : KeyFits(KeyOf(i), identities[i]))' /\ IdentityKeysUnique'
  BY <1>4 DEF TablesSound, KeyFits, KeyOf, IdentityKeysUnique
<1>6. RequestSound(Idle)' /\ raced' \subseteq Handlers
  BY DEF RequestSound, Idle, MergeIdentity, Overtake, TablesSound, TypeOK
<1>7. CASE req' = [req EXCEPT ![h] = Idle] /\ UNCHANGED <<devices, owned>>
  <2>1. Registered' = Registered
    BY <1>7 DEF Registered
  <2>2. TypeOK' /\ \A g \in Handlers : RequestSound(req[g])'
    BY <1>1, <1>3, <1>4, <1>6, <1>7, <2>1, IdleSound, RequestsStaySound DEF TablesSound, TypeOK
  <2>3. /\ CurrentMacOwned' /\ MacKeyIsOwn' /\ ScanTargetIsOwn'
        /\ HistoryOnlyOwnMacs' /\ PlaceholderNeverStored'
    BY <1>3, <1>7, <2>1 DEF TablesSound, CurrentMacOwned, MacKeyIsOwn, ScanTargetIsOwn, HistoryOnlyOwnMacs,
       PlaceholderNeverStored
  <2> QED
    BY <1>5, <2>2, <2>3 DEF TablesSound
<1>8. CASE /\ q.mac # Placeholder
           /\ devices' = [devices EXCEPT ![q.dev].mac = q.mac]
           /\ owned' = owned \cup {<<q.dev, q.mac>>}
           /\ RespondGiving(h, q.dev, q.mac)
  <2>1. /\ \A d \in DeviceIds : d # q.dev => devices'[d] = devices[d]
        /\ devices'[q.dev] = [devices[q.dev] EXCEPT !.mac = q.mac]
        /\ devices[q.dev] \in Device
    BY <1>2, <1>8 DEF TablesSound, TypeOK, Registered
  <2>2. /\ devices'[q.dev] \in Device /\ devices'[q.dev].mac = q.mac
        /\ devices'[q.dev].key = devices[q.dev].key
        /\ devices'[q.dev].ip = devices[q.dev].ip /\ devices'[q.dev].ipFrom = devices[q.dev].ipFrom
    BY <1>2, <2>1 DEF Device
  <2>3. devices' \in [DeviceIds -> Device \cup {NONE}]
    BY <1>8, <2>1, <2>2 DEF TablesSound, TypeOK
  <2>4. Registered' = Registered
    BY <2>1, <2>2, <1>2, ConstantsAssumption DEF Registered
  <2>5. owned \subseteq owned' /\ owned' \subseteq DeviceIds \X (Macs \cup {Placeholder})
    BY <1>2, <1>8 DEF TablesSound, TypeOK, Registered
  <2>6. TypeOK' /\ \A g \in Handlers : RequestSound(req[g])'
    BY <1>2, <1>3, <1>4, <1>6, <1>8, <2>3, <2>4, <2>5, RequestsStaySoundGiving DEF TablesSound, TypeOK, Registered
  <2>7. \A d \in Registered : /\ devices'[d].key = devices[d].key
                              /\ devices'[d].ip = devices[d].ip
                              /\ devices'[d].ipFrom = devices[d].ipFrom
    <3>1. \A d \in Registered : d # q.dev => devices'[d] = devices[d]
      BY <2>1 DEF Registered
    <3> QED
      BY <2>2, <3>1
  <2>8. \A d \in Registered : \/ devices'[d].mac = devices[d].mac
                              \/ d = q.dev /\ devices'[d].mac = q.mac
    <3>1. \A d \in Registered : d # q.dev => devices'[d] = devices[d]
      BY <2>1 DEF Registered
    <3> QED
      BY <2>2, <3>1
  <2>9. MacKeyIsOwn' /\ ScanTargetIsOwn' /\ HistoryOnlyOwnMacs'
    BY <1>3, <2>4, <2>5, <2>7 DEF TablesSound, MacKeyIsOwn, ScanTargetIsOwn, HistoryOnlyOwnMacs
  <2>10. CurrentMacOwned'
    BY <1>8, <2>4, <2>8 DEF TablesSound, CurrentMacOwned
  <2>11. PlaceholderNeverStored'
    BY <1>3, <1>8, <2>4, <2>7, <2>8 DEF TablesSound, PlaceholderNeverStored
  <2> QED
    BY <1>5, <2>6, <2>9, <2>10, <2>11 DEF TablesSound
<1> QED
  BY <1>7, <1>8 DEF MergeIdentity, Respond

(* A failed request rolls back and leaves the tables alone.                *)
LEMMA FailInv ==
    ASSUME TablesSound, (\E h \in Handlers : Fail(h)) \/ Restart
    PROVE  TablesSound'
<1>1. UNCHANGED <<devices, identities, history, owned, alerts>>
  BY DEF Fail, Restart
<1>2. Registered' = Registered /\ Unknown' = Unknown
  BY <1>1 DEF Registered, Unknown
<1>3. raced' \subseteq Handlers /\ excused' \subseteq IdentityIds
  BY DEF Fail, Restart, LosesAlert, TablesSound, TypeOK, RequestSound
<1>4. RequestSound(Idle)'
  BY DEF RequestSound, Idle
<1>5. req' \in [Handlers -> Request] /\ \A g \in Handlers : RequestSound(req[g])'
  <2>1. ASSUME NEW h \in Handlers, Fail(h)
        PROVE  req' \in [Handlers -> Request] /\ \A g \in Handlers : RequestSound(req[g])'
    BY <1>1, <1>2, <1>4, <2>1, IdleSound, RequestsStaySound DEF Fail, Respond
  <2>2. CASE Restart
    BY <1>4, <2>2, IdleSound DEF Restart
  <2> QED
    BY <2>1, <2>2
<1>6. TypeOK'
  BY <1>1, <1>3, <1>5 DEF TablesSound, TypeOK
<1>7. (\A i \in Unknown : KeyFits(KeyOf(i), identities[i]))' /\ IdentityKeysUnique'
  BY <1>1, <1>2 DEF TablesSound, KeyFits, KeyOf, IdentityKeysUnique
<1>8. /\ CurrentMacOwned' /\ MacKeyIsOwn' /\ ScanTargetIsOwn'
      /\ HistoryOnlyOwnMacs' /\ PlaceholderNeverStored'
  BY <1>1, <1>2 DEF TablesSound, CurrentMacOwned, MacKeyIsOwn, ScanTargetIsOwn,
     HistoryOnlyOwnMacs, PlaceholderNeverStored
<1> QED
  BY <1>5, <1>6, <1>7, <1>8 DEF TablesSound

-----------------------------------------------------------------------------
(* The invariant holds of the empty tables.                                *)
LEMMA InitSound == Init => TablesSound
BY IdleSound, ConstantsAssumption DEF Init, TablesSound, TypeOK, CurrentMacOwned, PlaceholderNeverStored,
   MacKeyIsOwn, HistoryOnlyOwnMacs, ScanTargetIsOwn, IdentityKeysUnique, Registered, Unknown

(* Every step keeps the tables sound.                                      *)
LEMMA TablesStep == TablesSound /\ [Next]_vars => TablesSound'
<1> SUFFICES ASSUME TablesSound, [Next]_vars PROVE TablesSound'
  OBVIOUS
<1>1. ASSUME NEW h \in Handlers, Handle(h) PROVE TablesSound'
  BY <1>1, IngestInv, MatchDeviceInv, UpdateDeviceInv, RecordMacInv, CheckIdentityInv,
     UpsertIdentityInv, RaiseUnknownAlertInv, MatchIpDeviceInv, SetIpInv, RegisterDeviceInv,
     CreateDeviceInv, MergeDeviceInv, LoadTargetInv, MergeIdentityInv, FailInv DEF Handle
<1>2. CASE Restart
  BY <1>2, FailInv
<1>3. CASE UNCHANGED vars
  <2>1. Registered' = Registered /\ Unknown' = Unknown
    BY <1>3 DEF vars, Registered, Unknown
  <2>2. \A g \in Handlers : RequestSound(req[g])'
    BY <1>3, <2>1, SoundStable DEF vars, TablesSound, TypeOK
  <2>3. (\A i \in Unknown : KeyFits(KeyOf(i), identities[i]))'
    BY <1>3, <2>1 DEF TablesSound, vars, KeyFits, KeyOf
  <2> QED
    BY <1>3, <2>1, <2>2, <2>3 DEF TablesSound, vars, TypeOK, CurrentMacOwned, PlaceholderNeverStored,
       MacKeyIsOwn, HistoryOnlyOwnMacs, ScanTargetIsOwn, IdentityKeysUnique
<1> QED
  BY <1>1, <1>2, <1>3 DEF Next

-----------------------------------------------------------------------------
(* What a request has looked up, and the alerts.                           *)

(* A step by which no request starts or stops owing an alert.              *)
LEMMA AlertsStay ==
    ASSUME IInv, \A i \in Unknown' : i \in Unknown, alerts' = alerts, excused \subseteq excused',
           \A g \in Handlers : /\ req'[g].pc = "alert" <=> req[g].pc = "alert"
                               /\ req[g].pc = "alert" => req'[g].row = req[g].row
    PROVE  OneAlertUnlessRaced'
<1>1. \A i : Alerting(i)' = Alerting(i)
  BY DEF Alerting
<1>2. ASSUME NEW i \in Unknown', i \notin excused' PROVE Alerted(i)' \/ AboutToBe(i)'
  BY <1>1, <1>2 DEF IInv, OneAlertUnlessRaced, Alerted, AboutToBe
<1> QED
  BY <1>2 DEF OneAlertUnlessRaced

(* A step that leaves the rows of a checked key as they are unless it races *)
(* the request.                                                            *)
LEMMA ChecksStay ==
    ASSUME IInv, \A g \in raced' : req'[g].pc = "upsert",
           \A g \in Handlers : req'[g].pc = "upsert" /\ g \notin raced' =>
               /\ req[g].pc = "upsert" /\ g \notin raced
               /\ req'[g].obs = req[g].obs /\ req'[g].isNew = req[g].isNew
               /\ \A k : k = Key(req[g].obs) => RowsOf(k)' = RowsOf(k)
    PROVE  ChecksHold'
<1>1. ASSUME NEW g \in Handlers, req'[g].pc = "upsert", g \notin raced'
      PROVE  (req[g].isNew)' <=> (RowsOf(Key(req[g].obs)) = {})'
  <2>1. req[g].isNew <=> RowsOf(Key(req[g].obs)) = {}
    BY <1>1 DEF IInv, ChecksHold
  <2>2. PICK k : k = Key(req[g].obs)
    OBVIOUS
  <2>3. k = Key(req[g].obs)'
    BY <1>1, <2>2 DEF Key
  <2>4. RowsOf(k)' = RowsOf(k)
    BY <1>1, <2>2
  <2>5. RowsOf(Key(req[g].obs)) = RowsOf(k) /\ RowsOf(Key(req[g].obs))' = RowsOf(k)'
    BY <2>2, <2>3 DEF RowsOf
  <2>6. (RowsOf(Key(req[g].obs)) = {})' <=> RowsOf(Key(req[g].obs)) = {}
    BY <2>4, <2>5
  <2> QED
    BY <1>1, <2>1, <2>6
<1> QED
  BY <1>1 DEF ChecksHold

(* Only requests about to upsert are raced.                                *)
LEMMA RacedUpsert == ASSUME IInv PROVE \A g \in raced : g \in Handlers /\ req[g].pc = "upsert"
BY DEF IInv, TablesSound, TypeOK, ChecksHold

(* A step of one request that files nothing and looks nothing up.          *)
LEMMA QuietStep ==
    ASSUME IInv, NEW h \in Handlers, NEW r \in Request, req' = [req EXCEPT ![h] = r],
           req[h].pc \notin {"upsert", "alert"}, r.pc \notin {"check", "upsert", "alert"},
           UNCHANGED <<identities, marks>>, \A m : WithMac(m)' = WithMac(m)
    PROVE  NoPhantomCard' /\ ChecksHold' /\ OneAlertUnlessRaced'
<1>1. /\ req'[h] = r /\ \A g \in Handlers : g # h => req'[g] = req[g]
      /\ \A k : RowsOf(k)' = RowsOf(k) /\ Unknown' = Unknown
  BY DEF IInv, TablesSound, TypeOK, RowsOf, Unknown
<1>2. NoPhantomCard'
  BY <1>1 DEF IInv, NoPhantomCard
<1>3. ChecksHold'
  BY <1>1, ChecksStay DEF IInv, ChecksHold, marks
<1>4. OneAlertUnlessRaced'
  BY <1>1, AlertsStay DEF marks
<1> QED
  BY <1>2, <1>3, <1>4

(* The same of a step that writes no table.                                *)
LEMMA QuietRead ==
    ASSUME IInv, NEW h \in Handlers, NEW r \in Request, req' = [req EXCEPT ![h] = r],
           req[h].pc \notin {"upsert", "alert"}, r.pc \notin {"check", "upsert", "alert"},
           UNCHANGED tables
    PROVE  NoPhantomCard' /\ ChecksHold' /\ OneAlertUnlessRaced'
<1>1. \A m : WithMac(m)' = WithMac(m)
  BY DEF tables, WithMac, Registered
<1> QED
  BY <1>1, QuietStep DEF tables

(* A request goes on to the identity's lookup after it has found no device. *)
LEMMA TowardsCheck ==
    ASSUME IInv, NEW h \in Handlers, NEW r \in Request, req' = [req EXCEPT ![h] = r],
           req[h].pc \notin {"upsert", "alert"}, r.pc = "check", WithMac(r.obs.mac) = {},
           UNCHANGED tables
    PROVE  NoPhantomCard' /\ ChecksHold' /\ OneAlertUnlessRaced'
<1>1. /\ req'[h] = r /\ \A g \in Handlers : g # h => req'[g] = req[g]
      /\ \A k : RowsOf(k)' = RowsOf(k) /\ Unknown' = Unknown
      /\ \A m : WithMac(m)' = WithMac(m)
  BY DEF IInv, TablesSound, TypeOK, RowsOf, Unknown, tables, WithMac, Registered
<1>2. NoPhantomCard'
  BY <1>1 DEF IInv, NoPhantomCard
<1>3. ChecksHold'
  BY <1>1, ChecksStay DEF IInv, ChecksHold, tables, marks
<1>4. OneAlertUnlessRaced'
  BY <1>1, AlertsStay DEF tables, marks
<1> QED
  BY <1>2, <1>3, <1>4

(* A request that answers is quiet.                                        *)
LEMMA QuietIdle == Idle \in Request /\ Idle.pc = "idle" /\ Idle.late = {}
BY IdleSound DEF Idle

LEMMA IngestLookups ==
    ASSUME IInv, NEW h \in Handlers, IngestArp(h) \/ IngestDhcp(h) \/ IngestMdns(h)
    PROVE  NoPhantomCard' /\ ChecksHold' /\ OneAlertUnlessRaced'
<1>1. PICK o \in Observation : Receive(h, o)
  <2>1. /\ \A m \in Macs, a \in Ips : ArpObservation(m, a) \in Observation
        /\ \A m \in Macs, n \in Hosts \cup {NONE} : DhcpObservation(m, n) \in Observation
    BY DEF Observation, ArpObservation, DhcpObservation
  <2>2. \A n \in Hosts : MdnsObservation(n) \in Observation
    BY DEF Observation, MdnsObservation
  <2> QED
    <3>1. CASE IngestArp(h) \/ IngestDhcp(h)
      BY <2>1, <3>1 DEF IngestArp, IngestDhcp
    <3>2. CASE IngestMdns(h)
      BY <2>2, <3>2 DEF IngestMdns
    <3> QED
      BY <3>1, <3>2
<1> DEFINE r == [Idle EXCEPT !.pc = IF o.mac = Placeholder THEN "check" ELSE "match", !.obs = o]
<1>2. /\ r \in Request /\ req' = [req EXCEPT ![h] = r] /\ req[h].pc = "idle" /\ UNCHANGED tables
      /\ r.pc = (IF o.mac = Placeholder THEN "check" ELSE "match") /\ r.obs = o
  BY <1>1, IdleSound DEF Receive, Idle, Request, Steps
<1> HIDE DEF r
<1>3. CASE o.mac = Placeholder
  <2>1. WithMac(Placeholder) = {}
    BY DEF IInv, TablesSound, PlaceholderNeverStored, WithMac
  <2> QED
    BY <1>2, <1>3, <2>1, TowardsCheck
<1>4. CASE o.mac # Placeholder
  BY <1>2, <1>4, QuietRead
<1> QED
  BY <1>3, <1>4

LEMMA MatchDeviceLookups ==
    ASSUME IInv, NEW h \in Handlers, MatchDevice(h)
    PROVE  NoPhantomCard' /\ ChecksHold' /\ OneAlertUnlessRaced'
<1>1. req[h] \in Request /\ req[h].pc = "match" /\ UNCHANGED tables
  BY DEF IInv, TablesSound, TypeOK, MatchDevice
<1>2. CASE WithMac(req[h].obs.mac) = {} /\ req' = [req EXCEPT ![h].pc = "check"]
  <2> DEFINE r == [req[h] EXCEPT !.pc = "check"]
  <2>1. r \in Request /\ r.pc = "check" /\ r.obs = req[h].obs
    BY <1>1 DEF Request, Steps
  <2>2. req' = [req EXCEPT ![h] = r]
    BY <1>2
  <2> HIDE DEF r
  <2> QED
    BY <1>1, <1>2, <2>1, <2>2, TowardsCheck
<1>3. ASSUME NEW d \in WithMac(req[h].obs.mac),
             req' = [req EXCEPT ![h].pc = "update", ![h].dev = d, ![h].seen = LoadDevice(d)]
      PROVE  NoPhantomCard' /\ ChecksHold' /\ OneAlertUnlessRaced'
  <2> DEFINE r == [req[h] EXCEPT !.pc = "update", !.dev = d, !.seen = LoadDevice(d)]
  <2>1. d \in Registered /\ LoadDevice(d) \in DeviceView
    BY LoadedDevice DEF WithMac, IInv
  <2>2. r \in Request /\ r.pc = "update"
    BY <1>1, <2>1 DEF Request, Steps, Registered
  <2>3. req' = [req EXCEPT ![h] = r]
    BY <1>3
  <2> HIDE DEF r
  <2> QED
    BY <1>1, <2>2, <2>3, QuietRead
<1>4. CASE Respond(h)
  BY <1>1, <1>4, QuietIdle, QuietRead DEF Respond
<1> QED
  BY <1>2, <1>3, <1>4 DEF MatchDevice

LEMMA MatchIpDeviceLookups ==
    ASSUME IInv, NEW h \in Handlers, MatchIpDevice(h)
    PROVE  NoPhantomCard' /\ ChecksHold' /\ OneAlertUnlessRaced'
<1>1. req[h] \in Request /\ req[h].pc = "matchIp" /\ UNCHANGED tables
  BY DEF IInv, TablesSound, TypeOK, MatchIpDevice
<1>2. ASSUME NEW d \in WithMac(req[h].obs.mac),
             req' = [req EXCEPT ![h].pc = "setIp", ![h].dev = d, ![h].seen = LoadDevice(d)]
      PROVE  NoPhantomCard' /\ ChecksHold' /\ OneAlertUnlessRaced'
  <2> DEFINE r == [req[h] EXCEPT !.pc = "setIp", !.dev = d, !.seen = LoadDevice(d)]
  <2>1. d \in Registered /\ LoadDevice(d) \in DeviceView
    BY LoadedDevice DEF WithMac, IInv
  <2>2. r \in Request /\ r.pc = "setIp"
    BY <1>1, <2>1 DEF Request, Steps, Registered
  <2>3. req' = [req EXCEPT ![h] = r]
    BY <1>2
  <2> HIDE DEF r
  <2> QED
    BY <1>1, <2>2, <2>3, QuietRead
<1>3. CASE Respond(h)
  BY <1>1, <1>3, QuietIdle, QuietRead DEF Respond
<1> QED
  BY <1>2, <1>3 DEF MatchIpDevice

(* A device written without a change of its MAC.                           *)
LEMMA SameMacs ==
    ASSUME devices \in [DeviceIds -> Device \cup {NONE}], NEW d \in DeviceIds, devices[d] \in Device,
           NEW r \in Device, r.mac = devices[d].mac, devices' = [devices EXCEPT ![d] = r]
    PROVE  \A m : WithMac(m)' = WithMac(m)
<1>1. \A e \in DeviceIds : devices'[e].mac = devices[e].mac /\ (devices'[e] = NONE <=> devices[e] = NONE)
  BY ConstantsAssumption
<1> QED
  BY <1>1 DEF WithMac, Registered

(* An observation writes a device's key and nothing that is looked up.     *)
LEMMA UpdateDeviceLookups ==
    ASSUME IInv, NEW h \in Handlers, UpdateDevice(h)
    PROVE  NoPhantomCard' /\ ChecksHold' /\ OneAlertUnlessRaced'
<1>1. req[h] \in Request /\ req[h].pc = "update" /\ UNCHANGED <<identities, marks>>
  BY DEF IInv, TablesSound, TypeOK, UpdateDevice
<1>2. \A m : WithMac(m)' = WithMac(m)
  <2> DEFINE k == Key(req[h].obs)
             r == [devices[req[h].dev] EXCEPT !.key = k]
  <2>1. CASE devices' = devices
    BY <2>1 DEF WithMac, Registered
  <2>2. CASE devices' = [devices EXCEPT ![req[h].dev].key = k]
    <3>1. ObservationSound(req[h].obs) /\ req[h].dev \in Registered
      BY <1>1 DEF IInv, TablesSound, RequestSound
    <3>2. k \in Keys
      BY <3>1 DEF Key, Keys, ObservationSound, Observation
    <3>3. devices \in [DeviceIds -> Device \cup {NONE}] /\ devices[req[h].dev] \in Device
      BY <3>1 DEF IInv, TablesSound, TypeOK, Registered
    <3>4. r \in Device /\ r.mac = devices[req[h].dev].mac
      BY <3>2, <3>3 DEF Device
    <3>5. devices' = [devices EXCEPT ![req[h].dev] = r]
      BY <2>2
    <3> HIDE DEF r
    <3> QED
      BY <3>1, <3>3, <3>4, <3>5, SameMacs DEF Registered
  <2> QED
    BY <2>1, <2>2 DEF UpdateDevice
<1>3. PICK r \in Request : r.pc \in {"history", "idle"} /\ req' = [req EXCEPT ![h] = r]
  <2>1. Respond(h) \/ req' = [req EXCEPT ![h].pc = "history"]
    BY DEF UpdateDevice
  <2>2. CASE Respond(h)
    BY <2>2, QuietIdle DEF Respond
  <2>3. CASE req' = [req EXCEPT ![h].pc = "history"]
    <3> DEFINE r == [req[h] EXCEPT !.pc = "history"]
    <3>1. r \in Request /\ r.pc = "history"
      BY <1>1 DEF Request, Steps
    <3>2. req' = [req EXCEPT ![h] = r]
      BY <2>3
    <3> HIDE DEF r
    <3> QED
      BY <3>1, <3>2
  <2> QED
    BY <2>1, <2>2, <2>3
<1> QED
  BY <1>1, <1>2, <1>3, QuietStep

LEMMA SetIpLookups ==
    ASSUME IInv, NEW h \in Handlers, SetIp(h)
    PROVE  NoPhantomCard' /\ ChecksHold' /\ OneAlertUnlessRaced'
<1>1. req[h].pc = "setIp" /\ UNCHANGED <<identities, marks>> /\ req' = [req EXCEPT ![h] = Idle]
  BY DEF SetIp, Respond
<1>2. \A m : WithMac(m)' = WithMac(m)
  <2> DEFINE o == req[h].obs
             r == [devices[req[h].dev] EXCEPT !.ip = o.ip, !.ipFrom = o.mac]
  <2>1. CASE devices' = devices
    BY <2>1 DEF WithMac, Registered
  <2>2. CASE devices' = [devices EXCEPT ![req[h].dev].ip = o.ip, ![req[h].dev].ipFrom = o.mac]
    <3>1. o.ip \in Ips /\ o.mac \in Macs /\ req[h].dev \in Registered
      BY <1>1 DEF IInv, TablesSound, RequestSound, ObservationSound
    <3>2. devices \in [DeviceIds -> Device \cup {NONE}] /\ devices[req[h].dev] \in Device
      BY <3>1 DEF IInv, TablesSound, TypeOK, Registered
    <3>3. r \in Device /\ r.mac = devices[req[h].dev].mac
      BY <3>1, <3>2 DEF Device
    <3>4. devices' = [devices EXCEPT ![req[h].dev] = r]
      BY <2>2
    <3> HIDE DEF r
    <3> QED
      BY <3>1, <3>2, <3>3, <3>4, SameMacs DEF Registered
  <2> QED
    BY <2>1, <2>2 DEF SetIp
<1> QED
  BY <1>1, <1>2, QuietIdle, QuietStep

(* After record_observation a request is done or goes on to the address.    *)
LEMMA ObservedQuiet ==
    ASSUME NEW h \in Handlers, req \in [Handlers -> Request], Observed(h)
    PROVE  \E r \in Request : r.pc \in {"matchIp", "idle"} /\ req' = [req EXCEPT ![h] = r]
<1> DEFINE r == [Idle EXCEPT !.pc = "matchIp", !.obs = req[h].obs]
<1>1. Idle \in Request /\ Idle.pc = "idle" /\ r \in Request /\ r.pc = "matchIp"
  BY IdleSound DEF Idle, Request, Steps
<1>2. req' = [req EXCEPT ![h] = r] \/ req' = [req EXCEPT ![h] = Idle]
  BY DEF Observed, Respond
<1> HIDE DEF r
<1> QED
  BY <1>1, <1>2

LEMMA RecordMacLookups ==
    ASSUME IInv, NEW h \in Handlers, RecordMac(h)
    PROVE  NoPhantomCard' /\ ChecksHold' /\ OneAlertUnlessRaced'
<1>1. /\ req[h] \in Request /\ req[h].pc = "history" /\ Observed(h)
      /\ UNCHANGED <<devices, identities, marks>>
  BY DEF IInv, TablesSound, TypeOK, RecordMac
<1>2. \A m : WithMac(m)' = WithMac(m)
  BY <1>1 DEF WithMac, Registered
<1>3. PICK r \in Request : r.pc \in {"matchIp", "idle"} /\ req' = [req EXCEPT ![h] = r]
  BY <1>1, ObservedQuiet DEF IInv, TablesSound, TypeOK
<1> QED
  BY <1>1, <1>2, <1>3, QuietStep

(* Loading an identity or a merge's target is quiet.                       *)
LEMMA LoadLookups ==
    ASSUME IInv, NEW h \in Handlers, RegisterDevice(h) \/ MergeDevice(h) \/ LoadTarget(h)
    PROVE  NoPhantomCard' /\ ChecksHold' /\ OneAlertUnlessRaced'
<1>1. req[h] \in Request /\ req[h].pc \in {"idle", "target"} /\ UNCHANGED tables
  BY DEF IInv, TablesSound, TypeOK, RegisterDevice, MergeDevice, LoadTarget
<1>2. \E r \in Request : r.pc \in {"create", "target", "merge"} /\ req' = [req EXCEPT ![h] = r]
  <2>1. CASE RegisterDevice(h)
    <3>1. PICK i \in Unknown :
            req' = [req EXCEPT ![h] = [Idle EXCEPT !.pc = "create", !.row = i, !.mac = identities[i]]]
      BY <2>1 DEF RegisterDevice
    <3> DEFINE r == [Idle EXCEPT !.pc = "create", !.row = i, !.mac = identities[i]]
    <3>2. r \in Request /\ r.pc = "create"
      BY IdleSound DEF IInv, TablesSound, TypeOK, Unknown, Request, Steps, Idle
    <3> HIDE DEF r
    <3> QED
      BY <3>1, <3>2 DEF r
  <2>2. CASE MergeDevice(h)
    <3>1. PICK i \in Unknown, d \in Registered :
            req' = [req EXCEPT ![h] = [Idle EXCEPT !.pc = "target", !.row = i, !.mac = identities[i], !.dev = d]]
      BY <2>2 DEF MergeDevice
    <3> DEFINE r == [Idle EXCEPT !.pc = "target", !.row = i, !.mac = identities[i], !.dev = d]
    <3>2. r \in Request /\ r.pc = "target"
      BY IdleSound DEF IInv, TablesSound, TypeOK, Unknown, Registered, Request, Steps, Idle
    <3> HIDE DEF r
    <3> QED
      BY <3>1, <3>2 DEF r
  <2>3. CASE LoadTarget(h)
    <3> DEFINE r == [req[h] EXCEPT !.pc = "merge", !.seen = LoadDevice(req[h].dev)]
    <3>1. req[h].dev \in Registered
      BY <2>3 DEF LoadTarget, IInv, TablesSound, RequestSound
    <3>2. LoadDevice(req[h].dev) \in DeviceView
      BY <3>1, LoadedDevice DEF IInv
    <3>3. r \in Request /\ r.pc = "merge"
      BY <1>1, <3>2 DEF Request, Steps
    <3>4. req' = [req EXCEPT ![h] = r]
      BY <2>3 DEF LoadTarget
    <3> HIDE DEF r
    <3> QED
      BY <3>3, <3>4
  <2> QED
    BY <2>1, <2>2, <2>3
<1> QED
  BY <1>1, <1>2, QuietRead

(* What the pre-check finds is so as long as nobody changes it.            *)
LEMMA CheckLookups ==
    ASSUME IInv, NEW h \in Handlers, CheckIdentity(h)
    PROVE  NoPhantomCard' /\ ChecksHold' /\ OneAlertUnlessRaced'
<1> DEFINE r == [req[h] EXCEPT !.pc = "upsert", !.isNew = RowsOf(Key(req[h].obs)) = {}]
<1>1. /\ req[h].pc = "check" /\ UNCHANGED tables
      /\ req'[h] = r /\ \A g \in Handlers : g # h => req'[g] = req[g]
  BY DEF IInv, TablesSound, TypeOK, CheckIdentity
<1>2. /\ r.pc = "upsert" /\ r.obs = req[h].obs /\ r.late = req[h].late
      /\ r.isNew = (RowsOf(Key(req[h].obs)) = {})
  BY DEF IInv, TablesSound, TypeOK, Request
<1> HIDE DEF r
<1>3. /\ \A k : RowsOf(k)' = RowsOf(k) /\ Unknown' = Unknown
      /\ \A m : WithMac(m)' = WithMac(m)
  BY <1>1 DEF RowsOf, Unknown, tables, WithMac, Registered
<1>4. NoPhantomCard'
  BY <1>1, <1>2, <1>3 DEF IInv, NoPhantomCard
<1>5. ChecksHold'
  <2>1. ASSUME NEW g \in Handlers, g # h, req'[g].pc = "upsert", g \notin raced
        PROVE  (req[g].isNew)' <=> (RowsOf(Key(req[g].obs)) = {})'
    BY <1>1, <2>1 DEF IInv, ChecksHold, RowsOf, Key, Unknown, tables
  <2>2. (req[h].isNew)' <=> (RowsOf(Key(req[h].obs)) = {})'
    <3>1. PICK k : k = Key(req[h].obs)
      OBVIOUS
    <3>2. k = Key(req[h].obs)'
      BY <1>1, <1>2, <3>1 DEF Key
    <3>3. RowsOf(Key(req[h].obs))' = RowsOf(Key(req[h].obs))
      BY <1>3, <3>1, <3>2 DEF RowsOf
    <3> QED
      BY <1>1, <1>2, <3>3
  <2>3. \A g \in raced' : req'[g].pc = "upsert"
    BY <1>1, <1>2, RacedUpsert DEF tables, marks
  <2> QED
    BY <1>1, <2>1, <2>2, <2>3 DEF ChecksHold, tables, marks
<1>6. OneAlertUnlessRaced'
  BY <1>1, <1>2, <1>3, AlertsStay DEF tables, marks
<1> QED
  BY <1>4, <1>5, <1>6

(* The upsert acts on what its pre-check found unless it is raced: it       *)
(* raises an alert for a row it has inserted, and for that row only.        *)
LEMMA UpsertLookups ==
    ASSUME IInv, NEW h \in Handlers, UpsertIdentity(h)
    PROVE  NoPhantomCard' /\ ChecksHold' /\ OneAlertUnlessRaced'
<1> DEFINE o == req[h].obs
<1>1. /\ req \in [Handlers -> Request] /\ req[h].pc = "upsert" /\ UNCHANGED devices
      /\ identities \in [IdentityIds -> Macs \cup {Placeholder, NONE}]
      /\ alerts \in [IdentityIds -> Nat]
      /\ ObservationSound(o)
  BY DEF IInv, TablesSound, TypeOK, UpsertIdentity, RequestSound
<1>2. o.mac # NONE /\ Key(o) \in Keys
  BY <1>1, ConstantsAssumption DEF ObservationSound, Observation, Key, Keys
<1>3. h \notin raced => (req[h].isNew <=> RowsOf(Key(o)) = {})
  BY <1>1 DEF IInv, ChecksHold
<1>4. \A m : WithMac(m)' = WithMac(m)
  BY <1>1 DEF WithMac, Registered
<1>5. ASSUME NEW i \in IdentityIds, AfterUpsert(h, i)
      PROVE  /\ \A g \in Handlers : g # h => req'[g] = req[g]
             /\ req'[h].pc \notin {"check", "upsert"}
             /\ req'[h].pc = "alert" <=> req[h].isNew
             /\ req[h].isNew => req'[h].row = i
  <2>1. CASE req[h].isNew
    <3> DEFINE r == [req[h] EXCEPT !.pc = "alert", !.row = i]
    <3>1. r.pc = "alert" /\ r.row = i
      BY <1>1 DEF Request
    <3>2. req' = [req EXCEPT ![h] = r]
      BY <1>5, <2>1 DEF AfterUpsert
    <3> HIDE DEF r
    <3> QED
      BY <1>1, <2>1, <3>1, <3>2
  <2>2. CASE ~req[h].isNew
    <3>1. PICK r \in Request : r.pc \in {"matchIp", "idle"} /\ req' = [req EXCEPT ![h] = r]
      BY <1>1, <1>5, <2>2, ObservedQuiet DEF AfterUpsert
    <3> QED
      BY <1>1, <2>2, <3>1
  <2> QED
    BY <2>1, <2>2
<1>6. CASE \E j \in RowsOf(Key(o)) :
             /\ identities' = [identities EXCEPT ![j] = o.mac]
             /\ AfterUpsert(h, j)
             /\ raced' = raced \ {h}
             /\ excused' = IF h \in raced THEN excused \cup {j} ELSE excused
             /\ UNCHANGED alerts
  <2>1. PICK j \in RowsOf(Key(o)) :
             /\ identities' = [identities EXCEPT ![j] = o.mac]
             /\ AfterUpsert(h, j)
             /\ raced' = raced \ {h}
             /\ excused' = IF h \in raced THEN excused \cup {j} ELSE excused
             /\ UNCHANGED alerts
    BY <1>6
  <2>2. j \in Unknown /\ j \in IdentityIds /\ Unknown' = Unknown /\ \A k : RowsOf(k)' = RowsOf(k)
    BY <1>1, <1>2, <2>1 DEF RowsOf, Unknown
  <2>3. /\ \A g \in Handlers : g # h => req'[g] = req[g]
        /\ req'[h].pc \notin {"check", "upsert"}
        /\ req'[h].pc = "alert" <=> req[h].isNew
        /\ req[h].isNew => req'[h].row = j
    BY <1>5, <2>1, <2>2
  <2>4. NoPhantomCard'
    BY <1>4, <2>3 DEF IInv, NoPhantomCard
  <2>5. ChecksHold'
    BY <2>1, <2>2, <2>3, ChecksStay, RacedUpsert
  <2>6. OneAlertUnlessRaced'
    <3>1. CASE h \in raced
      <4>1. ASSUME NEW i \in Unknown, i # j PROVE Alerting(i)' = Alerting(i)
        BY <1>1, <2>3, <4>1 DEF Alerting
      <4>2. excused' = excused \cup {j}
        BY <2>1, <3>1
      <4> QED
        BY <2>1, <2>2, <4>1, <4>2 DEF IInv, OneAlertUnlessRaced, Alerted, AboutToBe
    <3>2. CASE h \notin raced
      <4>1. ~req[h].isNew
        BY <1>3, <2>1, <3>2
      <4> QED
        BY <1>1, <2>1, <2>2, <2>3, <3>2, <4>1, AlertsStay
    <3> QED
      BY <3>1, <3>2
  <2> QED
    BY <2>4, <2>5, <2>6
<1>7. CASE /\ RowsOf(Key(o)) = {}
           /\ FreshIds(Key(o)) # {}
           /\ identities' = [identities EXCEPT ![CHOOSE x \in FreshIds(Key(o)) : TRUE] = o.mac]
           /\ alerts' = [alerts EXCEPT ![CHOOSE x \in FreshIds(Key(o)) : TRUE] = 0]
           /\ AfterUpsert(h, CHOOSE x \in FreshIds(Key(o)) : TRUE)
           /\ Overtake(h, Key(o))
           /\ excused' = IF h \in raced THEN excused \cup {CHOOSE x \in FreshIds(Key(o)) : TRUE}
                         ELSE excused \ {CHOOSE x \in FreshIds(Key(o)) : TRUE}
  <2>1. PICK i \in FreshIds(Key(o)) :
           /\ identities' = [identities EXCEPT ![i] = o.mac]
           /\ alerts' = [alerts EXCEPT ![i] = 0]
           /\ AfterUpsert(h, i)
           /\ Overtake(h, Key(o))
           /\ excused' = IF h \in raced THEN excused \cup {i} ELSE excused \ {i}
    BY <1>7
  <2>2. /\ i \in IdentityIds /\ KeyOf(i) = Key(o) /\ i \notin Unknown
        /\ \A g \in Handlers : req[g].row # i
    BY <1>2, <2>1 DEF FreshIds, IdentityIds, KeyOf
  <2>3. Unknown' = Unknown \cup {i} /\ \A k : k # Key(o) => RowsOf(k)' = RowsOf(k)
    BY <1>1, <1>2, <2>1, <2>2 DEF RowsOf, Unknown
  <2>4. /\ \A g \in Handlers : g # h => req'[g] = req[g]
        /\ req'[h].pc \notin {"check", "upsert"}
        /\ req'[h].pc = "alert" <=> req[h].isNew
        /\ req[h].isNew => req'[h].row = i
    BY <1>5, <2>1, <2>2
  <2>5. NoPhantomCard'
    BY <1>4, <2>4 DEF IInv, NoPhantomCard
  <2>6. ChecksHold'
    <3>1. raced' = (raced \ {h}) \cup
                      {g \in Handlers \ {h} : req[g].pc = "upsert" /\ Key(req[g].obs) = Key(o)}
      BY <2>1 DEF Overtake
    <3> QED
      BY <2>3, <2>4, <3>1, ChecksStay, RacedUpsert
  <2>7. OneAlertUnlessRaced'
    <3>1. \A j \in Unknown : Alerting(j)' = Alerting(j) /\ alerts'[j] = alerts[j] /\ j # i
      BY <1>1, <2>1, <2>2, <2>4 DEF Alerting, Unknown
    <3>2. \A j \in Unknown : j \in excused => j \in excused'
      BY <2>1, <2>2
    <3>3. h \notin raced => AboutToBe(i)'
      <4>1. Alerting(i) = {} /\ alerts'[i] = 0
        BY <1>1, <2>1, <2>2 DEF Alerting
      <4>2. h \notin raced => Alerting(i)' = {h}
        BY <1>3, <1>7, <2>2, <2>4 DEF Alerting
      <4> QED
        BY <4>1, <4>2 DEF AboutToBe
    <3>4. h \in raced => i \in excused'
      BY <2>1
    <3> QED
      BY <2>3, <3>1, <3>2, <3>3, <3>4 DEF IInv, OneAlertUnlessRaced, Alerted, AboutToBe
  <2> QED
    BY <2>5, <2>6, <2>7
<1> QED
  BY <1>6, <1>7 DEF UpsertIdentity

(* A row about to be alerted by one request is alerted once.               *)
LEMMA RaiseLookups ==
    ASSUME IInv, NEW h \in Handlers, RaiseUnknownAlert(h)
    PROVE  NoPhantomCard' /\ ChecksHold' /\ OneAlertUnlessRaced'
<1>1. /\ req \in [Handlers -> Request] /\ req[h].pc = "alert" /\ Observed(h)
      /\ alerts \in [IdentityIds -> Nat] /\ req[h].row \in IdentityIds
      /\ UNCHANGED <<devices, identities, raced, excused>>
  BY DEF IInv, TablesSound, TypeOK, RaiseUnknownAlert, RequestSound
<1>2. PICK r \in Request : r.pc \in {"matchIp", "idle"} /\ req' = [req EXCEPT ![h] = r]
  BY <1>1, ObservedQuiet
<1>3. req'[h] = r /\ \A g \in Handlers : g # h => req'[g] = req[g]
  BY <1>1, <1>2
<1>4. /\ \A k : RowsOf(k)' = RowsOf(k) /\ Unknown' = Unknown
      /\ \A m : WithMac(m)' = WithMac(m)
  BY <1>1 DEF RowsOf, Unknown, WithMac, Registered
<1>5. NoPhantomCard'
  BY <1>2, <1>3, <1>4 DEF IInv, NoPhantomCard
<1>6. ChecksHold'
  BY <1>1, <1>2, <1>3, <1>4, ChecksStay DEF IInv, ChecksHold
<1>7. OneAlertUnlessRaced'
  <2>1. ASSUME NEW i \in Unknown, i # req[h].row
        PROVE  Alerting(i)' = Alerting(i) /\ alerts'[i] = alerts[i]
    BY <1>1, <1>2, <1>3, <2>1 DEF Alerting, RaiseUnknownAlert, Unknown
  <2>2. /\ alerts'[req[h].row] = alerts[req[h].row] + 1
        /\ h \in Alerting(req[h].row)
        /\ \A i : i = req[h].row => Alerting(i)' = Alerting(i) \ {h}
    BY <1>1, <1>2, <1>3 DEF Alerting, RaiseUnknownAlert
  <2>3. ASSUME NEW i \in Unknown, i = req[h].row, Alerted(i) \/ AboutToBe(i) PROVE Alerted(i)'
    BY <2>2, <2>3 DEF Alerted, AboutToBe
  <2> QED
    BY <1>1, <1>4, <2>1, <2>3 DEF IInv, OneAlertUnlessRaced, Alerted, AboutToBe
<1> QED
  BY <1>5, <1>6, <1>7

(* Dropping a row races the requests about to upsert its key.              *)
LEMMA DropLookups ==
    ASSUME IInv, NEW h \in Handlers, NEW i \in IdentityIds,
           req[h].pc \notin {"upsert", "alert"}, req'[h].pc = "idle",
           \A g \in Handlers : g # h => /\ req'[g].pc = req[g].pc /\ req'[g].obs = req[g].obs
                                        /\ req'[g].isNew = req[g].isNew /\ req'[g].row = req[g].row,
           identities' = [identities EXCEPT ![i] = NONE], Overtake(h, KeyOf(i)),
           UNCHANGED <<alerts, excused>>
    PROVE  ChecksHold' /\ OneAlertUnlessRaced'
<1>1. /\ Unknown' = Unknown \ {i}
      /\ \A k : k # KeyOf(i) => RowsOf(k)' = RowsOf(k)
  BY DEF IInv, TablesSound, TypeOK, RowsOf, Unknown
<1>2. ChecksHold'
  BY <1>1, ChecksStay, RacedUpsert DEF Overtake
<1>3. OneAlertUnlessRaced'
  BY <1>1, AlertsStay
<1> QED
  BY <1>2, <1>3

(* A device gets a MAC: the requests that had found none with it note it.  *)
LEMMA GivenMac ==
    ASSUME IInv, NEW h \in Handlers, NEW d \in DeviceIds, NEW m,
           RespondGiving(h, d, m), \A x : x # NONE => WithMac(x)' \subseteq WithMac(x) \cup {e \in {d} : x = m}
    PROVE  /\ NoPhantomCard'
           /\ req'[h].pc = "idle"
           /\ \A g \in Handlers : g # h => /\ req'[g].pc = req[g].pc /\ req'[g].obs = req[g].obs
                                            /\ req'[g].isNew = req[g].isNew /\ req'[g].row = req[g].row
<1>1. req'[h].pc = "idle"
  BY DEF RespondGiving, Idle
<1>2. ASSUME NEW g \in Handlers, g # h
      PROVE  /\ req'[g].pc = req[g].pc /\ req'[g].obs = req[g].obs
             /\ req'[g].isNew = req[g].isNew /\ req'[g].row = req[g].row
             /\ req'[g].late = IF req[g].pc \in {"check", "upsert"} /\ req[g].obs.mac = m
                               THEN req[g].late \cup {d} ELSE req[g].late
  BY <1>2 DEF RespondGiving, IInv, TablesSound, TypeOK, Request
<1>3. ASSUME NEW g \in Handlers, g # h, req[g].pc \in {"check", "upsert"}
      PROVE  WithMac(req[g].obs.mac)' \subseteq req'[g].late
  <2>1. ObservationSound(req[g].obs) /\ req[g].obs.mac # NONE
    BY <1>3, ConstantsAssumption DEF IInv, TablesSound, RequestSound, ObservationSound, Observation
  <2>2. WithMac(req[g].obs.mac) \subseteq req[g].late
    BY <1>3 DEF IInv, NoPhantomCard
  <2>3. \A x : x = req[g].obs.mac => WithMac(x)' \subseteq req'[g].late
    BY <1>2, <1>3, <2>1, <2>2
  <2> QED
    BY <1>2, <1>3, <2>3 DEF WithMac
<1> QED
  BY <1>1, <1>2, <1>3 DEF NoPhantomCard

LEMMA CreateLookups ==
    ASSUME IInv, NEW h \in Handlers, CreateDevice(h)
    PROVE  NoPhantomCard' /\ ChecksHold' /\ OneAlertUnlessRaced'
<1> DEFINE q == req[h]
           mac == IF q.mac = Placeholder THEN NONE ELSE q.mac
           dev == [key |-> KeyOf(q.row), mac |-> mac, ip |-> NONE, ipFrom |-> NONE]
<1>1. req[h].pc = "create" /\ q.row \in IdentityIds
  BY DEF CreateDevice, IInv, TablesSound, RequestSound
<1>2. CASE KeyTaken(KeyOf(q.row), NONE)
  <2>1. req' = [req EXCEPT ![h] = Idle] /\ UNCHANGED tables
    <3>1. UNCHANGED history /\ UNCHANGED alerts /\ UNCHANGED excused
      BY DEF CreateDevice
    <3> QED
      BY <1>2, <3>1 DEF CreateDevice, Respond, tables, marks
  <2> QED
    BY <1>1, <2>1, QuietIdle, QuietRead
<1>3. CASE ~KeyTaken(KeyOf(q.row), NONE)
  <2>1. PICK d \in FreeDeviceIds : devices' = [devices EXCEPT ![d] = dev] /\ RespondGiving(h, d, mac)
    BY <1>3 DEF CreateDevice
  <2>2. d \in DeviceIds /\ devices \in [DeviceIds -> Device \cup {NONE}]
    BY DEF FreeDeviceIds, IInv, TablesSound, TypeOK
  <2>3. devices'[d].mac = mac /\ \A e \in DeviceIds : e # d => devices'[e] = devices[e]
    BY <2>1, <2>2
  <2>4. \A x : x # NONE => WithMac(x)' \subseteq WithMac(x) \cup {e \in {d} : x = mac}
    BY <2>2, <2>3 DEF WithMac, Registered
  <2>5. /\ identities' = [identities EXCEPT ![q.row] = NONE] /\ Overtake(h, KeyOf(q.row))
        /\ UNCHANGED <<alerts, excused>>
    BY <1>3 DEF CreateDevice
  <2> HIDE DEF mac
  <2> QED
    BY <1>1, <2>1, <2>2, <2>4, <2>5, GivenMac, DropLookups
<1> QED
  BY <1>2, <1>3

LEMMA MergeLookups ==
    ASSUME IInv, NEW h \in Handlers, MergeIdentity(h)
    PROVE  NoPhantomCard' /\ ChecksHold' /\ OneAlertUnlessRaced'
<1> DEFINE q == req[h]
<1>1. q.pc = "merge" /\ q.row \in IdentityIds /\ q.dev \in Registered
  BY DEF MergeIdentity, IInv, TablesSound, RequestSound
<1>2. /\ identities' = [identities EXCEPT ![q.row] = NONE] /\ Overtake(h, KeyOf(q.row))
      /\ UNCHANGED <<alerts, excused>>
  BY DEF MergeIdentity
<1>3. CASE req' = [req EXCEPT ![h] = Idle] /\ UNCHANGED devices
  <2>1. /\ req'[h] = Idle /\ \A g \in Handlers : g # h => req'[g] = req[g]
        /\ \A m : WithMac(m)' = WithMac(m)
    BY <1>3 DEF IInv, TablesSound, TypeOK, WithMac, Registered
  <2>2. NoPhantomCard'
    BY <2>1, QuietIdle DEF IInv, NoPhantomCard
  <2>3. ChecksHold' /\ OneAlertUnlessRaced'
    BY <1>1, <1>2, <2>1, QuietIdle, DropLookups
  <2> QED
    BY <2>2, <2>3
<1>4. CASE RespondGiving(h, q.dev, q.mac) /\ devices' = [devices EXCEPT ![q.dev].mac = q.mac]
  <2>1. devices \in [DeviceIds -> Device \cup {NONE}] /\ devices[q.dev] \in Device /\ q.dev \in DeviceIds
    BY <1>1 DEF IInv, TablesSound, TypeOK, Registered
  <2> DEFINE r == [devices[q.dev] EXCEPT !.mac = q.mac]
  <2>2. r.mac = q.mac
    BY <2>1 DEF Device
  <2>3. devices' = [devices EXCEPT ![q.dev] = r]
    BY <1>4
  <2> HIDE DEF r
  <2>4. devices'[q.dev].mac = q.mac /\ \A e \in DeviceIds : e # q.dev => devices'[e] = devices[e]
    BY <2>1, <2>2, <2>3
  <2>5. \A x : x # NONE => WithMac(x)' \subseteq WithMac(x) \cup {e \in {q.dev} : x = q.mac}
    BY <2>4 DEF WithMac, Registered
  <2> QED
    BY <1>1, <1>2, <1>4, <2>1, <2>5, GivenMac, DropLookups
<1> QED
  BY <1>3, <1>4 DEF MergeIdentity, Respond

(* A failed request excuses the row it owed an alert.                      *)
LEMMA FailLookups ==
    ASSUME IInv, (\E h \in Handlers : Fail(h)) \/ Restart
    PROVE  NoPhantomCard' /\ ChecksHold' /\ OneAlertUnlessRaced'
<1>1. PICK H \in SUBSET Handlers :
         /\ \A g \in Handlers : req'[g] = IF g \in H THEN Idle ELSE req[g]
         /\ LosesAlert(H)
  <2>1. ASSUME NEW h \in Handlers, Fail(h)
        PROVE  /\ \A g \in Handlers : req'[g] = IF g \in {h} THEN Idle ELSE req[g]
               /\ LosesAlert({h})
    BY <2>1 DEF Fail, Respond, IInv, TablesSound, TypeOK
  <2>2. CASE Restart
    BY <2>2 DEF Restart
  <2> QED
    BY <2>1, <2>2
<1>2. UNCHANGED <<devices, identities, alerts>>
  BY DEF Fail, Restart
<1>3. /\ \A k : RowsOf(k)' = RowsOf(k) /\ Unknown' = Unknown
      /\ \A m : WithMac(m)' = WithMac(m)
  BY <1>2 DEF RowsOf, Unknown, WithMac, Registered
<1>4. NoPhantomCard'
  BY <1>1, <1>3, QuietIdle DEF IInv, NoPhantomCard
<1>5. ChecksHold'
  BY <1>1, <1>3, QuietIdle, ChecksStay, RacedUpsert DEF LosesAlert
<1>6. OneAlertUnlessRaced'
  <2>1. ASSUME NEW i \in Unknown, i \notin excused' PROVE Alerting(i)' = Alerting(i) /\ i \notin excused
    BY <1>1, <2>1, QuietIdle DEF Alerting, LosesAlert
  <2> QED
    BY <1>2, <1>3, <2>1 DEF IInv, OneAlertUnlessRaced, Alerted, AboutToBe
<1> QED
  BY <1>4, <1>5, <1>6

-----------------------------------------------------------------------------
LEMMA InitInv == Init => IInv
<1> SUFFICES ASSUME Init PROVE IInv
  OBVIOUS
<1>1. Unknown = {} /\ raced = {} /\ \A h \in Handlers : req[h].pc = "idle"
  BY DEF Init, Idle, Unknown
<1> QED
  BY <1>1, InitSound DEF IInv, NoPhantomCard, ChecksHold, OneAlertUnlessRaced

(* Every step keeps the invariant.                                         *)
LEMMA InvariantStep == IInv /\ [Next]_vars => IInv'
<1> SUFFICES ASSUME IInv, [Next]_vars PROVE IInv'
  OBVIOUS
<1>1. TablesSound'
  BY TablesStep DEF IInv
<1>2. ASSUME NEW h \in Handlers, Handle(h) PROVE NoPhantomCard' /\ ChecksHold' /\ OneAlertUnlessRaced'
  BY <1>2, IngestLookups, MatchDeviceLookups, UpdateDeviceLookups, RecordMacLookups, CheckLookups,
     UpsertLookups, RaiseLookups, MatchIpDeviceLookups, SetIpLookups, LoadLookups, CreateLookups,
     MergeLookups, FailLookups DEF Handle
<1>3. CASE Restart
  BY <1>1, <1>3, FailLookups DEF IInv
<1>4. CASE UNCHANGED vars
  <2>1. NoPhantomCard'
    BY <1>4 DEF vars, IInv, NoPhantomCard, WithMac, Registered
  <2>2. ChecksHold'
    BY <1>4 DEF vars, IInv, ChecksHold, RowsOf, Unknown, Key
  <2>3. OneAlertUnlessRaced'
    BY <1>4 DEF vars, IInv, OneAlertUnlessRaced, Alerted, AboutToBe, Alerting, Unknown
  <2> QED
    BY <1>1, <2>1, <2>2, <2>3 DEF IInv
<1> QED
  BY <1>1, <1>2, <1>3, <1>4 DEF Next, IInv

(* The invariant of every instance of the registry: any number of requests *)
(* in flight, any interleaving of their commits, any failures.             *)
THEOREM RegistryInvariant == Spec => []IInv
BY InitInv, InvariantStep, PTL DEF Spec

(* Every reachable row and request is well formed.                         *)
THEOREM TypeCorrect == Spec => []TypeOK
<1>1. IInv => TypeOK
  BY DEF IInv, TablesSound
<1> QED
  BY <1>1, RegistryInvariant, PTL

(* CR-05: the shared mDNS MAC never reaches a device or its history.       *)
THEOREM PlaceholderIsolated == Spec => []PlaceholderNeverStored
<1>1. IInv => PlaceholderNeverStored
  BY DEF IInv, TablesSound
<1> QED
  BY <1>1, RegistryInvariant, PTL

(* A device's mac: key names a MAC that was its own.                       *)
THEOREM MacKeysOwn == Spec => []MacKeyIsOwn
<1>1. IInv => MacKeyIsOwn
  BY DEF IInv, TablesSound
<1> QED
  BY <1>1, RegistryInvariant, PTL

(* A device's MAC history holds MACs that were its own only.               *)
THEOREM HistoryOwn == Spec => []HistoryOnlyOwnMacs
<1>1. IInv => HistoryOnlyOwnMacs
  BY DEF IInv, TablesSound
<1> QED
  BY <1>1, RegistryInvariant, PTL

(* A device's scan target was claimed by a MAC that was its own.           *)
THEOREM ScanTargetOwn == Spec => []ScanTargetIsOwn
<1>1. IInv => ScanTargetIsOwn
  BY DEF IInv, TablesSound
<1> QED
  BY <1>1, RegistryInvariant, PTL

(* Pitfall 2, whatever overlaps: a request that goes on to file an unknown *)
(* identity had found no device with its MAC, and if one has it by now it   *)
(* was registered or merged in between.                                    *)
THEOREM NoCardForDevices == Spec => []NoPhantomCard
<1>1. IInv => NoPhantomCard
  BY DEF IInv
<1> QED
  BY <1>1, RegistryInvariant, PTL

(* SEC-02, whatever overlaps and fails: an identity without its one alert   *)
(* was written by a request overtaken between check and upsert, or lost it  *)
(* to a failure.                                                            *)
THEOREM AlertedUnlessRaced == Spec => []OneAlertUnlessRaced
<1>1. IInv => OneAlertUnlessRaced
  BY DEF IInv
<1> QED
  BY <1>1, RegistryInvariant, PTL
=============================================================================
