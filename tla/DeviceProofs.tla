---------------------------- MODULE DeviceProofs ----------------------------
(***************************************************************************)
(* The persistent state of the device, for any range of values, any number *)
(* of calls, failing flash operations, uploads and resets: the settings    *)
(* that were acknowledged, the images the bootloader may start, and the    *)
(* factory reset that was asked for.                                       *)
(***************************************************************************)
EXTENDS BootManager, TLAPS

Config == [Fields -> Values \cup {None}]
Store  == [Keys -> Values \cup {None}]

-----------------------------------------------------------------------------
(* Requests and loading *)

\* A call sets fields to values in range, and writes exactly the keys of these fields; of a place it
\* sets both coordinates, and reports the failure of either.
WellFormed(c) ==
  /\ DOMAIN c.sets \subseteq Fields
  /\ \A f \in DOMAIN c.sets : c.sets[f] \in Values
  /\ c.keys \in Seq(Keys \cap DOMAIN c.sets)
  /\ \A k \in Keys \cap DOMAIN c.sets : \E i \in 1 .. Len(c.keys) : c.keys[i] = k
  /\ "lat" \in DOMAIN c.sets <=> "lon" \in DOMAIN c.sets
  /\ "lat" \in DOMAIN c.sets => c.quiet = {}

\* What the cast to an unsigned type gives is a natural number.
LEMMA CastIsNat == \A v \in Nat : Cast(v) \in Nat
BY ConfigConstants DEF Cast

\* Each setter of svc_config.c, the presets and the credentials are well formed once their checks
\* have let them pass.
LEMMA AcceptedWellFormed ==
  ASSUME NEW c \in Requests, Accepted(c)
  PROVE  WellFormed(c)
<1> DEFINE InRange(sets) == \A f \in DOMAIN sets : sets[f] <= Limit
<1>0. Limit \in Nat /\ 1 <= Limit /\ Width \in Nat
  BY ConfigConstants
<1>1. ASSUME NEW v \in Nat, c = SetMethod(v) PROVE WellFormed(c)
  BY <1>0, <1>1 DEF SetMethod, Calling, Accepted, WellFormed, Values, Fields, Keys, ConfigKeys
<1>2. ASSUME NEW v \in Nat, c = SetLocation(v, v) PROVE WellFormed(c)
  <2>1. /\ c.sets = [lat |-> v, lon |-> v, located |-> 1] /\ c.keys = <<"lat", "lon">> /\ c.quiet = {}
    BY <1>2 DEF SetLocation, Calling
  <2>2. v \in Values /\ 1 \in Values
    <3>1. "lat" \in DOMAIN c.sets /\ c.sets["lat"] = v
      BY <2>1
    <3>2. v <= Limit
      BY <3>1 DEF Accepted
    <3> QED BY <1>0, <3>2 DEF Values
  <2>3. DOMAIN c.sets = {"lat", "lon", "located"} /\ Keys \cap DOMAIN c.sets = {"lat", "lon"}
    BY <2>1 DEF Keys, ConfigKeys, SeasonKeys
  <2>4. c.keys[1] = "lat" /\ c.keys[2] = "lon" /\ Len(c.keys) = 2
    BY <2>1
  <2>5. c.keys \in Seq(Keys \cap DOMAIN c.sets)
    BY <2>1, <2>3
  <2>6. \A k \in Keys \cap DOMAIN c.sets : \E i \in 1 .. Len(c.keys) : c.keys[i] = k
    BY <2>3, <2>4
  <2> QED BY <2>1, <2>2, <2>3, <2>5, <2>6 DEF WellFormed, Fields, Keys, ConfigKeys
<1>3. ASSUME NEW v \in Nat, c = SetIqamah(v) PROVE WellFormed(c)
  <2>1. c.sets = [iqamah |-> v, offW |-> v, offS |-> v] /\ c.keys = <<"iqamah", "offW", "offS">>
    BY <1>3 DEF SetIqamah, Calling
  <2>2. v \in Values
    BY <1>0, <2>1 DEF Accepted, Values
  <2>3. DOMAIN c.sets = {"iqamah", "offW", "offS"} /\ Keys \cap DOMAIN c.sets = {"iqamah", "offW", "offS"}
    BY <2>1 DEF Keys, ConfigKeys
  <2>4. c.keys[1] = "iqamah" /\ c.keys[2] = "offW" /\ c.keys[3] = "offS" /\ Len(c.keys) = 3
    BY <2>1
  <2>5. c.keys \in Seq(Keys \cap DOMAIN c.sets)
    BY <2>1, <2>3
  <2>6. \A k \in Keys \cap DOMAIN c.sets : \E i \in 1 .. Len(c.keys) : c.keys[i] = k
    BY <2>3, <2>4
  <2> QED BY <2>1, <2>2, <2>3, <2>5, <2>6 DEF WellFormed, Fields, Keys, ConfigKeys
<1>4. ASSUME NEW v \in Nat, c = SetWinter(0, v) PROVE WellFormed(c)
  BY <1>0, <1>4 DEF SetWinter, Calling, Accepted, WellFormed, Values, Fields, Keys, ConfigKeys
<1>5. ASSUME NEW v \in Nat, c = SetSummer(1, v) PROVE WellFormed(c)
  BY <1>0, <1>5 DEF SetSummer, Calling, Accepted, WellFormed, Values, Fields, Keys, ConfigKeys
<1>6. ASSUME NEW x \in {0, 1}, c = SetSeason([sumM |-> 1, sumD |-> 1, winM |-> x, winD |-> 1])
      PROVE  WellFormed(c)
  BY <1>0, <1>6 DEF SetSeason, Calling, Accepted, WellFormed, Values, Fields, Keys, ConfigKeys, SeasonKeys
<1>7. CASE c = ApplyPreset(PkPreset)
  BY <1>0, <1>7 DEF ApplyPreset, PkPreset, Calling, WellFormed, Values, Fields, Keys, ConfigKeys, SeasonKeys
<1>8. CASE c = SetCredentials(1)
  BY <1>0, <1>8 DEF SetCredentials, Calling, WellFormed, Values, Fields, Keys
<1> QED
  BY <1>0, <1>1, <1>2, <1>3, <1>4, <1>5, <1>6, <1>7, <1>8, CastIsNat DEF Requests

\* Whatever NVS holds, what is loaded is in range.
LEMMA LoadTyped == \A store \in Store : Load(store) \in Config
<1> SUFFICES ASSUME NEW store \in Store, NEW f \in Fields PROVE Load(store)[f] \in Values \cup {None}
  BY DEF Load, Config
<1>1. Defaults[f] \in Values \cup {None}
  BY ConfigConstants DEF Defaults, UkPreset, Values, Fields, Keys, ConfigKeys
<1>2. {0, 1, Limit} \subseteq Values
  BY ConfigConstants DEF Values
<1>3. ASSUME NEW k \in Keys, NEW d \in Values
      PROVE  (IF store[k] \in 0 .. Limit THEN store[k] ELSE d) \in Values
  BY <1>3 DEF Values
<1>4. CASE f \in {"lat", "lon"}
  BY <1>1, <1>4 DEF Load, Values
<1>5. CASE f = "located"
  BY <1>2, <1>5 DEF Load
<1>6. CASE f \in {"offW", "iqamah", "offS"}
  <2>1. Defaults["offW"] \in Values /\ Defaults["offS"] \in Values
    BY <1>2 DEF Defaults, UkPreset, Fields, Keys, ConfigKeys
  <2>2. {"offW", "iqamah", "offS"} \subseteq Keys
    BY DEF Keys, ConfigKeys
  <2> QED BY <1>3, <1>6, <2>1, <2>2 DEF Load
<1>7. CASE f \notin {"lat", "lon", "located", "offW", "iqamah", "offS"}
  BY <1>1, <1>7 DEF Load, Values
<1> QED BY <1>4, <1>5, <1>6, <1>7

\* The factory configuration and an erased NVS have their types.
LEMMA DefaultsTyped == Defaults \in Config /\ EmptyNvs \in Store
BY ConfigConstants DEF Defaults, UkPreset, EmptyNvs, Config, Store, Values, Fields, Keys, ConfigKeys

-----------------------------------------------------------------------------
(* The configuration *)

\* What the store is bound to: what was acknowledged and neither swallowed nor erased.
Bound(k) == promised[k] # None /\ k \notin swallowed /\ k \notin erased

\* It is in NVS.
Kept == \A k \in Keys : Bound(k) => nvs[k] = promised[k]

\* Of a place NVS holds both coordinates as soon as it is bound to one of them.
PlaceWhole ==
  Bound("lat") \/ Bound("lon") => nvs["lat"] \in Values /\ nvs["lon"] \in Values

\* A call under way promises nothing yet of its own keys, and has written those it did not miss.
UnderWay ==
  call # NoCall =>
    /\ WellFormed(call)
    /\ \A k \in Keys \cap DOMAIN call.sets : promised[k] = None
    /\ \A i \in 1 .. done : call.keys[i] \in missed \/ nvs[call.keys[i]] = call.sets[call.keys[i]]

ConfigInv == ConfigTypeOK /\ Kept /\ PlaceWhole /\ UnderWay

\* The invariant of the store holds before the first boot.
LEMMA ConfigInitial == ConfigInit => ConfigInv
<1> SUFFICES ASSUME ConfigInit PROVE ConfigInv
  OBVIOUS
<1>1. nvs \in Store /\ ram \in Config /\ promised \in Store /\ \A k \in Keys : promised[k] = None
  <2>1. EmptyNvs \in Store /\ [EmptyNvs EXCEPT !["iqamah"] = 1] \in Store
    <3>1. 1 \in Values
      BY ConfigConstants DEF Values
    <3> QED BY <3>1, DefaultsTyped DEF Store
  <2> QED BY <2>1, DefaultsTyped DEF ConfigInit, EmptyNvs
<1>2. ConfigTypeOK /\ swallowed = {} /\ erased = {}
  <2>1. 0 \in 0 .. MaxCalls /\ 0 \in 0 .. MaxFaults
    BY ConfigConstants
  <2> QED BY <1>1, <2>1 DEF ConfigInit, ConfigTypeOK, Config, Store
<1> QED BY <1>1, <1>2 DEF ConfigInit, ConfigInv, Kept, PlaceWhole, Bound, UnderWay, Keys, ConfigKeys

\* The begin of a setter, which checks its argument and changes the copy in RAM.
LEMMA BeginKeeps ==
  ASSUME ConfigInv, NEW c \in Requests, Begin(c)
  PROVE  ConfigInv'
<1>1. WellFormed(c)
  BY AcceptedWellFormed DEF Begin
<1>2. promised' = [k \in Keys |-> IF k \in DOMAIN c.sets THEN None ELSE promised[k]]
  BY DEF Begin
<1> swallowed' = swallowed \ DOMAIN c.sets /\ erased' = erased \ DOMAIN c.sets
  BY DEF Begin
<1>3. ConfigTypeOK'
  <2>1. ram' \in Config
    BY <1>1 DEF Begin, ConfigInv, ConfigTypeOK, Config, Update, WellFormed
  <2>2. promised' \in Store
    BY <1>2 DEF ConfigInv, ConfigTypeOK, Store
  <2>3. done' \in 0 .. Len(c.keys) /\ missed' = {} /\ calls' \in 0 .. MaxCalls
    BY <1>1, ConfigConstants DEF Begin, WellFormed, ConfigInv, ConfigTypeOK
  <2> QED BY <2>1, <2>2, <2>3 DEF Begin, ConfigInv, ConfigTypeOK, Config, Store
<1>4. Kept'
  <2>1. \A k \in Keys : Bound(k)' => Bound(k) /\ promised'[k] = promised[k]
    BY <1>2 DEF Bound
  <2> QED BY <2>1 DEF Begin, ConfigInv, Kept
<1>5. PlaceWhole'
  <2>1. (Bound("lat")' => Bound("lat")) /\ (Bound("lon")' => Bound("lon"))
    BY <1>2 DEF Bound, Keys, ConfigKeys
  <2>2. nvs' = nvs
    BY DEF Begin
  <2> QED BY <2>1, <2>2 DEF ConfigInv, PlaceWhole
<1>6. UnderWay'
  BY <1>1, <1>2 DEF Begin, UnderWay
<1> QED BY <1>3, <1>4, <1>5, <1>6 DEF ConfigInv

\* One key written to NVS.
LEMMA WriteKeyKeeps ==
  ASSUME ConfigInv, WriteKey
  PROVE  ConfigInv'
<1> DEFINE key == call.keys[done + 1]
<1>1. /\ call # NoCall /\ WellFormed(call) /\ call' = call /\ UNCHANGED acked /\ ram' = ram
      /\ open' = open /\ calls' = calls /\ done' = done + 1 /\ done \in Nat /\ done < Len(call.keys)
      /\ promised' = promised /\ swallowed' = swallowed /\ erased' = erased
  BY DEF WriteKey, ConfigInv, UnderWay, ConfigTypeOK, acked
<1>2. key \in Keys \cap DOMAIN call.sets /\ call.sets[key] \in Values /\ Len(call.keys) \in Nat
  BY <1>1 DEF WellFormed
<1>3. /\ \/ nvs' = [nvs EXCEPT ![key] = call.sets[key]] /\ missed' = missed
         \/ nvs' = nvs /\ missed' = missed \cup {key}
      /\ faults' = faults \/ (faults < MaxFaults /\ faults' = faults + 1)
  BY DEF WriteKey, Fault
<1> HIDE DEF key
<1>4. nvs \in Store /\ promised \in Store /\ missed \subseteq Keys /\ faults \in 0 .. MaxFaults
  BY DEF ConfigInv, ConfigTypeOK, Store
<1>5. nvs' \in Store /\ missed' \subseteq Keys /\ faults' \in 0 .. MaxFaults
  BY <1>2, <1>3, <1>4, ConfigConstants DEF Store
<1>6. ConfigTypeOK'
  BY <1>1, <1>2, <1>5 DEF ConfigInv, ConfigTypeOK, Store
<1>7. promised[key] = None
  BY <1>1, <1>2 DEF ConfigInv, UnderWay
<1>8. Kept'
  BY <1>1, <1>2, <1>3, <1>4, <1>7 DEF ConfigInv, Kept, Bound, Store
<1>9. PlaceWhole'
  <2>1. CASE key \in {"lat", "lon"}
    <3>1. promised["lat"] = None /\ promised["lon"] = None
      BY <1>1, <1>2, <2>1 DEF ConfigInv, UnderWay, WellFormed, Keys, ConfigKeys
    <3> QED BY <1>1, <3>1 DEF PlaceWhole, Bound
  <2>2. CASE key \notin {"lat", "lon"}
    <3>1. nvs'["lat"] = nvs["lat"] /\ nvs'["lon"] = nvs["lon"]
      BY <1>3, <1>4, <2>2 DEF Store, Keys, ConfigKeys
    <3> QED BY <1>1, <3>1 DEF ConfigInv, PlaceWhole, Bound
  <2> QED BY <2>1, <2>2
<1>10. ASSUME NEW i \in 1 .. done'
       PROVE  call.keys[i] \in missed' \/ nvs'[call.keys[i]] = call.sets[call.keys[i]]
  <2>1. CASE i = done + 1
    BY <1>2, <1>3, <1>4, <2>1 DEF key, Store
  <2>2. CASE i \in 1 .. done
    <3>1. call.keys[i] \in missed \/ nvs[call.keys[i]] = call.sets[call.keys[i]]
      BY <1>1, <2>2 DEF ConfigInv, UnderWay
    <3>2. call.keys[i] \in Keys
      BY <1>1, <1>2, <2>2 DEF WellFormed
    <3> QED BY <1>2, <1>3, <1>4, <3>1, <3>2 DEF Store
  <2> QED BY <1>1, <2>1, <2>2
<1>11. UnderWay'
  BY <1>1, <1>10 DEF ConfigInv, UnderWay
<1> QED BY <1>6, <1>8, <1>9, <1>11 DEF ConfigInv

\* A setter that returns.
LEMMA ReturnKeeps ==
  ASSUME ConfigInv, Return
  PROVE  ConfigInv'
<1> DEFINE ok == missed \subseteq call.quiet
<1>1. /\ call # NoCall /\ WellFormed(call) /\ done = Len(call.keys) /\ nvs' = nvs /\ ram' = ram
      /\ open' = open /\ calls' = calls /\ faults' = faults /\ erased' = erased /\ call' = NoCall /\ done' = 0 /\ missed' = {}
  BY DEF Return, ConfigInv, UnderWay
<1>2. /\ promised' = [k \in Keys |-> IF ok /\ k \in DOMAIN call.sets THEN call.sets[k] ELSE promised[k]]
      /\ ok => swallowed' = swallowed \cup missed
      /\ ~ ok => swallowed' = swallowed
  BY DEF Return, ConfigInv, ConfigTypeOK
<1> HIDE DEF ok
<1>3. ASSUME NEW k \in Keys, k \in DOMAIN call.sets \ missed
      PROVE  nvs[k] = call.sets[k] /\ call.sets[k] \in Values
  <2>1. PICK i \in 1 .. Len(call.keys) : call.keys[i] = k
    BY <1>1, <1>3 DEF WellFormed
  <2> QED BY <1>1, <1>3, <2>1 DEF ConfigInv, UnderWay, WellFormed
<1>4. promised \in Store /\ nvs \in Store
  BY DEF ConfigInv, ConfigTypeOK, Store
<1>5. promised' \in Store
  BY <1>1, <1>2, <1>4 DEF Store, WellFormed
<1>6. ConfigTypeOK'
  BY <1>1, <1>2, <1>5 DEF ConfigInv, ConfigTypeOK, Store
<1>7. Kept'
  <2> SUFFICES ASSUME NEW k \in Keys, Bound(k)' PROVE nvs[k] = promised'[k]
    BY <1>1 DEF Kept
  <2>1. CASE ok /\ k \in DOMAIN call.sets
    BY <1>2, <1>3, <2>1 DEF Bound
  <2>2. CASE ~ (ok /\ k \in DOMAIN call.sets)
    <3>1. promised'[k] = promised[k] /\ Bound(k)
      BY <1>1, <1>2, <2>2 DEF Bound
    <3> QED BY <3>1 DEF ConfigInv, Kept
  <2> QED BY <2>1, <2>2
<1>8. PlaceWhole'
  <2>1. {"lat", "lon"} \subseteq Keys
    BY DEF Keys, ConfigKeys
  <2>2. CASE "lat" \notin DOMAIN call.sets
    <3>1. "lon" \notin DOMAIN call.sets
      BY <1>1, <2>2 DEF WellFormed
    <3>2. (Bound("lat")' => Bound("lat")) /\ (Bound("lon")' => Bound("lon"))
      BY <1>1, <1>2, <2>1, <2>2, <3>1 DEF Bound
    <3> QED BY <1>1, <3>2 DEF ConfigInv, PlaceWhole
  <2>3. CASE "lat" \in DOMAIN call.sets /\ ~ ok
    <3>1. (Bound("lat")' => Bound("lat")) /\ (Bound("lon")' => Bound("lon"))
      BY <1>1, <1>2, <2>1, <2>3 DEF Bound
    <3> QED BY <1>1, <3>1 DEF ConfigInv, PlaceWhole
  <2>4. CASE "lat" \in DOMAIN call.sets /\ ok
    <3>1. "lon" \in DOMAIN call.sets /\ missed = {}
      BY <1>1, <2>4 DEF WellFormed, ok
    <3>2. nvs["lat"] \in Values /\ nvs["lon"] \in Values
      BY <1>3, <2>1, <2>4, <3>1
    <3> QED BY <1>1, <3>2 DEF PlaceWhole
  <2> QED BY <2>2, <2>3, <2>4
<1> QED BY <1>1, <1>6, <1>7, <1>8 DEF ConfigInv, UnderWay

\* The configuration in RAM is gone, and NVS stays as it is or is erased.
LEMMA LostKeeps ==
  ASSUME ConfigInv, NEW store \in Store, ConfigLost(store), UNCHANGED calls, Fault \/ UNCHANGED faults,
         \/ store = nvs /\ UNCHANGED acked
         \/ promised' = EmptyNvs /\ swallowed' = {} /\ erased' = {}
         \/ erased' = {k \in Keys : promised[k] # None} /\ UNCHANGED <<promised, swallowed>>
  PROVE  ConfigInv'
<1>1. /\ ram' = Defaults /\ open' = FALSE /\ call' = NoCall /\ done' = 0 /\ missed' = {} /\ nvs' = store
      /\ calls' = calls /\ faults' \in 0 .. MaxFaults
  BY ConfigConstants DEF ConfigLost, Fault, ConfigInv, ConfigTypeOK
<1>2. promised' \in Store /\ swallowed' \subseteq Keys /\ erased' \subseteq Keys
  BY DefaultsTyped DEF ConfigInv, ConfigTypeOK, Store, acked
<1>3. ConfigTypeOK'
  BY <1>1, <1>2, DefaultsTyped DEF ConfigInv, ConfigTypeOK, Config, Store
<1>4. CASE store = nvs /\ UNCHANGED acked
  BY <1>1, <1>3, <1>4 DEF ConfigInv, Kept, PlaceWhole, Bound, UnderWay, acked
<1>5. CASE \A k \in Keys : ~ Bound(k)'
  BY <1>1, <1>3, <1>5 DEF ConfigInv, Kept, PlaceWhole, UnderWay, Keys, ConfigKeys
<1>6. CASE promised' = EmptyNvs
  BY <1>5, <1>6 DEF EmptyNvs, Bound
<1>7. CASE erased' = {k \in Keys : promised[k] # None} /\ UNCHANGED <<promised, swallowed>>
  BY <1>5, <1>7 DEF Bound
<1> QED BY <1>4, <1>6, <1>7

\* svc_config loading what NVS holds.
LEMMA StartKeeps ==
  ASSUME ConfigInv, ConfigStart
  PROVE  ConfigInv'
<1>1. /\ nvs' = nvs /\ call' = call /\ done' = done /\ missed' = missed /\ calls' = calls
      /\ promised' = promised /\ swallowed' = swallowed /\ erased' = erased
  BY DEF ConfigStart, acked
<1>2. nvs \in Store
  BY DEF ConfigInv, ConfigTypeOK, Store
<1>3. ram' \in Config /\ open' \in BOOLEAN /\ faults' \in 0 .. MaxFaults
  <2>1. ram' \in Config /\ open' \in BOOLEAN
    BY <1>2, LoadTyped, DefaultsTyped DEF ConfigStart
  <2>2. faults' = faults \/ (faults < MaxFaults /\ faults' = faults + 1)
    BY DEF ConfigStart, Fault
  <2> QED BY <2>1, <2>2, ConfigConstants DEF ConfigInv, ConfigTypeOK
<1>4. ConfigTypeOK'
  BY <1>1, <1>3 DEF ConfigInv, ConfigTypeOK, Config
<1> QED BY <1>1, <1>4 DEF ConfigInv, Kept, PlaceWhole, Bound, UnderWay

\* A flash operation of boot_manager.c or svc_http.c fails.
LEMMA FaultKeeps ==
  ASSUME ConfigInv, UNCHANGED settings, Fault \/ UNCHANGED faults
  PROVE  ConfigInv'
<1>1. faults' \in 0 .. MaxFaults
  BY ConfigConstants DEF Fault, ConfigInv, ConfigTypeOK
<1>2. ConfigTypeOK'
  BY <1>1 DEF ConfigInv, ConfigTypeOK, settings, acked
<1> QED BY <1>2 DEF ConfigInv, Kept, PlaceWhole, Bound, UnderWay, settings, acked

-----------------------------------------------------------------------------
(* The boot *)

\* There are two slots.
LEMMA OtherSlot ==
  \A s \in Slots : /\ Other(s) \in Slots /\ Other(s) # s
                   /\ \A t \in Slots : t = s \/ t = Other(s)
BY BootConstants DEF Other

StepOK ==
  /\ at \in Early \cup {"off", "config", "serving", "safe", "panicking"}
  /\ http \in {"idle", "upload", "upload_failed", "upload_closed", "restart"}
  /\ http # "idle" => at = "serving" /\ call = NoCall
FlashOK == worn \in BOOLEAN /\ flag \in BOOLEAN /\ storage \in {"timetable", "corrupt", "empty"}
ImagesOK ==
  /\ img \in [Slots -> {"valid", "new", "pending", "aborted", "partial", "whole"}]
  /\ boot \in Slots /\ running \in Slots /\ proven \subseteq Slots /\ tried \subseteq Slots
  /\ unstarted \subseteq Slots
CountsOK == owed \in {"no", "yes", "unread", "lost"} /\ resets \in 0 .. MaxResets

Uploading == http \in {"upload", "upload_failed", "upload_closed"}

\* While nothing has been uploaded, otadata selects what runs, and once something is being uploaded
\* what runs is confirmed and the other slot has never run.
Booted ==
  /\ at # "off" /\ http # "restart" => boot = running
  /\ Uploading => img[running] = "valid" /\ Other(running) \notin tried

\* An image that is confirmed got its tasks started, unless core_os failed; one that runs and has
\* neither is known to be on trial; and one that went down before is neither confirmed nor fresh,
\* with the same exception.
OnTrial ==
  /\ \A s \in Slots : img[s] = "valid" => s \in proven \cup unstarted
  /\ at # "off" => running \in proven \cup unstarted \/ img[running] = "pending"
  /\ \A s \in tried \ unstarted : img[s] \notin {"valid", "new"}

\* An acknowledged factory reset is still in its flag, or on its way from there.
Owing ==
  /\ owed = "yes" =>
       \/ worn
       \/ at = "wipe_nvs"
       \/ flag /\ at \in {"off", "nvs", "request", "safe", "panicking"}
       \/ flag /\ at = "serving" /\ http = "restart"
  /\ owed = "unread" => flag

ImageInv  == ImagesOK /\ FallbackExists /\ Booted /\ OnTrial /\ RevertsUnproven
DeviceInv == StepOK /\ FlashOK /\ CountsOK /\ ConfigInv /\ ImageInv /\ Owing

\* The invariant implies the types.
LEMMA DeviceTyped == DeviceInv => TypeOK
<1> SUFFICES ASSUME DeviceInv PROVE TypeOK
  OBVIOUS
<1>1. {worn, flag} \subseteq BOOLEAN /\ {boot, running} \subseteq Slots
  BY DEF DeviceInv, ImageInv, FlashOK, ImagesOK
<1>2. ConfigTypeOK /\ {proven, tried, unstarted} \subseteq SUBSET Slots
  BY DEF DeviceInv, ConfigInv, ImageInv, ImagesOK
<1> QED BY <1>1, <1>2 DEF DeviceInv, ImageInv, StepOK, FlashOK, ImagesOK, CountsOK, TypeOK

\* The invariant holds of a device fresh from the factory.
LEMMA DeviceInitial == Init => DeviceInv
<1> SUFFICES ASSUME Init PROVE DeviceInv
  OBVIOUS
<1>1. ConfigInv
  BY ConfigInitial DEF Init
<1>2. running \in Slots /\ boot = running /\ proven = {boot} /\ tried = {} /\ unstarted = {}
      /\ img = [s \in Slots |-> IF s = boot THEN "valid" ELSE "partial"]
  BY BootConstants DEF Init
<1>3. at = "off" /\ http = "idle" /\ storage \in {"timetable", "corrupt"} /\ resets = 0 /\ owed = "no"
  BY DEF Init
<1>4. FlashOK
  BY DEF Init, FlashOK
<1>5. StepOK /\ CountsOK
  BY <1>3, BootConstants DEF StepOK, CountsOK
<1>6. ImagesOK /\ FallbackExists
  BY <1>2 DEF ImagesOK, FallbackExists
<1>7. Booted /\ OnTrial /\ RevertsUnproven
  BY <1>2, <1>3 DEF Booted, OnTrial, RevertsUnproven, Early, Uploading
<1>8. Owing
  BY <1>3 DEF Owing
<1> QED BY <1>1, <1>4, <1>5, <1>6, <1>7, <1>8 DEF DeviceInv, ImageInv

\* A step that leaves the images alone, and neither boots nor ends a request.
LEMMA ImagesLeftAlone ==
  ASSUME DeviceInv, UNCHANGED <<img, boot, running, proven, tried, unstarted>>, at # "off",
         Uploading' => Uploading, http = "restart" => http' = "restart"
  PROVE  ImageInv'
<1>1. ImagesOK' /\ FallbackExists'
  BY DEF DeviceInv, ImageInv, ImagesOK, FallbackExists
<1>2. Booted'
  BY DEF DeviceInv, ImageInv, Booted
<1>3. OnTrial' /\ RevertsUnproven'
  BY DEF DeviceInv, ImageInv, OnTrial, RevertsUnproven
<1> QED BY <1>1, <1>2, <1>3 DEF ImageInv

\* An image that goes down before its tasks are started is on trial, and remembered.
LEMMA ImagesGoDown ==
  ASSUME DeviceInv, at # "off", Down, UNCHANGED <<img, boot, running>>
  PROVE  ImageInv'
<1>1. at' = "off" /\ http' = "idle" /\ proven' = proven /\ unstarted' = unstarted
      /\ tried' = (IF running \notin proven THEN tried \cup {running} ELSE tried)
  BY DEF Down
<1>2. ImagesOK' /\ FallbackExists'
  BY <1>1 DEF DeviceInv, ImageInv, ImagesOK, FallbackExists
<1>3. Booted' /\ RevertsUnproven'
  BY <1>1 DEF Booted, Uploading, RevertsUnproven
<1>4. OnTrial'
  <2>1. \A s \in tried' \ unstarted' : img[s] \notin {"valid", "new"}
    BY <1>1 DEF DeviceInv, ImageInv, OnTrial
  <2> QED BY <1>1, <2>1 DEF DeviceInv, ImageInv, OnTrial
<1> QED BY <1>2, <1>3, <1>4 DEF ImageInv

\* The bootloader starts the slot that is selected, or the other one, which then is confirmed.
LEMMA BootloaderKeeps ==
  ASSUME DeviceInv, Bootloader
  PROVE  DeviceInv'
<1>1. at = "off" /\ at' = "nvs" /\ UNCHANGED <<configVars, http, flash, resets, images, owed>>
  BY DEF Bootloader
<1>2. ImagesOK /\ FallbackExists /\ OnTrial
  BY DEF DeviceInv, ImageInv
<1>3. http' = "idle"
  BY <1>1 DEF DeviceInv, StepOK
<1> DEFINE Images == [Slots -> {"valid", "new", "pending", "aborted", "partial", "whole"}]
<1> img \in Images /\ boot \in Slots /\ img[boot] \in {"valid", "new", "pending"}
  BY <1>2 DEF ImagesOK, FallbackExists
<1>4. /\ img' \in Images /\ boot' \in Slots /\ running' = boot'
      /\ \A s \in Slots : img'[s] \in {"valid", "new"} => img'[s] = img[s]
      /\ \/ img'[boot'] = "valid" /\ img[boot'] = "valid"
         \/ img'[boot'] = "pending" /\ img[boot'] = "new"
      /\ \E s \in Slots : img'[s] = "valid"
  <2>1. CASE img[boot] = "valid" /\ running' = boot /\ UNCHANGED <<img, boot>>
    <3>1. img' = img /\ boot' = boot /\ running' = boot
      BY <2>1
    <3>2. img'[boot'] = "valid" /\ img[boot'] = "valid"
      BY <2>1, <3>1
    <3> QED BY <3>1, <3>2
  <2>2. CASE img[boot] = "new" /\ running' = boot /\ img' = [img EXCEPT ![boot] = "pending"] /\ UNCHANGED boot
    <3>1. /\ img' \in Images /\ boot' = boot /\ running' = boot /\ img'[boot] = "pending"
          /\ \A s \in Slots \ {boot} : img'[s] = img[s]
      BY <2>2
    <3>2. PICK s \in Slots : img[s] = "valid"
      BY <1>2 DEF FallbackExists
    <3>3. s # boot
      BY <2>2, <3>2
    <3>4. img'[s] = "valid"
      BY <3>1, <3>2, <3>3
    <3>5. \A t \in Slots : img'[t] \in {"valid", "new"} => img'[t] = img[t]
      BY <3>1
    <3> QED BY <2>2, <3>1, <3>4, <3>5
  <2>3. CASE /\ img[boot] \notin {"valid", "new"} /\ img' = [img EXCEPT ![boot] = "aborted"]
             /\ boot' = Other(boot) /\ running' = Other(boot)
    <3> DEFINE other == Other(boot)
    <3>1. other \in Slots /\ other # boot /\ \A t \in Slots : t = boot \/ t = other
      BY OtherSlot
    <3> HIDE DEF other
    <3>2. boot' = other /\ running' = other
      BY <2>3 DEF other
    <3>3. img[other] = "valid"
      <4>1. PICK s \in Slots : img[s] = "valid"
        BY <1>2 DEF FallbackExists
      <4> QED BY <2>3, <3>1, <4>1
    <3>4. img' \in Images /\ img'[boot] = "aborted" /\ \A s \in Slots \ {boot} : img'[s] = img[s]
      BY <2>3
    <3>5. img'[other] = "valid"
      BY <3>1, <3>3, <3>4
    <3>6. \A t \in Slots : img'[t] \in {"valid", "new"} => img'[t] = img[t]
      BY <3>4
    <3> QED BY <3>1, <3>2, <3>3, <3>4, <3>5, <3>6
  <2> QED BY <2>1, <2>2, <2>3 DEF Bootloader
<1>5. ImagesOK' /\ FallbackExists'
  <2>1. ImagesOK'
    BY <1>1, <1>2, <1>4 DEF ImagesOK, images
  <2>2. FallbackExists'
    BY <1>4 DEF FallbackExists
  <2> QED BY <2>1, <2>2
<1>6. Booted'
  BY <1>3, <1>4 DEF Booted, Uploading
<1>7. OnTrial' /\ RevertsUnproven'
  <2>1. proven' = proven /\ tried' = tried /\ tried \subseteq Slots /\ unstarted' = unstarted
    BY <1>1, <1>2 DEF images, ImagesOK
  <2>2. running' \in proven' \cup unstarted' \/ img'[running'] = "pending"
    BY <1>2, <1>4, <2>1 DEF OnTrial
  <2>3. \A s \in tried' \ unstarted' : img'[s] \notin {"valid", "new"}
    BY <1>2, <1>4, <2>1 DEF OnTrial
  <2>4. running' \in tried' => running' \in unstarted'
    BY <1>2, <1>4, <2>1 DEF OnTrial
  <2>5. \A s \in Slots : img'[s] = "valid" => s \in proven' \cup unstarted'
    BY <1>2, <1>4, <2>1 DEF OnTrial
  <2> QED BY <2>2, <2>3, <2>4, <2>5 DEF OnTrial, RevertsUnproven
<1>8. StepOK' /\ FlashOK' /\ CountsOK'
  BY <1>1, <1>3 DEF DeviceInv, StepOK, FlashOK, CountsOK, flash, Early
<1>9. ConfigInv'
  BY <1>1, FaultKeeps DEF DeviceInv, configVars
<1>10. Owing'
  BY <1>1 DEF DeviceInv, Owing, flash
<1> QED BY <1>5, <1>6, <1>7, <1>8, <1>9, <1>10 DEF DeviceInv, ImageInv

\* A step of the boot after the bootloader that leaves the images alone.
LEMMA BootStepKeeps ==
  ASSUME DeviceInv, at \notin {"off", "serving"}, at' \in Early \cup {"config", "serving", "safe", "panicking"},
         UNCHANGED <<http, worn, ota, resets, images>>,
         flag' \in BOOLEAN, storage' \in {"timetable", "corrupt", "empty"}, owed' \in {"no", "yes", "unread", "lost"},
         ConfigInv', Owing'
  PROVE  DeviceInv'
<1>1. http = "idle" /\ http' = "idle"
  BY DEF DeviceInv, StepOK
<1>2. StepOK' /\ FlashOK' /\ CountsOK'
  BY <1>1 DEF DeviceInv, StepOK, FlashOK, CountsOK
<1>3. ImageInv'
  <2>1. UNCHANGED <<img, boot, running, proven, tried, unstarted>>
    BY DEF ota, images
  <2>2. ~ Uploading'
    BY <1>1 DEF Uploading
  <2> QED BY <1>1, <2>1, <2>2, ImagesLeftAlone
<1> QED BY <1>2, <1>3 DEF DeviceInv

\* NVS is erased, and with it what was asked for; what was acknowledged is forgotten or noted as erased.
LEMMA ErasedKeeps ==
  ASSUME ConfigInv, Erased, Fault \/ UNCHANGED faults,
         \/ promised' = EmptyNvs /\ swallowed' = {} /\ erased' = {}
         \/ erased' = {k \in Keys : promised[k] # None} /\ UNCHANGED <<promised, swallowed>>
  PROVE  ConfigInv' /\ Owing' /\ flag' = FALSE /\ owed' = "no"
<1>1. EmptyNvs \in Store
  BY DefaultsTyped
<1>2. ConfigInv'
  BY <1>1, LostKeeps DEF Erased
<1> QED BY <1>2 DEF Erased, Owing

\* nvs_flash_init(), which may have to erase.
LEMMA InitNvsKeeps ==
  ASSUME DeviceInv, InitNvs
  PROVE  DeviceInv'
<1>1. at = "nvs" /\ UNCHANGED <<http, worn, storage, ota, resets, images>>
  BY DEF InitNvs
<1>2. worn \in BOOLEAN /\ flag \in BOOLEAN /\ storage \in {"timetable", "corrupt", "empty"}
      /\ owed \in {"no", "yes", "unread", "lost"} /\ ConfigInv /\ (owed = "yes" => worn \/ flag) /\ (owed = "unread" => flag)
  BY <1>1 DEF DeviceInv, FlashOK, CountsOK, Owing
<1>3. CASE at' = "request" /\ UNCHANGED <<configVars, flag, owed>>
  <2>1. ConfigInv'
    BY <1>2, <1>3, FaultKeeps DEF configVars
  <2>2. Owing'
    BY <1>1, <1>2, <1>3 DEF Owing
  <2> QED BY <1>1, <1>2, <1>3, <2>1, <2>2, BootStepKeeps DEF Early
<1>4. CASE Fault /\ at' = "safe" /\ UNCHANGED <<settings, flag, owed>>
  <2>1. ConfigInv'
    BY <1>2, <1>4, FaultKeeps
  <2>2. Owing'
    BY <1>1, <1>2, <1>4 DEF Owing
  <2> QED BY <1>1, <1>2, <1>4, <2>1, <2>2, BootStepKeeps DEF Early
<1>5. CASE /\ ~ worn /\ Fault /\ at' = "request" /\ Erased
           /\ erased' = {k \in Keys : promised[k] # None} /\ UNCHANGED <<promised, swallowed>>
  <2>1. ConfigInv' /\ Owing' /\ flag' = FALSE /\ owed' = "no"
    BY <1>2, <1>5, ErasedKeeps
  <2> QED BY <1>1, <1>2, <1>5, <2>1, BootStepKeeps DEF Early
<1>6. CASE worn /\ Fault /\ at' = "panicking" /\ UNCHANGED <<settings, flag, owed>>
  <2>1. ConfigInv'
    BY <1>2, <1>6, FaultKeeps
  <2>2. Owing'
    BY <1>1, <1>2, <1>6 DEF Owing
  <2> QED BY <1>1, <1>2, <1>6, <2>1, <2>2, BootStepKeeps DEF Early
<1> QED BY <1>3, <1>4, <1>5, <1>6 DEF InitNvs

\* The boot manager reading what a reset asked for.
LEMMA ReadRequestKeeps ==
  ASSUME DeviceInv, ReadRequest
  PROVE  DeviceInv'
<1>1. /\ at = "request" /\ UNCHANGED <<settings, http, worn, storage, ota, resets, images>>
      /\ \/ /\ at' = (IF flag THEN "wipe_nvs" ELSE "storage") /\ flag' \in {FALSE, flag}
            /\ owed' = (IF owed = "unread" THEN "yes" ELSE owed)
         \/ /\ at' = "storage" /\ flag' = flag
            /\ owed' = (IF flag /\ owed = "yes" THEN "unread" ELSE owed)
  BY DEF ReadRequest
<1>2. flag \in BOOLEAN /\ storage \in {"timetable", "corrupt", "empty"}
      /\ owed \in {"no", "yes", "unread", "lost"} /\ ConfigInv /\ (owed = "yes" => worn \/ flag) /\ (owed = "unread" => flag)
  BY <1>1 DEF DeviceInv, FlashOK, CountsOK, Owing
<1>3. ConfigInv'
  BY <1>1, <1>2, FaultKeeps DEF ReadRequest
<1>4. Owing'
  BY <1>1, <1>2 DEF Owing
<1>5. flag' \in BOOLEAN /\ owed' \in {"no", "yes", "unread", "lost"}
  BY <1>1, <1>2
<1> QED BY <1>1, <1>2, <1>3, <1>4, <1>5, BootStepKeeps DEF Early

\* The erasing of the NVS that a factory reset asks for.
LEMMA WipeNvsKeeps ==
  ASSUME DeviceInv, WipeNvs
  PROVE  DeviceInv'
<1>1. at = "wipe_nvs" /\ at' = "wipe_storage" /\ UNCHANGED <<faults, http, worn, storage, ota, resets, images>>
  BY DEF WipeNvs
<1>2. flag \in BOOLEAN /\ storage \in {"timetable", "corrupt", "empty"}
      /\ owed \in {"no", "yes", "unread", "lost"} /\ ConfigInv
  BY DEF DeviceInv, FlashOK, CountsOK
<1>3. CASE worn /\ UNCHANGED <<settings, flag, owed>>
  <2>1. ConfigInv'
    BY <1>1, <1>2, <1>3, FaultKeeps
  <2>2. Owing'
    BY <1>1, <1>3 DEF DeviceInv, Owing
  <2> QED BY <1>1, <1>2, <1>3, <2>1, <2>2, BootStepKeeps DEF Early
<1>4. CASE Erased /\ promised' = EmptyNvs /\ swallowed' = {} /\ erased' = {}
  <2>1. ConfigInv' /\ Owing' /\ flag' = FALSE /\ owed' = "no"
    BY <1>1, <1>2, <1>4, ErasedKeeps
  <2> QED BY <1>1, <1>2, <2>1, BootStepKeeps DEF Early
<1> QED BY <1>3, <1>4 DEF WipeNvs

\* The steps that cannot be reached with a factory reset owed, unless the partition is worn.
LEMMA InitFatfsKeeps ==
  ASSUME DeviceInv, InitFatfs
  PROVE  DeviceInv'
<1>1. /\ at = "storage" /\ at' \in {"hal", "safe"}
      /\ UNCHANGED <<settings, http, worn, flag, ota, resets, images, owed>>
  BY DEF InitFatfs
<1>2. flag \in BOOLEAN /\ owed \in {"no", "yes", "unread", "lost"} /\ ConfigInv /\ (owed = "yes" => worn) /\ (owed = "unread" => flag)
  BY <1>1 DEF DeviceInv, FlashOK, CountsOK, Owing
<1>3. storage' \in {"timetable", "corrupt", "empty"}
  BY DEF InitFatfs, Mount, DeviceInv, FlashOK
<1>4. ConfigInv'
  BY <1>1, <1>2, FaultKeeps DEF InitFatfs
<1>5. Owing'
  BY <1>1, <1>2 DEF Owing
<1> QED BY <1>1, <1>2, <1>3, <1>4, <1>5, BootStepKeeps DEF Early

\* HAL_Init() in the boot.
LEMMA HalInitKeeps ==
  ASSUME DeviceInv, HalInit
  PROVE  DeviceInv'
<1>1. /\ at = "hal" /\ at' \in {"core", "safe"}
      /\ UNCHANGED <<settings, http, flash, ota, resets, images, owed>>
  BY DEF HalInit
<1>2. flag \in BOOLEAN /\ storage \in {"timetable", "corrupt", "empty"}
      /\ owed \in {"no", "yes", "unread", "lost"} /\ ConfigInv /\ (owed = "yes" => worn) /\ (owed = "unread" => flag)
  BY <1>1 DEF DeviceInv, FlashOK, CountsOK, Owing
<1>3. worn' = worn /\ flag' = flag /\ storage' = storage
  BY <1>1 DEF flash
<1>4. ConfigInv'
  BY <1>1, <1>2, FaultKeeps DEF HalInit
<1>5. Owing'
  BY <1>1, <1>2, <1>3 DEF Owing
<1> QED BY <1>1, <1>2, <1>3, <1>4, <1>5, BootStepKeeps DEF Early

\* The services started at the end of the boot.
LEMMA StartServicesKeeps ==
  ASSUME DeviceInv, StartServices
  PROVE  DeviceInv'
<1>1. /\ at = "config" /\ at' = "serving" /\ ConfigStart
      /\ UNCHANGED <<http, flash, ota, resets, images, owed>>
  BY DEF StartServices
<1>2. flag \in BOOLEAN /\ storage \in {"timetable", "corrupt", "empty"}
      /\ owed \in {"no", "yes", "unread", "lost"} /\ ConfigInv /\ (owed = "yes" => worn) /\ (owed = "unread" => flag)
  BY <1>1 DEF DeviceInv, FlashOK, CountsOK, Owing
<1>3. worn' = worn /\ flag' = flag /\ storage' = storage
  BY <1>1 DEF flash
<1>4. ConfigInv'
  BY <1>1, <1>2, StartKeeps
<1>5. Owing'
  BY <1>1, <1>2, <1>3 DEF Owing
<1> QED BY <1>1, <1>2, <1>3, <1>4, <1>5, BootStepKeeps DEF Early

\* The mark: what runs is what is selected, and has not gone down before.
LEMMA CoreStartKeeps ==
  ASSUME DeviceInv, CoreStart
  PROVE  DeviceInv'
<1>1. /\ at = "core" /\ at' = "config"
      /\ \/ proven' = proven \cup {running} /\ unstarted' = unstarted
         \/ unstarted' = unstarted \cup {running} /\ proven' = proven
      /\ UNCHANGED <<settings, http, flash, boot, running, resets, tried, owed>>
      /\ img' = [img EXCEPT ![running] = "valid"] \/ img' = img
  BY DEF CoreStart
<1>2. worn' = worn /\ flag' = flag /\ storage' = storage /\ boot' = boot /\ running' = running /\ tried' = tried
  BY <1>1 DEF flash
<1>3. http = "idle" /\ http' = "idle" /\ boot = running /\ (running \in tried => running \in unstarted)
  BY <1>1 DEF DeviceInv, StepOK, ImageInv, Booted, RevertsUnproven
<1>4. ImagesOK /\ FallbackExists /\ OnTrial
  BY DEF DeviceInv, ImageInv
<1>5. /\ img' \in [Slots -> {"valid", "new", "pending", "aborted", "partial", "whole"}]
      /\ \A s \in Slots \ {running} : img'[s] = img[s]
      /\ img'[running] = "valid" \/ img'[running] = img[running]
  BY <1>1, <1>4 DEF ImagesOK
<1>6. ImagesOK'
  BY <1>1, <1>2, <1>4, <1>5 DEF ImagesOK
<1>7. FallbackExists'
  <2>1. PICK s \in Slots : img[s] = "valid"
    BY <1>4 DEF FallbackExists
  <2>2. img'[s] = "valid"
    BY <1>5, <2>1
  <2>3. img'[boot'] \in {"valid", "new", "pending"}
    BY <1>2, <1>3, <1>4, <1>5 DEF FallbackExists
  <2> QED BY <2>2, <2>3 DEF FallbackExists
<1>8. Booted' /\ RevertsUnproven'
  BY <1>1, <1>2, <1>3 DEF Booted, Uploading, RevertsUnproven
<1>9. OnTrial'
  <2>1. \A s \in Slots : img'[s] = "valid" => s \in proven' \cup unstarted'
    BY <1>1, <1>4, <1>5 DEF OnTrial
  <2>2. \A s \in tried' \ unstarted' : img'[s] \notin {"valid", "new"}
    BY <1>1, <1>2, <1>3, <1>4, <1>5 DEF OnTrial, ImagesOK
  <2> QED BY <1>1, <1>2, <2>1, <2>2 DEF OnTrial
<1>10. ConfigInv'
  BY <1>1, FaultKeeps DEF CoreStart, DeviceInv
<1>11. StepOK' /\ FlashOK' /\ CountsOK'
  BY <1>1, <1>2, <1>3 DEF DeviceInv, StepOK, FlashOK, CountsOK
<1>12. Owing'
  BY <1>1, <1>2 DEF DeviceInv, Owing
<1> QED BY <1>6, <1>7, <1>8, <1>9, <1>10, <1>11, <1>12 DEF DeviceInv, ImageInv

-----------------------------------------------------------------------------
(* Going down, and the requests *)

\* A power loss keeps what is in flash, and with it what is owed.
LEMMA ResetKeeps ==
  ASSUME DeviceInv, Reset
  PROVE  DeviceInv'
<1>1. /\ at # "off" /\ Down /\ ConfigLost(nvs) /\ UNCHANGED <<calls, faults, acked, flash, ota>>
      /\ resets < MaxResets /\ resets' = resets + 1 /\ at' = "off" /\ http' = "idle"
      /\ owed' = (IF at = "wipe_nvs" /\ ~ flag THEN "lost" ELSE owed)
  BY DEF Reset, Down
<1>2. worn' = worn /\ flag' = flag /\ storage' = storage
  BY <1>1 DEF flash
<1>3. UNCHANGED <<img, boot, running>>
  BY <1>1 DEF ota
<1>4. ImageInv'
  BY <1>1, <1>3, ImagesGoDown
<1>5. ConfigInv'
  <2>1. ConfigInv /\ nvs \in Store
    BY DEF DeviceInv, ConfigInv, ConfigTypeOK, Store
  <2> QED BY <1>1, <2>1, LostKeeps
<1>6. StepOK' /\ FlashOK'
  BY <1>1, <1>2 DEF DeviceInv, StepOK, FlashOK
<1>7. CountsOK'
  <2>1. resets' \in 0 .. MaxResets
    BY <1>1, BootConstants DEF DeviceInv, CountsOK
  <2> QED BY <1>1, <2>1 DEF DeviceInv, CountsOK
<1>8. Owing'
  <2>1. CASE at = "wipe_nvs" /\ ~ flag
    BY <1>1, <2>1 DEF Owing
  <2>2. CASE ~ (at = "wipe_nvs" /\ ~ flag)
    <3>1. owed' = owed
      BY <1>1, <2>2
    <3> QED BY <1>1, <1>2, <2>2, <3>1 DEF DeviceInv, Owing
  <2> QED BY <2>1, <2>2
<1> QED BY <1>4, <1>5, <1>6, <1>7, <1>8 DEF DeviceInv

\* The erasing of the file system that a factory reset asks for.
LEMMA WipeStorageKeeps ==
  ASSUME DeviceInv, WipeStorage
  PROVE  DeviceInv'
<1>1. /\ at = "wipe_storage" /\ Down /\ at' = "off" /\ http' = "idle"
      /\ UNCHANGED <<settings, worn, flag, ota, resets, owed>>
  BY DEF WipeStorage, Down
<1>2. storage' \in {"timetable", "corrupt", "empty"}
  BY DEF WipeStorage, Mount, DeviceInv, FlashOK
<1>3. UNCHANGED <<img, boot, running>>
  BY <1>1 DEF ota
<1>4. ImageInv'
  BY <1>1, <1>3, ImagesGoDown
<1>5. ConfigInv'
  BY <1>1, FaultKeeps DEF WipeStorage, DeviceInv
<1>6. StepOK' /\ FlashOK' /\ CountsOK'
  BY <1>1, <1>2 DEF DeviceInv, StepOK, FlashOK, CountsOK
<1>7. Owing'
  BY <1>1 DEF DeviceInv, Owing
<1> QED BY <1>4, <1>5, <1>6, <1>7 DEF DeviceInv

\* A restart at any moment.
LEMMA RestartKeeps ==
  ASSUME DeviceInv, Restart
  PROVE  DeviceInv'
<1>1. /\ http = "restart" /\ Down /\ ConfigLost(nvs) /\ at' = "off" /\ http' = "idle"
      /\ UNCHANGED <<calls, faults, acked, flash, ota, resets, owed>>
  BY DEF Restart, Down
<1>2. at = "serving"
  BY <1>1 DEF DeviceInv, StepOK
<1>3. worn' = worn /\ flag' = flag /\ storage' = storage
  BY <1>1 DEF flash
<1>4. UNCHANGED <<img, boot, running>>
  BY <1>1 DEF ota
<1>5. ImageInv'
  BY <1>1, <1>2, <1>4, ImagesGoDown
<1>6. ConfigInv'
  <2>1. ConfigInv /\ nvs \in Store
    BY DEF DeviceInv, ConfigInv, ConfigTypeOK, Store
  <2> QED BY <1>1, <2>1, LostKeeps
<1>7. StepOK' /\ FlashOK' /\ CountsOK'
  BY <1>1, <1>3 DEF DeviceInv, StepOK, FlashOK, CountsOK
<1>8. Owing'
  BY <1>1, <1>2, <1>3 DEF DeviceInv, Owing
<1> QED BY <1>5, <1>6, <1>7, <1>8 DEF DeviceInv

\* A setting changed from the web page.
LEMMA ConfigureKeeps ==
  ASSUME DeviceInv, Configure
  PROVE  DeviceInv'
<1>1. at = "serving" /\ http = "idle" /\ ConfigStep /\ UNCHANGED <<at, http, flash, ota, resets, images, owed>>
  BY DEF Configure, bootVars
<1>2. UNCHANGED <<worn, flag, storage, img, boot, running, proven, tried, unstarted>>
  BY <1>1 DEF flash, ota, images
<1>3. ConfigInv'
  BY <1>1, BeginKeeps, WriteKeyKeeps, ReturnKeeps DEF ConfigStep, DeviceInv
<1>4. ImageInv'
  BY <1>1, <1>2, ImagesLeftAlone DEF Uploading
<1>5. StepOK' /\ FlashOK' /\ CountsOK'
  BY <1>1, <1>2 DEF DeviceInv, StepOK, FlashOK, CountsOK
<1>6. Owing'
  BY <1>1, <1>2 DEF DeviceInv, Owing
<1> QED BY <1>3, <1>4, <1>5, <1>6 DEF DeviceInv

\* A reboot asked for.
LEMMA PostRebootKeeps ==
  ASSUME DeviceInv, PostReboot
  PROVE  DeviceInv'
<1>1. /\ at = "serving" /\ at' = at /\ http = "idle" /\ http' = "restart" /\ call = NoCall
      /\ UNCHANGED <<configVars, flash, ota, resets, images, owed>>
  BY DEF PostReboot, Idle
<1>2. UNCHANGED <<worn, flag, storage, img, boot, running, proven, tried, unstarted>> /\ call' = NoCall
  BY <1>1 DEF flash, ota, images, configVars, settings
<1>3. ConfigInv'
  BY <1>1, FaultKeeps DEF DeviceInv, configVars
<1>4. ImageInv'
  BY <1>1, <1>2, ImagesLeftAlone DEF Uploading, Early
<1>5. StepOK' /\ FlashOK' /\ CountsOK'
  BY <1>1, <1>2 DEF DeviceInv, StepOK, FlashOK, CountsOK
<1>6. Owing'
  BY <1>1, <1>2 DEF DeviceInv, Owing
<1> QED BY <1>3, <1>4, <1>5, <1>6 DEF DeviceInv

\* A factory reset asked for.
LEMMA PostFactoryResetKeeps ==
  ASSUME DeviceInv, PostFactoryReset
  PROVE  DeviceInv'
<1>1. /\ at = "serving" /\ at' = at /\ http = "idle" /\ call = NoCall
      /\ UNCHANGED <<settings, worn, storage, ota, resets, images>>
      /\ \/ flag' = TRUE /\ owed' = "yes" /\ http' = "restart"
         \/ UNCHANGED <<flag, owed, http>>
  BY DEF PostFactoryReset, Idle
<1>2. UNCHANGED <<img, boot, running, proven, tried, unstarted>> /\ call' = NoCall
  BY <1>1 DEF ota, images, settings
<1>3. ConfigInv'
  BY <1>1, FaultKeeps DEF DeviceInv, PostFactoryReset
<1>4. ImageInv'
  BY <1>1, <1>2, ImagesLeftAlone DEF Uploading, Early
<1>5. StepOK' /\ CountsOK'
  BY <1>1, <1>2 DEF DeviceInv, StepOK, CountsOK
<1>6. FlashOK'
  BY <1>1 DEF DeviceInv, FlashOK
<1>7. Owing'
  BY <1>1 DEF DeviceInv, Owing
<1> QED BY <1>3, <1>4, <1>5, <1>6, <1>7 DEF DeviceInv

-----------------------------------------------------------------------------
(* An upload *)

\* What every step of an upload has in common: no request is owed, and nothing but the slot that does
\* not run and what otadata selects may change.
LEMMA UploadStepKeeps ==
  ASSUME DeviceInv, at = "serving", http \in {"idle", "upload", "upload_failed"}, call = NoCall, call' = NoCall,
         http' \in {"idle", "upload", "upload_failed", "upload_closed", "restart"},
         UNCHANGED <<at, flash, running, resets, owed>>, ConfigInv', ImageInv'
  PROVE  DeviceInv'
<1>1. worn' = worn /\ flag' = flag /\ storage' = storage
  BY DEF flash
<1>2. StepOK' /\ FlashOK' /\ CountsOK'
  BY <1>1 DEF DeviceInv, StepOK, FlashOK, CountsOK
<1>3. Owing'
  BY <1>1 DEF DeviceInv, Owing
<1> QED BY <1>2, <1>3 DEF DeviceInv

\* Only a confirmed image may be uploaded to, so it remains to fall back upon.
LEMMA UploadBeginKeeps ==
  ASSUME DeviceInv, UploadBegin
  PROVE  DeviceInv'
<1> DEFINE slot == Other(running)
<1>1. /\ at = "serving" /\ http = "idle" /\ call = NoCall /\ http' = "upload" /\ img[running] = "valid"
      /\ UNCHANGED <<at, flash, running, resets, owed>> /\ calls < MaxCalls /\ calls' = calls + 1
      /\ UNCHANGED <<boot, ram, open, nvs, call, done, missed, faults, before, acked>>
      /\ img' = [img EXCEPT ![slot] = "partial"] /\ proven' = proven \ {slot} /\ tried' = tried \ {slot}
      /\ unstarted' = unstarted \ {slot}
  BY DEF UploadBegin, Idle, HttpGoes
<1>2. ImagesOK /\ FallbackExists /\ OnTrial /\ boot = running /\ (running \in tried => running \in unstarted)
  BY <1>1 DEF DeviceInv, ImageInv, Booted, RevertsUnproven
<1>3. slot \in Slots /\ slot # running
  BY <1>2, OtherSlot DEF ImagesOK
<1>4. slot' = slot
  BY <1>1
<1> HIDE DEF slot
<1>5. /\ img' \in [Slots -> {"valid", "new", "pending", "aborted", "partial", "whole"}]
      /\ img'[slot] = "partial" /\ \A s \in Slots \ {slot} : img'[s] = img[s]
      /\ running \in Slots /\ img'[running] = "valid"
  BY <1>1, <1>2, <1>3 DEF ImagesOK
<1>6. ImagesOK' /\ FallbackExists'
  BY <1>1, <1>2, <1>5 DEF ImagesOK, FallbackExists
<1>7. Booted' /\ RevertsUnproven'
  BY <1>1, <1>2, <1>3, <1>4, <1>5 DEF Booted, RevertsUnproven, slot
<1>8. OnTrial'
  <2>1. \A s \in Slots : img'[s] = "valid" => s \in proven' \cup unstarted'
    BY <1>1, <1>2, <1>5 DEF OnTrial
  <2>2. \A s \in tried' \ unstarted' : img'[s] \notin {"valid", "new"}
    BY <1>1, <1>2, <1>5 DEF OnTrial, ImagesOK
  <2> QED BY <1>1, <1>2, <1>3, <1>5, <2>1, <2>2 DEF OnTrial
<1>9. ConfigInv'
  <2>1. calls' \in 0 .. MaxCalls
    BY <1>1, ConfigConstants DEF DeviceInv, ConfigInv, ConfigTypeOK
  <2>2. ConfigTypeOK'
    BY <1>1, <2>1 DEF DeviceInv, ConfigInv, ConfigTypeOK, acked
  <2> QED BY <1>1, <2>2 DEF DeviceInv, ConfigInv, Kept, PlaceWhole, Bound, UnderWay, acked
<1>10. ImageInv'
  BY <1>6, <1>7, <1>8 DEF ImageInv
<1> QED BY <1>1, <1>9, <1>10, UploadStepKeeps

\* An upload that breaks, or is given up, leaves what otadata selects alone.
LEMMA UploadStopsKeeps ==
  ASSUME DeviceInv, UploadBreaks \/ UploadAborts
  PROVE  DeviceInv'
<1>1. /\ http \in {"upload", "upload_failed"} /\ http' \in {"idle", "upload_failed", "upload_closed"}
      /\ http' = "idle" \/ Uploading
      /\ UNCHANGED <<at, flash, running, resets, owed>> /\ UNCHANGED <<configVars, img, boot, images>>
  BY DEF UploadBreaks, UploadAborts, HttpGoes, Uploading
<1>2. at = "serving" /\ call = NoCall /\ call' = NoCall
  BY <1>1 DEF DeviceInv, StepOK, configVars, settings
<1>3. UNCHANGED <<img, boot, running, proven, tried, unstarted>>
  BY <1>1 DEF images
<1>4. ImageInv'
  BY <1>1, <1>2, <1>3, ImagesLeftAlone DEF Uploading, Early
<1>5. ConfigInv'
  BY <1>1, FaultKeeps DEF DeviceInv, configVars
<1> QED BY <1>1, <1>2, <1>4, <1>5, UploadStepKeeps

\* What the end of an upload finds: a confirmed image runs and is selected, the other slot is free.
LEMMA AtTheEnd ==
  ASSUME DeviceInv, http = "upload"
  PROVE  /\ at = "serving" /\ call = NoCall /\ ImagesOK /\ FallbackExists /\ OnTrial
         /\ boot = running /\ (running \in tried => running \in unstarted) /\ img[running] = "valid" /\ Other(running) \notin tried
         /\ running \in Slots /\ Other(running) \in Slots /\ Other(running) # running
<1>1. at = "serving" /\ call = NoCall /\ ImagesOK /\ FallbackExists /\ OnTrial
  BY DEF DeviceInv, StepOK, ImageInv
<1>2. boot = running /\ (running \in tried => running \in unstarted) /\ img[running] = "valid" /\ Other(running) \notin tried
  BY <1>1 DEF DeviceInv, ImageInv, Booted, RevertsUnproven, Uploading
<1> QED BY <1>1, <1>2, OtherSlot DEF ImagesOK

\* A firmware upload that fails.
LEMMA UploadRefusedKeeps ==
  ASSUME DeviceInv, UploadRefused
  PROVE  DeviceInv'
<1> DEFINE slot == Other(running)
<1>1. /\ http = "upload" /\ http' = "idle" /\ UNCHANGED <<at, flash, running, resets, owed>>
      /\ img' = img \/ img' = [img EXCEPT ![slot] = "whole"]
      /\ UNCHANGED <<configVars, boot, images>>
  BY DEF UploadRefused, HttpGoes
<1>2. /\ at = "serving" /\ call = NoCall /\ ImagesOK /\ FallbackExists /\ OnTrial
      /\ boot = running /\ (running \in tried => running \in unstarted) /\ img[running] = "valid"
      /\ running \in Slots /\ slot \in Slots /\ slot # running
  BY <1>1, AtTheEnd
<1> HIDE DEF slot
<1>3. proven' = proven /\ tried' = tried /\ unstarted' = unstarted /\ call' = NoCall
  BY <1>1, <1>2 DEF images, configVars, settings
<1>4. /\ img' \in [Slots -> {"valid", "new", "pending", "aborted", "partial", "whole"}]
      /\ \A s \in Slots : img'[s] \in {"valid", "new"} => img'[s] = img[s]
      /\ img'[running] = "valid"
  BY <1>1, <1>2 DEF ImagesOK
<1>5. ImagesOK' /\ FallbackExists'
  BY <1>1, <1>2, <1>3, <1>4 DEF ImagesOK, FallbackExists
<1>6. Booted' /\ RevertsUnproven'
  BY <1>1, <1>2, <1>3 DEF Booted, Uploading, RevertsUnproven
<1>7. OnTrial'
  <2>1. \A s \in Slots : img'[s] = "valid" => s \in proven' \cup unstarted'
    BY <1>2, <1>3, <1>4 DEF OnTrial
  <2>2. \A s \in tried' \ unstarted' : img'[s] \notin {"valid", "new"}
    BY <1>2, <1>3, <1>4 DEF OnTrial, ImagesOK
  <2> QED BY <1>1, <1>2, <1>3, <1>4, <2>1, <2>2 DEF OnTrial
<1>8. ConfigInv'
  BY <1>1, FaultKeeps DEF DeviceInv, configVars
<1>9. ImageInv'
  BY <1>5, <1>6, <1>7 DEF ImageInv
<1> QED BY <1>1, <1>2, <1>3, <1>8, <1>9, UploadStepKeeps

\* A firmware upload that is complete.
LEMMA UploadDoneKeeps ==
  ASSUME DeviceInv, UploadDone
  PROVE  DeviceInv'
<1> DEFINE slot == Other(running)
<1>1. /\ http = "upload" /\ http' = "restart" /\ UNCHANGED <<at, flash, running, resets, owed>>
      /\ img' = [img EXCEPT ![slot] = "new"] /\ boot' = slot
      /\ UNCHANGED <<configVars, images>>
  BY DEF UploadDone, HttpGoes
<1>2. /\ at = "serving" /\ call = NoCall /\ ImagesOK /\ FallbackExists /\ OnTrial
      /\ (running \in tried => running \in unstarted) /\ img[running] = "valid" /\ slot \notin tried
      /\ running \in Slots /\ slot \in Slots /\ slot # running
  BY <1>1, AtTheEnd
<1> HIDE DEF slot
<1>3. proven' = proven /\ tried' = tried /\ unstarted' = unstarted /\ call' = NoCall
  BY <1>1, <1>2 DEF images, configVars, settings
<1>4. /\ img' \in [Slots -> {"valid", "new", "pending", "aborted", "partial", "whole"}]
      /\ img'[slot] = "new" /\ img'[running] = "valid" /\ \A s \in Slots \ {slot} : img'[s] = img[s]
  BY <1>1, <1>2 DEF ImagesOK
<1>5. ImagesOK' /\ FallbackExists'
  BY <1>1, <1>2, <1>3, <1>4 DEF ImagesOK, FallbackExists
<1>6. Booted' /\ RevertsUnproven'
  BY <1>1, <1>2, <1>3 DEF Booted, Uploading, RevertsUnproven
<1>7. OnTrial'
  <2>1. \A s \in Slots : img'[s] = "valid" => s \in proven' \cup unstarted'
    BY <1>2, <1>3, <1>4 DEF OnTrial
  <2>2. \A s \in tried' \ unstarted' : img'[s] \notin {"valid", "new"}
    BY <1>2, <1>3, <1>4 DEF OnTrial, ImagesOK
  <2> QED BY <1>1, <1>2, <1>3, <1>4, <2>1, <2>2 DEF OnTrial
<1>8. ConfigInv'
  BY <1>1, FaultKeeps DEF DeviceInv, configVars
<1>9. ImageInv'
  BY <1>5, <1>6, <1>7 DEF ImageInv
<1> QED BY <1>1, <1>2, <1>3, <1>8, <1>9, UploadStepKeeps

-----------------------------------------------------------------------------
(* The theorems *)

\* Every step of the device keeps the invariant.
LEMMA NextKeeps == DeviceInv /\ [Next]_allVars => DeviceInv'
<1> SUFFICES ASSUME DeviceInv, [Next]_allVars PROVE DeviceInv'
  OBVIOUS
<1>1. CASE Boot
  BY <1>1, BootloaderKeeps, InitNvsKeeps, ReadRequestKeeps, WipeNvsKeeps, WipeStorageKeeps, InitFatfsKeeps,
     HalInitKeeps, CoreStartKeeps, StartServicesKeeps DEF Boot
<1>2. CASE UploadBegin \/ Receive
  BY <1>2, UploadBeginKeeps, UploadStopsKeeps, UploadRefusedKeeps, UploadDoneKeeps DEF Receive
<1>3. CASE Reset \/ Restart
  BY <1>3, ResetKeeps, RestartKeeps
<1>4. CASE Configure \/ PostReboot \/ PostFactoryReset
  BY <1>4, ConfigureKeeps, PostRebootKeeps, PostFactoryResetKeeps
<1>5. CASE UNCHANGED allVars
  <2>1. UNCHANGED <<configVars, at, http, worn, flag, storage, img, boot, running, resets, proven, tried, unstarted, owed>>
    BY <1>5 DEF allVars, bootVars, flash, ota, images
  <2>2. ConfigInv'
    BY <2>1, FaultKeeps DEF DeviceInv, configVars
  <2>3. StepOK' /\ FlashOK' /\ CountsOK'
    BY <2>1 DEF DeviceInv, StepOK, FlashOK, CountsOK, configVars, settings
  <2>4. ImagesOK' /\ FallbackExists' /\ Booted' /\ OnTrial' /\ RevertsUnproven'
    BY <2>1 DEF DeviceInv, ImageInv, ImagesOK, FallbackExists, Booted, Uploading, OnTrial, RevertsUnproven
  <2>5. Owing'
    BY <2>1 DEF DeviceInv, Owing
  <2> QED BY <2>2, <2>3, <2>4, <2>5 DEF DeviceInv, ImageInv
<1> QED BY <1>1, <1>2, <1>3, <1>4, <1>5 DEF Next

\* The invariant of the device holds throughout.
LEMMA DeviceHolds == Spec => []DeviceInv
BY DeviceInitial, NextKeeps, PTL DEF Spec

\* The legacy offset goes with the winter offset, and a place with the flag that there is one.
Mirrors(c) ==
  /\ "offW" \in DOMAIN c.sets <=> "iqamah" \in DOMAIN c.sets
  /\ "offW" \in DOMAIN c.sets => c.sets["offW"] = c.sets["iqamah"]
  /\ "lat" \in DOMAIN c.sets <=> "located" \in DOMAIN c.sets
  /\ "located" \in DOMAIN c.sets => c.sets["located"] = 1

\* What a request sets twice it sets to the same: the offsets of the jamats, and a place with its
\* mark.
LEMMA RequestsMirror ==
  ASSUME NEW c \in Requests
  PROVE  Mirrors(c)
<1>1. ASSUME NEW v \in Nat, c = SetMethod(v) PROVE Mirrors(c)
  BY <1>1 DEF SetMethod, Calling, Mirrors
<1>2. ASSUME NEW v \in Nat, c = SetLocation(v, v) PROVE Mirrors(c)
  BY <1>2 DEF SetLocation, Calling, Mirrors
<1>3. ASSUME NEW v \in Nat, c = SetIqamah(v) PROVE Mirrors(c)
  BY <1>3 DEF SetIqamah, Calling, Mirrors
<1>4. ASSUME NEW v \in Nat, c = SetWinter(0, v) PROVE Mirrors(c)
  BY <1>4 DEF SetWinter, Calling, Mirrors
<1>5. ASSUME NEW v \in Nat, c = SetSummer(1, v) PROVE Mirrors(c)
  BY <1>5 DEF SetSummer, Calling, Mirrors
<1>6. ASSUME NEW x \in {0, 1}, c = SetSeason([sumM |-> 1, sumD |-> 1, winM |-> x, winD |-> 1])
      PROVE  Mirrors(c)
  BY <1>6 DEF SetSeason, Calling, Mirrors
<1>7. CASE c = ApplyPreset(PkPreset)
  BY <1>7 DEF ApplyPreset, PkPreset, Calling, Mirrors
<1>8. CASE c = SetCredentials(1)
  BY <1>8 DEF SetCredentials, Calling, Mirrors
<1> QED
  BY ConfigConstants, <1>1, <1>2, <1>3, <1>4, <1>5, <1>6, <1>7, <1>8, CastIsNat DEF Requests

\* Between two calls NVS loads as it did before the last one returned, or as it was left by the power
\* loss; in a call each key is as it was when the call came, or as the call sets it.
Between(old) ==
  \A k \in Keys : \/ nvs[k] = old[k]
                  \/ k \in DOMAIN call.sets /\ nvs[k] = call.sets[k]
TornInv ==
  /\ call = NoCall => before = Load(nvs)
  /\ call # NoCall => Mirrors(call) /\ \E old \in Store : before = Load(old) /\ Between(old)

\* A step that leaves NVS and the call alone tears nothing.
LEMMA TornUntouched ==
  ASSUME TornInv, UNCHANGED <<nvs, call, before>>
  PROVE  TornInv'
BY DEF TornInv, Between

\* A setter that has returned leaves as its past what a load would find.
LEMMA TornForgotten ==
  ASSUME call' = NoCall, before' = Load(nvs')
  PROVE  TornInv'
BY DEF TornInv

\* A setter writes only the keys of its own request.
LEMMA ConfigStepTorn ==
  ASSUME DeviceInv, TornInv, ConfigStep
  PROVE  TornInv'
<1>1. ASSUME NEW c \in Requests, Begin(c) PROVE TornInv'
  <2>1. call = NoCall /\ call' = c /\ nvs' = nvs /\ before' = before
    BY <1>1 DEF Begin
  <2>2. nvs \in Store /\ before = Load(nvs)
    BY <2>1 DEF TornInv, DeviceInv, ConfigInv, ConfigTypeOK, Store
  <2>4. c # NoCall => Mirrors(call')
    BY <2>1, RequestsMirror
  <2>5. c = NoCall => before' = Load(nvs')
    BY <2>1, <2>2
  <2>6. \A k \in Keys : nvs'[k] = nvs[k] \/ (k \in DOMAIN call'.sets /\ nvs'[k] = call'.sets[k])
    BY <2>1
  <2>7. \E old \in Store : before' = Load(old) /\ Between(old)'
    BY <2>1, <2>2, <2>6 DEF Between
  <2> QED BY <2>1, <2>4, <2>5, <2>7 DEF TornInv
<1>2. CASE WriteKey
  <2> DEFINE key == call.keys[done + 1]
  <2>1. /\ call # NoCall /\ call' = call /\ before' = before /\ done < Len(call.keys)
        /\ nvs' = [nvs EXCEPT ![key] = call.sets[key]] \/ nvs' = nvs
    BY <1>2 DEF WriteKey
  <2>2. key \in Keys \cap DOMAIN call.sets /\ nvs \in Store
    <3> done \in Nat
      BY <2>1 DEF DeviceInv, ConfigInv, ConfigTypeOK
    <3>1. WellFormed(call) /\ nvs \in Store
      BY <2>1 DEF DeviceInv, ConfigInv, UnderWay, ConfigTypeOK, Store
    <3> QED BY <2>1, <3>1 DEF WellFormed
  <2> HIDE DEF key
  <2>3. PICK old \in Store : before = Load(old) /\ Between(old)
    BY <2>1 DEF TornInv
  <2>4. ASSUME NEW k \in Keys
        PROVE  nvs'[k] = old[k] \/ (k \in DOMAIN call.sets /\ nvs'[k] = call.sets[k])
    <3>1. nvs'[k] = nvs[k] \/ (k = key /\ nvs'[k] = call.sets[k])
      BY <2>1, <2>2 DEF Store
    <3> QED BY <2>2, <2>3, <3>1 DEF Between
  <2> QED BY <2>1, <2>3, <2>4 DEF TornInv, Between
<1>3. CASE Return
  BY <1>3, TornForgotten DEF Return
<1> QED BY <1>1, <1>2, <1>3 DEF ConfigStep

\* Every step keeps NVS between what it was before the call and what the call sets.
LEMMA NextTorn == DeviceInv /\ TornInv /\ [Next]_allVars => TornInv'
<1> SUFFICES ASSUME DeviceInv, TornInv, [Next]_allVars PROVE TornInv'
  OBVIOUS
<1>1. ASSUME NEW store, ConfigLost(store) PROVE TornInv'
  BY <1>1, TornForgotten DEF ConfigLost
<1>2. CASE UNCHANGED settings
  BY <1>2, TornUntouched DEF settings
<1>3. CASE Boot
  <2>1. CASE InitNvs \/ WipeNvs
    BY <1>1, <1>2, <2>1 DEF InitNvs, WipeNvs, Erased, configVars
  <2>2. CASE Bootloader \/ ReadRequest \/ WipeStorage \/ InitFatfs \/ HalInit \/ CoreStart
    BY <1>2, <2>2 DEF Bootloader, ReadRequest, WipeStorage, InitFatfs, HalInit, CoreStart, configVars
  <2>3. CASE StartServices
    BY <2>3, TornUntouched DEF StartServices, ConfigStart
  <2> QED BY <1>3, <2>1, <2>2, <2>3 DEF Boot
<1>4. CASE Reset \/ Restart
  BY <1>1, <1>4 DEF Reset, Restart
<1>5. CASE Configure
  BY <1>5, ConfigStepTorn DEF Configure
<1>6. CASE PostReboot \/ PostFactoryReset \/ Receive
  BY <1>2, <1>6 DEF PostReboot, PostFactoryReset, Receive, UploadBreaks, UploadAborts, UploadRefused, UploadDone,
                    configVars
<1>7. CASE UploadBegin
  BY <1>7, TornUntouched DEF UploadBegin
<1>8. CASE UNCHANGED allVars
  BY <1>2, <1>8 DEF allVars, configVars
<1> QED BY <1>3, <1>4, <1>5, <1>6, <1>7, <1>8 DEF Next

\* That holds throughout.
LEMMA TornHolds == Spec => []TornInv
<1>1. Init => TornInv
  BY TornForgotten DEF Init, ConfigInit, TornInv
<1> QED BY <1>1, DeviceHolds, NextTorn, PTL DEF Spec

\* A torn call shows each field as it was or as it was to be.
LEMMA OldOrNewByInv == DeviceInv /\ TornInv => TornIsOldOrNew
<1> SUFFICES ASSUME DeviceInv, TornInv, call # NoCall, NEW f \in Fields \ Loose
             PROVE  Load(nvs)[f] \in {before[f], IF f \in DOMAIN call.sets THEN call.sets[f] ELSE before[f]}
  BY DEF TornIsOldOrNew
<1>1. PICK old \in Store : before = Load(old) /\ Between(old)
  BY DEF TornInv
<1>2. WellFormed(call) /\ Mirrors(call)
  BY DEF TornInv, DeviceInv, ConfigInv, UnderWay
<1>3. \A k \in Keys : \/ nvs[k] = old[k]
                      \/ k \in DOMAIN call.sets /\ nvs[k] = call.sets[k] /\ nvs[k] \in 0 .. Limit
  BY <1>1, <1>2 DEF Between, WellFormed, Values, Fields
<1>4. {"lat", "lon", "offW", "offS", "iqamah"} \subseteq Keys
  BY DEF Keys, ConfigKeys
<1> DEFINE Place(store) == store["lat"] \in 0 .. Limit /\ store["lon"] \in 0 .. Limit
<1>5. \A store \in Store : Load(store)["located"] = IF Place(store) THEN 1 ELSE 0
  BY DEF Load, Fields
<1>6. Place(old) => Place(nvs)
  BY <1>3, <1>4
<1>7. CASE f \in {"lat", "lon"}
  <2>1. before["located"] # 0
    BY <1>7 DEF Loose
  <2>2. Place(old)
    BY <1>1, <1>5, <2>1
  <2>3. Load(nvs)[f] = nvs[f] /\ before[f] = old[f]
    BY <1>1, <1>6, <1>7, <2>2 DEF Load, Fields
  <2> QED BY <1>3, <1>4, <1>7, <2>3
<1>8. CASE f = "located"
  <2>1. Load(nvs)[f] = (IF Place(nvs) THEN 1 ELSE 0) /\ before[f] = (IF Place(old) THEN 1 ELSE 0)
    BY <1>1, <1>8 DEF Load, Fields
  <2>2. CASE Place(old) <=> Place(nvs)
    BY <2>1, <2>2
  <2>3. CASE Place(nvs) /\ ~ Place(old)
    <3>1. "lat" \in DOMAIN call.sets \/ "lon" \in DOMAIN call.sets
      BY <1>3, <1>4, <2>3
    <3>2. "located" \in DOMAIN call.sets /\ call.sets["located"] = 1
      BY <1>2, <3>1 DEF WellFormed, Mirrors
    <3> QED BY <1>8, <2>1, <2>3, <3>2
  <2> QED BY <1>6, <2>2, <2>3
<1>9. CASE f \in {"offW", "iqamah"}
  <2> DEFINE Winter(store) == IF store["offW"] \in 0 .. Limit THEN store["offW"]
                              ELSE IF store["iqamah"] \in 0 .. Limit THEN store["iqamah"] ELSE Defaults["offW"]
  <2>1. Load(nvs)[f] = Winter(nvs) /\ before[f] = Winter(old)
    BY <1>1, <1>9 DEF Load, Fields
  <2>2. CASE f \notin DOMAIN call.sets
    <3>1. nvs["offW"] = old["offW"] /\ nvs["iqamah"] = old["iqamah"]
      BY <1>2, <1>3, <1>4, <1>9, <2>2 DEF Mirrors
    <3> QED BY <2>1, <3>1
  <2>3. CASE f \in DOMAIN call.sets
    <3>1. call.sets["offW"] = call.sets[f] /\ call.sets["iqamah"] = call.sets[f]
      BY <1>2, <1>9, <2>3 DEF Mirrors
    <3>2. Winter(nvs) \in {Winter(old), call.sets[f]}
      BY <1>3, <1>4, <3>1
    <3> QED BY <2>1, <2>3, <3>2
  <2> QED BY <2>2, <2>3
<1>10. CASE f \notin {"lat", "lon", "located", "offW", "iqamah"}
  <2>1. f \notin {"lat", "lon", "located", "offW", "iqamah", "offS"} /\ f \in Keys
    BY <1>10 DEF Loose, Fields
  <2>2. \A store \in Store : Load(store)[f] = IF store[f] \in 0 .. Limit THEN store[f] ELSE Defaults[f]
    BY <2>1 DEF Load
  <2>3. nvs \in Store
    BY DEF DeviceInv, ConfigInv, ConfigTypeOK, Store
  <2> QED BY <1>1, <1>3, <2>1, <2>2, <2>3
<1> QED BY <1>7, <1>8, <1>9, <1>10

\* What was acknowledged is what a load would find.
LEMMA AckedByInv == DeviceInv => AckedSurvives
<1> SUFFICES ASSUME DeviceInv, NEW k \in Keys \ {"iqamah"}, promised[k] # None, k \notin swallowed \cup erased
             PROVE  Load(nvs)[k] = promised[k]
  BY DEF AckedSurvives
<1> Bound(k)
  BY DEF Bound
<1>1. nvs[k] = promised[k] /\ promised[k] \in Values
  BY DEF DeviceInv, ConfigInv, Kept, ConfigTypeOK
<1>2. nvs[k] \in 0 .. Limit /\ k \in Fields /\ k # "located"
  BY <1>1 DEF Values, Fields, Keys, ConfigKeys, SeasonKeys
<1>3. CASE k \in {"lat", "lon"}
  <2>1. nvs["lat"] \in 0 .. Limit /\ nvs["lon"] \in 0 .. Limit
    BY <1>3 DEF DeviceInv, ConfigInv, PlaceWhole, Values
  <2> QED BY <1>1, <1>2, <1>3, <2>1 DEF Load
<1>4. CASE k \in {"offW", "offS"}
  BY <1>1, <1>2, <1>4 DEF Load
<1>5. CASE k \notin {"lat", "lon", "offW", "offS"}
  BY <1>1, <1>2, <1>5 DEF Load
<1> QED BY <1>3, <1>4, <1>5

\* A factory reset that was asked for does not outlive the boot that follows.
LEMMA HonouredByInv == DeviceInv => RequestHonoured
BY DEF DeviceInv, Owing, RequestHonoured

\* The state of the store, of the boot and of an upload stays one the code can be in
\* (svc_config.c, boot_manager.c, svc_http.c).
THEOREM DeviceTypeCorrect == Spec => []TypeOK
BY DeviceHolds, DeviceTyped, PTL

\* Whatever setters, failed writes and resets come after it, a setting that was acknowledged is what
\* the next boot loads, but for what apply_preset() acknowledged and failed to write, and for what
\* init_nvs() erased (svc_config.c:263-433, 497-886, boot_manager.c:151-176).
THEOREM AcknowledgedIsLoaded == Spec => []AckedSurvives
BY DeviceHolds, AckedByInv, PTL

\* At whatever moment the power fails in a setter, each setting is loaded as it was or as it was to
\* be, but for an unset summer offset and half a place (svc_config.c:276-335, 520-553).
THEOREM TornWriteIsOldOrNew == Spec => []TornIsOldOrNew
BY DeviceHolds, TornHolds, OldOrNewByInv, PTL

\* An acknowledged factory reset has erased the settings by the time the device serves again, unless
\* the power failed between reading the request and erasing, NVS cannot be erased, or the request
\* could not be read: then it is still there for the next boot (boot_manager.c:84-145,
\* svc_http.c:387-414).
THEOREM FactoryResetIsDone == Spec => []RequestHonoured
BY DeviceHolds, HonouredByInv, PTL

\* There is always a confirmed image to fall back upon, and the one selected can be started
\* (svc_http.c:434-544, boot_manager.c:343).
THEOREM NeverBricked == Spec => []FallbackExists
<1>1. DeviceInv => FallbackExists
  BY DEF DeviceInv, ImageInv
<1> QED BY DeviceHolds, <1>1, PTL

\* An image that went down before its tasks were started does not run again, unless a boot marked it
\* although core_os had failed (boot_manager.c:280-366, core_os.c:43-90, 172-237).
THEOREM UnprovenIsReverted == Spec => []RevertsUnproven
<1>1. DeviceInv => RevertsUnproven
  BY DEF DeviceInv, ImageInv
<1> QED BY DeviceHolds, <1>1, PTL
=============================================================================
