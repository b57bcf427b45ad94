----------------------------- MODULE ConfigStore -----------------------------
(***************************************************************************)
(* The configuration service, svc_config.c, and the Wi-Fi credentials of   *)
(* svc_network.c: what is in RAM, what is in NVS, and how far a setter has *)
(* got between the two. A setter updates RAM under its lock and then       *)
(* writes and commits one key after the other; NVS loses none of what was  *)
(* committed, and nothing but the steps below says when the power fails.   *)
(*                                                                         *)
(* One prayer stands for the five. "method" stands for the settings with a *)
(* key and a field of their own. Only the HTTP server task calls setters,  *)
(* one request at a time.                                                  *)
(***************************************************************************)
EXTENDS Integers, Sequences

CONSTANTS
  None,        \* no such key in NVS
  NoCall,      \* no setter is running
  Limit,       \* largest value a setter takes
  Width,       \* values an unsigned type of svc_http.c can hold
  MaxCalls,    \* bound: calls of a setter, and uploads of firmware
  MaxFaults    \* bound: operations that fail

ASSUME ConfigConstants ==
  Limit \in Nat /\ Width \in Nat /\ 1 <= Limit /\ Limit < Width /\ {MaxCalls, MaxFaults} \subseteq Nat

VARIABLES
  ram,       \* s_cache
  open,      \* s_nvs_open
  nvs,       \* namespaces "config" and "wifi"
  call,      \* the setter that is running
  done,      \* how many of its keys it has tried to write
  missed,    \* those that it failed to write
  calls, faults,
  before,    \* history: what a restart would bring back, as it was when the setter was called
  promised,  \* history: what the last setter that returned ESP_OK was given, by key
  swallowed, \* history: keys of it whose write failed and which the setter did not report
  erased     \* history: keys of it that were acknowledged before init_nvs() erased NVS

acked      == <<promised, swallowed, erased>>
settings   == <<ram, open, nvs, call, done, missed, calls, before, acked>>
configVars == <<settings, faults>>

SeasonKeys == {"sumM", "sumD", "winM", "winD"}
ConfigKeys == {"method", "lat", "lon", "ancW", "offW", "ancS", "offS", "iqamah"} \cup SeasonKeys
Keys   == ConfigKeys \cup {"ssid", "pass"}
Fields == Keys \cup {"located"}

\* set_defaults(): the UK preset, and no place.
UkPreset == [method |-> 0, ancW |-> 1, offW |-> Limit, ancS |-> 0, offS |-> 0, iqamah |-> Limit,
             sumM |-> 0, sumD |-> 1, winM |-> 1, winD |-> 1]
PkPreset == [method |-> 1, ancW |-> 0, offW |-> 1, ancS |-> 0, offS |-> 1, iqamah |-> 1,
             sumM |-> 0, sumD |-> 1, winM |-> 1, winD |-> 1]
Defaults == [f \in Fields |->
               CASE f \in DOMAIN UkPreset -> UkPreset[f]
                 [] f \in {"ssid", "pass"} -> None
                 [] OTHER -> 0]

EmptyNvs == [k \in Keys |-> None]

-----------------------------------------------------------------------------
(* Loading *)

\* Mutant of Load: the offset of older firmware overrides a season's own.
LoadMigratesLast(store) ==
  LET Get(k, default) == IF store[k] # None THEN store[k] ELSE default IN
  [f \in Fields |->
    CASE f \in {"offW", "offS", "iqamah"} -> Get("iqamah", Get(f, Defaults[f]))
      [] f = "located" -> IF store["lat"] # None /\ store["lon"] # None THEN 1 ELSE 0
      [] OTHER         -> Get(f, Defaults[f])]

\* load_from_nvs_unlocked() over the defaults. A place takes both coordinates. The one offset of
\* firmware before 5.1a is the default of both seasons, and then mirrors the winter offset.
Load(store) ==
  LET Get(k, default) == IF store[k] \in 0 .. Limit THEN store[k] ELSE default
      place == {store["lat"], store["lon"]} \subseteq 0 .. Limit
  IN [f \in Fields |->
       CASE f \in {"lat", "lon"}     -> IF place THEN store[f] ELSE Defaults[f]
         [] f = "located"            -> IF place THEN 1 ELSE 0
         [] f \in {"offW", "iqamah"} -> Get("offW", Get("iqamah", Defaults["offW"]))
         [] f = "offS"               -> Get("offS", Get("iqamah", Defaults["offS"]))
         [] OTHER                    -> Get(f, Defaults[f])]

ConfigInit ==
  /\ ram = Defaults /\ open = FALSE /\ call = NoCall /\ done = 0 /\ missed = {}
  /\ nvs \in {EmptyNvs, [EmptyNvs EXCEPT !["iqamah"] = 1]}
  /\ calls = 0 /\ faults = 0
  /\ before = Load(nvs) /\ promised = EmptyNvs /\ swallowed = {} /\ erased = {}

Fault == faults < MaxFaults /\ faults' = faults + 1

\* svc_config_start()
ConfigStart ==
  /\ \/ open' = TRUE /\ ram' = Load(nvs) /\ UNCHANGED faults
     \/ Fault /\ open' = FALSE /\ ram' = Defaults
  /\ UNCHANGED <<nvs, call, done, missed, calls, before, acked>>

\* RAM is gone; `store` is what NVS holds from now on.
ConfigLost(store) ==
  /\ ram' = Defaults /\ open' = FALSE /\ call' = NoCall /\ done' = 0 /\ missed' = {}
  /\ nvs' = store /\ before' = Load(store)

-----------------------------------------------------------------------------
(* Calls: the fields in RAM, the keys in the order they are written, and   *)
(* the keys whose failure the setter does not report. The numbers of a     *)
(* request are cast to their unsigned type before any check.               *)

Calling(sets, keys, quiet) == [sets |-> sets, keys |-> keys, quiet |-> quiet]

SetMethod(v)      == Calling([method |-> v], <<"method">>, {})
SetLocation(x, y) == Calling([lat |-> x, lon |-> y, located |-> 1], <<"lat", "lon">>, {})
SetIqamah(v)      == Calling([iqamah |-> v, offW |-> v, offS |-> v], <<"iqamah", "offW", "offS">>, {})
SetWinter(a, v)   == Calling([ancW |-> a, offW |-> v, iqamah |-> v],
                             <<"ancW", "offW", "iqamah">>, {"iqamah"})
SetSummer(a, v)   == Calling([ancS |-> a, offS |-> v], <<"ancS", "offS">>, {})
SetSeason(dates)  == Calling(dates, <<"sumM", "sumD", "winM", "winD">>, {})
ApplyPreset(p)    == Calling(p, <<"method", "ancW", "ancS", "offW", "offS", "iqamah",
                                  "sumM", "sumD", "winM", "winD">>, ConfigKeys)
SetCredentials(v) == Calling([ssid |-> v, pass |-> v], <<"ssid", "pass">>, {})

\* Mutant of Accepted: a number is taken as it comes.
AcceptedUnchecked(c) == TRUE

\* The checks of the setters: ranges, and two dates that differ.
Accepted(c) ==
  /\ \A f \in DOMAIN c.sets : c.sets[f] <= Limit
  /\ "sumM" \in DOMAIN c.sets =>
       <<c.sets["sumM"], c.sets["sumD"]>> # <<c.sets["winM"], c.sets["winD"]>>

Cast(v) == v % Width

\* What post_config_handler(), post_preset_handler() and post_wifi_handler() can ask for: numbers
\* in range, out of range, and out of the range of the type.
Requests ==
  LET small == {Cast(v) : v \in {Width + 1, Limit + 1}}
      asked == {Cast(v) : v \in {1, Limit + 1, Width}}
      dates == {[sumM |-> 1, sumD |-> 1, winM |-> 0, winD |-> 1],
                [sumM |-> 1, sumD |-> 1, winM |-> 1, winD |-> 1]}
  IN {SetMethod(v) : v \in small} \cup {SetLocation(v, v) : v \in {0, 1}}
     \cup {SetIqamah(v) : v \in small} \cup {SetWinter(0, v) : v \in asked}
     \cup {SetSummer(1, v) : v \in asked} \cup {SetSeason(d) : d \in dates}
     \cup {ApplyPreset(PkPreset), SetCredentials(1)}

-----------------------------------------------------------------------------
(* A call *)

Update(config, sets) == [f \in DOMAIN config |-> IF f \in DOMAIN sets THEN sets[f] ELSE config[f]]

\* The setter takes its lock and updates RAM. The credentials are not kept there.
Begin(c) ==
  /\ call = NoCall /\ calls < MaxCalls /\ Accepted(c)
  /\ call' = c /\ done' = 0 /\ missed' = {} /\ calls' = calls + 1
  /\ ram' = (IF "ssid" \in DOMAIN c.sets THEN ram ELSE Update(ram, c.sets))
  /\ promised' = [k \in Keys |-> IF k \in DOMAIN c.sets THEN None ELSE promised[k]]
  /\ swallowed' = swallowed \ DOMAIN c.sets /\ erased' = erased \ DOMAIN c.sets
  /\ UNCHANGED <<open, nvs, faults, before>>

\* Mutant of WriteKey: a key is erased before it is written.
WriteKeyErases ==
  /\ call # NoCall /\ done < Len(call.keys) /\ done' = done + 1
  /\ LET key == call.keys[done + 1] IN
       \/ open /\ nvs' = [nvs EXCEPT ![key] = call.sets[key]] /\ UNCHANGED <<missed, faults>>
       \/ open /\ Fault /\ missed' = missed \cup {key} /\ nvs' = [nvs EXCEPT ![key] = None]
  /\ UNCHANGED <<ram, open, call, calls, before, acked>>

\* persist_u8() and its like. A failed write keeps none of the other keys from being tried, but
\* for the credentials, which have a handle of their own.
WriteKey ==
  /\ call # NoCall /\ done < Len(call.keys) /\ done' = done + 1
  /\ LET key   == call.keys[done + 1]
         tries == IF key \in {"ssid", "pass"} THEN missed = {} ELSE open
     IN \/ tries /\ nvs' = [nvs EXCEPT ![key] = call.sets[key]] /\ UNCHANGED <<missed, faults>>
        \/ /\ IF tries THEN Fault ELSE UNCHANGED faults
           /\ missed' = missed \cup {key} /\ UNCHANGED nvs
  /\ UNCHANGED <<ram, open, call, calls, before, acked>>

\* The setter gives its lock back and returns. ESP_OK is a promise for all it was given, also for
\* what a preset failed to write.
Return ==
  /\ call # NoCall /\ done = Len(call.keys)
  /\ \/ /\ missed \subseteq call.quiet
        /\ promised' = [k \in Keys |-> IF k \in DOMAIN call.sets THEN call.sets[k] ELSE promised[k]]
        /\ swallowed' = swallowed \cup missed
     \/ ~ missed \subseteq call.quiet /\ UNCHANGED <<promised, swallowed>>
  /\ call' = NoCall /\ done' = 0 /\ missed' = {} /\ before' = Load(nvs)
  /\ UNCHANGED <<ram, open, nvs, calls, faults, erased>>

ConfigStep == (\E c \in Requests : Begin(c)) \/ WriteKey \/ Return

-----------------------------------------------------------------------------
(* Properties *)

Values == 0 .. Limit
ConfigTypeOK ==
  /\ ram \in [Fields -> Values \cup {None}] /\ nvs \in [Keys -> Values \cup {None}]
  /\ promised \in [Keys -> Values \cup {None}] /\ open \in BOOLEAN
  /\ call = NoCall \/ done \in 0 .. Len(call.keys)
  /\ missed \subseteq Keys /\ swallowed \subseteq Keys /\ erased \subseteq Keys
  /\ calls \in 0 .. MaxCalls /\ faults \in 0 .. MaxFaults

\* A setting that was acknowledged is what the next boot loads, whatever setters, failed writes and
\* resets came after it that were not about that setting. There are two exceptions, and no failure
\* but these costs it: apply_preset() acknowledges writes that failed, and init_nvs() erases a
\* partition without free pages. The legacy offset is only a mirror (svc_config.c:263-433, 497-886,
\* boot_manager.c:151-176).
AckedSurvives ==
  \A k \in Keys \ {"iqamah"} :
    promised[k] # None /\ k \notin swallowed \cup erased => Load(nvs)[k] = promised[k]

\* At whatever moment the power fails in a setter, the next boot loads the old or the new value of
\* each setting, and nothing else changes. There are two exceptions: a summer offset that was never
\* set follows the winter offset, and half a place that an earlier call left behind becomes one with
\* the other half (svc_config.c:276-335, 520-553).
Loose == {"offS"} \cup (IF before["located"] = 0 THEN {"lat", "lon"} ELSE {})
TornIsOldOrNew ==
  call # NoCall =>
    \A f \in Fields \ Loose :
      Load(nvs)[f] \in {before[f], IF f \in DOMAIN call.sets THEN call.sets[f] ELSE before[f]}

=============================================================================
