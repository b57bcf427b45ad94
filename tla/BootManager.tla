----------------------------- MODULE BootManager -----------------------------
(***************************************************************************)
(* The life of the device's persistent state: boot_manager.c, what comes   *)
(* before it in the ESP-IDF bootloader and after it in main.c, and the     *)
(* HTTP handlers that reboot, ask for a factory reset or upload firmware.  *)
(* The configuration is ConfigStore's. A reset may come at any step.       *)
(***************************************************************************)
EXTENDS ConfigStore

CONSTANTS
  Slots,       \* the OTA partitions, app0 and app1
  MaxResets    \* bound: resets by power loss, panic or watchdog

ASSUME BootConstants == (\E a, b \in Slots : a # b /\ Slots = {a, b}) /\ MaxResets \in Nat

VARIABLES
  at,         \* the step of the boot that is next, "serving", "safe", "panicking" or "off"
  worn,       \* erasing the NVS partition fails
  flag,       \* the boot request in namespace "boot_req"
  storage,    \* /storage: "timetable", "corrupt", "empty"
  img,        \* what each slot holds, and its state in otadata
  boot,       \* the slot otadata selects
  running,    \* the slot that was started
  http,       \* the HTTP server task: "idle", "upload", "upload_failed", "upload_closed", "restart"
  resets,
  proven,     \* history: slots whose image once got its tasks started
  tried,      \* history: slots whose image went down before that
  unstarted,  \* history: slots marked valid by a boot in which core_os failed
  owed        \* history: a factory reset was acknowledged and NVS not erased since: "no", "yes",
              \* "unread" when the last boot could not read the request, or "lost" to a reset
              \* between reading the request and erasing

flash    == <<worn, flag, storage>>
ota      == <<img, boot, running>>
images   == <<proven, tried, unstarted>>
bootVars == <<at, http, flash, ota, resets, images, owed>>
allVars  == <<configVars, bootVars>>

Other(slot) == CHOOSE s \in Slots : s # slot
Early == {"nvs", "request", "wipe_nvs", "wipe_storage", "storage", "hal", "core"}

TypeOK ==
  /\ ConfigTypeOK
  /\ at \in Early \cup {"off", "config", "serving", "safe", "panicking"}
  /\ http \in {"idle", "upload", "upload_failed", "upload_closed", "restart"}
  /\ {worn, flag} \subseteq BOOLEAN /\ storage \in {"timetable", "corrupt", "empty"}
  /\ img \in [Slots -> {"valid", "new", "pending", "aborted", "partial", "whole"}]
  /\ {boot, running} \subseteq Slots /\ {proven, tried, unstarted} \subseteq SUBSET Slots
  /\ owed \in {"no", "yes", "unread", "lost"}
  /\ resets \in 0 .. MaxResets
  /\ http # "idle" => at = "serving" /\ call = NoCall

Init ==
  /\ ConfigInit /\ at = "off" /\ http = "idle"
  /\ worn \in BOOLEAN /\ flag = FALSE /\ storage \in {"timetable", "corrupt"}
  /\ running = (CHOOSE s \in Slots : TRUE) /\ boot = running
  /\ img = [s \in Slots |-> IF s = boot THEN "valid" ELSE "partial"]
  /\ resets = 0 /\ proven = {boot} /\ tried = {} /\ unstarted = {} /\ owed = "no"

-----------------------------------------------------------------------------
(* Going down and coming up *)

Down ==
  /\ at' = "off" /\ http' = "idle"
  /\ tried' = (IF running \notin proven THEN tried \cup {running} ELSE tried)
  /\ UNCHANGED <<proven, unstarted>>

Reset ==
  /\ at # "off" /\ resets < MaxResets /\ resets' = resets + 1
  /\ Down /\ ConfigLost(nvs) /\ owed' = (IF at = "wipe_nvs" /\ ~ flag THEN "lost" ELSE owed)
  /\ UNCHANGED <<calls, faults, acked, flash, ota>>

\* The bootloader, with CONFIG_BOOTLOADER_APP_ROLLBACK_ENABLE.
Bootloader ==
  /\ at = "off" /\ at' = "nvs"
  /\ \/ img[boot] = "valid" /\ running' = boot /\ UNCHANGED <<img, boot>>
     \/ img[boot] = "new" /\ running' = boot /\ img' = [img EXCEPT ![boot] = "pending"]
        /\ UNCHANGED boot
     \/ /\ img[boot] \notin {"valid", "new"} /\ img' = [img EXCEPT ![boot] = "aborted"]
        /\ boot' = Other(boot) /\ running' = Other(boot)
  /\ UNCHANGED <<configVars, http, flash, resets, images, owed>>

-----------------------------------------------------------------------------
(* boot_manager_init() *)

Erased == ConfigLost(EmptyNvs) /\ flag' = FALSE /\ owed' = "no" /\ UNCHANGED calls

\* init_nvs(). A partition without free pages is erased; if that fails, the device panics on every
\* boot from now on.
InitNvs ==
  /\ at = "nvs"
  /\ \/ at' = "request" /\ UNCHANGED <<configVars, flag, owed>>
     \/ Fault /\ at' = "safe" /\ UNCHANGED <<settings, flag, owed>>
     \/ /\ ~ worn /\ Fault /\ at' = "request" /\ Erased
        /\ erased' = {k \in Keys : promised[k] # None} /\ UNCHANGED <<promised, swallowed>>
     \/ worn /\ Fault /\ at' = "panicking" /\ UNCHANGED <<settings, flag, owed>>
  /\ UNCHANGED <<http, worn, storage, ota, resets, images>>

\* Mutants of ReadRequest: the flag is left for do_factory_reset() to erase, or is tested once it
\* has been cleared.
ReadRequestKeepsFlag ==
  /\ at = "request" /\ at' = (IF flag THEN "wipe_nvs" ELSE "storage")
  /\ UNCHANGED <<configVars, http, flash, ota, resets, images, owed>>

ReadRequestCleared ==
  /\ at = "request" /\ at' = "storage" /\ flag' = FALSE
  /\ UNCHANGED <<configVars, http, worn, storage, ota, resets, images, owed>>

\* read_pending_boot_request(): the flag is cleared before it is acted upon, and the result of
\* clearing it is not looked at. A namespace that cannot be opened or read counts as no request.
ReadRequest ==
  /\ at = "request"
  /\ \/ /\ at' = (IF flag THEN "wipe_nvs" ELSE "storage")
        /\ \/ flag' = FALSE /\ UNCHANGED faults
           \/ flag /\ Fault /\ UNCHANGED flag
        /\ owed' = (IF owed = "unread" THEN "yes" ELSE owed)
     \/ /\ Fault /\ at' = "storage" /\ UNCHANGED flag
        /\ owed' = (IF flag /\ owed = "yes" THEN "unread" ELSE owed)
  /\ UNCHANGED <<settings, http, worn, storage, ota, resets, images>>

\* do_factory_reset() goes on when the partition cannot be erased.
WipeNvs ==
  /\ at = "wipe_nvs" /\ at' = "wipe_storage"
  /\ \/ worn /\ UNCHANGED <<settings, flag, owed>>
     \/ ~ worn /\ Erased /\ promised' = EmptyNvs /\ swallowed' = {} /\ erased' = {}
  /\ UNCHANGED <<faults, http, worn, storage, ota, resets, images>>

\* Mounting formats only what cannot be mounted.
Mount == storage' = (IF storage = "corrupt" THEN "empty" ELSE storage)

\* The rest of do_factory_reset(), up to esp_restart().
WipeStorage ==
  /\ at = "wipe_storage" /\ Down
  /\ \/ Mount /\ UNCHANGED faults
     \/ Fault /\ UNCHANGED storage
  /\ UNCHANGED <<settings, worn, flag, ota, resets, owed>>

InitFatfs ==
  /\ at = "storage"
  /\ \/ at' = "hal" /\ Mount /\ UNCHANGED faults
     \/ at' = "safe" /\ Fault /\ UNCHANGED storage
  /\ UNCHANGED <<settings, http, worn, flag, ota, resets, images, owed>>

\* Mutant of HalInit: the image is marked before the hardware is up.
HalInitMarks ==
  /\ at = "hal" /\ at' = "core" /\ img' = [img EXCEPT ![running] = "valid"]
  /\ UNCHANGED <<configVars, http, flash, boot, running, resets, images, owed>>

\* A board that does not come up is left in the endless loop of app_main(), as is one without NVS
\* or /storage.
HalInit ==
  /\ at = "hal"
  /\ \/ at' = "core" /\ UNCHANGED faults
     \/ at' = "safe" /\ Fault
  /\ UNCHANGED <<settings, http, flash, ota, resets, images, owed>>

\* core_os_init() and core_os_start(), then the mark that cancels the rollback, whose failure is
\* only logged. A queue, timer or task that cannot be made ends them early, and is not reported: the
\* image is marked all the same.
CoreStart ==
  /\ at = "core" /\ at' = "config"
  /\ \/ /\ proven' = proven \cup {running} /\ UNCHANGED unstarted
        /\ \/ img' = [img EXCEPT ![running] = "valid"] /\ UNCHANGED faults
           \/ img[running] = "pending" /\ Fault /\ UNCHANGED img
     \/ /\ Fault /\ img' = [img EXCEPT ![running] = "valid"]
        /\ unstarted' = unstarted \cup {running} /\ UNCHANGED proven
  /\ UNCHANGED <<settings, http, flash, boot, running, resets, tried, owed>>

\* app_main() from there: svc_config_start(), and services that go on without what failed.
StartServices ==
  /\ at = "config" /\ at' = "serving" /\ ConfigStart
  /\ UNCHANGED <<http, flash, ota, resets, images, owed>>

Boot == Bootloader \/ InitNvs \/ ReadRequest \/ WipeNvs \/ WipeStorage \/ InitFatfs \/ HalInit
        \/ CoreStart \/ StartServices

-----------------------------------------------------------------------------
(* The HTTP handlers *)

Idle == at = "serving" /\ call = NoCall /\ http = "idle"

Configure == at = "serving" /\ http = "idle" /\ ConfigStep /\ UNCHANGED bootVars

\* post_reboot_handler() and post_factory_reset_handler(), up to the 500 ms before esp_restart().
PostReboot ==
  /\ Idle /\ http' = "restart"
  /\ UNCHANGED <<configVars, at, flash, ota, resets, images, owed>>

PostFactoryReset ==
  /\ Idle
  /\ \/ flag' = TRUE /\ owed' = "yes" /\ http' = "restart" /\ UNCHANGED faults
     \/ Fault /\ UNCHANGED <<flag, owed, http>>
  /\ UNCHANGED <<settings, at, worn, storage, ota, resets, images>>

Restart ==
  /\ http = "restart" /\ Down /\ ConfigLost(nvs)
  /\ UNCHANGED <<calls, faults, acked, flash, ota, resets, owed>>

HttpGoes(from, to) ==
  /\ http = from /\ http' = to
  /\ UNCHANGED <<at, flash, running, resets, owed>>

\* post_ota_handler() up to esp_ota_begin(), which erases the slot that is not running and refuses
\* while the running image has not been marked valid.
UploadBegin ==
  /\ Idle /\ img[running] = "valid" /\ HttpGoes("idle", "upload")
  /\ calls < MaxCalls /\ calls' = calls + 1
  /\ LET slot == Other(running) IN
       img' = [img EXCEPT ![slot] = "partial"] /\ proven' = proven \ {slot} /\ tried' = tried \ {slot}
       /\ unstarted' = unstarted \ {slot}
  /\ UNCHANGED <<boot, ram, open, nvs, call, done, missed, faults, before, acked>>

\* The connection fails, or the client shuts it in the middle of the body.
UploadBreaks ==
  /\ \E to \in {"upload_failed", "upload_closed"} : HttpGoes("upload", to)
  /\ UNCHANGED <<configVars, img, boot, images>>

\* httpd_req_recv() or esp_ota_write() fails: esp_ota_abort(). Of a connection that was shut it
\* reads nothing, again and again.
UploadAborts == HttpGoes("upload_failed", "idle") /\ UNCHANGED <<configVars, img, boot, images>>

\* Mutant of UploadRefused: the slot is selected before the image has been verified.
UploadRefusedSelected ==
  /\ HttpGoes("upload", "idle") /\ boot' = Other(running)
  /\ UNCHANGED <<configVars, img, images>>

\* The whole body has been written. esp_ota_end() does not accept it, or it does and
\* esp_ota_set_boot_partition() fails.
UploadRefused ==
  /\ HttpGoes("upload", "idle")
  /\ img' \in {img, [img EXCEPT ![Other(running)] = "whole"]}
  /\ UNCHANGED <<configVars, boot, images>>

UploadDone ==
  /\ HttpGoes("upload", "restart")
  /\ img' = [img EXCEPT ![Other(running)] = "new"] /\ boot' = Other(running)
  /\ UNCHANGED <<configVars, images>>

Receive == UploadBreaks \/ UploadAborts \/ UploadRefused \/ UploadDone

-----------------------------------------------------------------------------
Next == Reset \/ Boot \/ Configure \/ PostReboot \/ PostFactoryReset \/ Restart
        \/ UploadBegin \/ Receive
Spec == Init /\ [][Next]_allVars

\* The boot goes on, and a client that uploads sends, fails or shuts the connection in the end.
FairSpec == Spec /\ WF_allVars(Boot) /\ WF_allVars(Restart) /\ WF_allVars(Receive)

-----------------------------------------------------------------------------
(* Properties *)

\* Whatever uploads, failures and resets there were, otadata selects an image that was verified or
\* confirmed, and one of the slots holds a confirmed one, if only one that a boot confirmed although
\* core_os had failed in it (svc_http.c:434-544, boot_manager.c:343).
FallbackExists ==
  /\ \E s \in Slots : img[s] = "valid"
  /\ img[boot] \in {"valid", "new", "pending"}

\* An image that went down before its tasks were started is not started again: the mark comes late
\* enough in boot_manager_init(). There is one exception, an image that a boot marked although
\* core_os had failed in it: that one is started ever after (boot_manager.c:280-366,
\* core_os.c:43-90, 172-237).
RevertsUnproven == at # "off" /\ running \in tried => running \in unstarted

\* A factory reset that was acknowledged has erased the settings and credentials by the time the
\* device serves again, also when resets and failures come in between, unless the power failed
\* right after the request was read. A request that could not be read stays: the device serves
\* with it, and the next boot that can read it carries it out (boot_manager.c:84-145,
\* svc_http.c:387-414).
RequestHonoured ==
  /\ at = "serving" /\ owed = "yes" => http = "restart" \/ worn
  /\ owed = "unread" => flag

\* Nothing goes on forever. Every boot ends: with a partition that cannot be erased, a factory
\* reset is not tried forever (boot_manager.c:97-99, "we still don't want to boot-loop on this
\* flag"). And an upload ends, whether the client sends, is slow or fails, unless it shuts the
\* connection in the middle: then the only HTTP task reads nothing forever (svc_http.c:480-506).
BootSettles == at = "off" ~> at \in {"serving", "safe", "panicking"}
UploadEnds == http \in {"upload", "upload_failed"} ~> http \in {"idle", "restart", "upload_closed"}
ComesToRest == BootSettles /\ UploadEnds
=============================================================================
