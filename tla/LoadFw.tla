------------------------------- MODULE LoadFw -------------------------------
(***************************************************************************
 The firmware loader (aic_load_fw): a second driver that claims the device in
 its boot ROM, downloads images, patches and tables for its product, revision
 and test mode, and starts them.  The device then leaves the bus and comes back
 with another product number, which the loader refuses (fw_loaded) so that the
 main driver gets it; a device that already runs firmware this loader did not
 start is rebooted into its ROM first.

 A C function is the sequence of resources it takes, files it reads and
 commands it sends.  A command that is not answered in time is reported as a
 success and crashes the command manager, which refuses every later one; the
 start command asks for no answer and is sent even then.  A behaviour stops
 after one of these:
   "killed"  a fatal signal ends the wait for a command, which is reported as a
             success and leaves a freed command in the list (module LoadBus),
   "nomgr"   the bus is torn down before its command manager exists,
   "late"    the receive thread passes an answer to a command manager that is
             torn down.
 The threads and URBs behind a command are module LoadBus.
 ***************************************************************************)
EXTENDS Naturals, Sequences, FiniteSets, Null

VARIABLES pid,          \* the product number on the bus, or NULL
          truth,        \* the revision the device really has
          mem,          \* what was written to the device since it was powered
          boots,        \* what the device is about to become, or NULL
          ours,         \* the firmware that runs was started by this loader
          fw_loaded,
          testmode,
          rev,          \* chip_id, chip_sub_id as read from the device
          chip_mcu_id,  \* set when read so, never reset
          chipid,       \* the product of the last probe
          bound,        \* the driver that has the interface, or NULL
          script,       \* what the probe has still to do, or NULL
          held,         \* what the probe has taken
          passed,       \* the commands of this probe that returned 0 or were not checked
          crashed,      \* the state of the command manager
          upset

loadVars == <<pid, truth, mem, boots, ours, fw_loaded, testmode, rev, chipid, chip_mcu_id, bound,
              script, held, passed, crashed, upset>>

Rom == {"8800", "D80", "D80X2"}
App == {"8801", "D81", "D81X2"}
Modes == {"normal", "test", "ble_wakeup", "ad_filter"}
Revs(p) == CASE p \in {"8800", "8801"} -> {"U02", "U03", "U04"}
             [] p \in {"D80", "D81"} -> {"U01", "U02", "U02H"}
             [] OTHER -> {"U03", "U05"}

\* aicloadfw_chipmatch: the product the number stands for, and what it becomes.
AppOf(p) == CASE p = "8800" -> "8801" [] p = "D80" -> "D81" [] OTHER -> "D81X2"
RomOf(p) == CASE p = "8801" -> "8800" [] p = "D81" -> "D80" [] OTHER -> "D80X2"

-----------------------------------------------------------------------------
\* Steps.  fail names where the function goes on after a failure: a label of
\* the probe, "next" (the result is not looked at) or "skip" (the next step is left out).

Step(do, what, fail) == [do |-> do, what |-> what, fail |-> fail]
Take(what, fail) == Step("take", what, fail)
Check(what) == Step("check", what, "out_free")
File(name) == Step("file", name, "out_free_bus")
Block(name, k, fail) == Step("cmd", <<name, k>>, fail)
Cmd(name, fail) == Block(name, 0, fail)
Write(name) == Cmd(name, "out_free_bus")
Read(name) == Step("read", <<name, 0>>, "out_free_bus")
Start(what, then) == Step("start", what, then)
Call(name) == Step("call", name, "out_free_bus")
\* A loop over a table or over the blocks of an image, ended by the first failure.
Table(name) == <<Block(name, 1, "out_free_bus"), Block(name, 2, "out_free_bus")>>

rwnx_plat_bin_fw_upload_android(name) == <<File(name)>> \o Table(name)
\* The result of loading the table is dropped.
aicbt_patch_table_load(name) == Table(name) \o <<Step("give", "head", "next")>>
rwnx_plat_bin_fw_patch_table_upload_android(name) ==
    <<File(name), Take("head", "out_free_bus"),
      Block(name, 1, "skip"), Block(name, 2, "next"), Step("give", "head", "next")>>
aicbt_patch_table_alloc(name) == <<File(name), Take("head", "out_free_bus")>>
\* A user configuration that cannot be read is no error.
rwnx_plat_userconfig_upload_android == <<Step("file", "userconfig", "next")>>

-----------------------------------------------------------------------------
\* AIC8800.

system_config_8800 ==
    (IF rev = "U02" THEN Table("syscfg_tbl_pmic_u02") ELSE <<>>)
    \o (IF rev = "U04" THEN Table("syscfg_tbl_u04") ELSE <<>>)
    \o Table("syscfg_tbl")

patch_tbl == Cmd("patch_tbl", "next")
\* Every result but the last is overwritten.
patch_config ==
    <<Cmd("config_base", "next"), Cmd("patch_start", "next"), Cmd("patch_num", "next"),
      patch_tbl, Write("patch_tbl_end")>>
rf_config == <<Write("rf_tbl_masked")>>

BtImages_8800 ==
    IF rev = "U02" THEN rwnx_plat_bin_fw_upload_android("adid") \o rwnx_plat_bin_fw_upload_android("patch")
    ELSE rwnx_plat_bin_fw_upload_android("adid_u03") \o rwnx_plat_bin_fw_upload_android("patch_u03")
\* The scanning application that wakes the host: nothing is checked, and the probe is ended as failed.
ScanWakeup_8800 ==
    <<Step("file", "ble_scan_wakeup", "next"), Block("ble_scan_wakeup", 1, "next"), Cmd("magic_num", "next"),
      Cmd("paring_ids", "next"), Start("ble", "out_free_bus")>>
AdFilter_8800 ==
    <<Step("file", "ble_scan_ad_filter", "next"), Block("ble_scan_ad_filter", 1, "next"),
      Cmd("wakeup_param", "next"), Start("ble", "out_free_bus")>>

aicfw_download_fw_8800 ==
    CASE testmode = "ble_wakeup" -> ScanWakeup_8800
      [] testmode = "ad_filter" -> AdFilter_8800
      [] OTHER ->
           rwnx_plat_bin_fw_upload_android(IF testmode = "test" THEN "fmacfw_rf" ELSE "fmacfw")
           \o BtImages_8800
           \o rwnx_plat_bin_fw_patch_table_upload_android(IF rev = "U02" THEN "table" ELSE "table_u03")
           \o rwnx_plat_userconfig_upload_android
           \o patch_config \o rf_config
           \o <<Start("app", "next")>>

-----------------------------------------------------------------------------
\* AIC8800D80.

patch_tbl_d80 == Table("patch_tbl_d80")
syscfg_tbl_8800d80 == Table("syscfg_tbl_d80")
system_config_8800d80 == syscfg_tbl_8800d80 \o Table("syscfg_tbl_masked_d80")

\* Firmware of a recent version has its buffer of patches elsewhere.
aicwf_patch_config_8800d80(recent) ==
    <<Write("config_base"), Write("patch_str_base"), Write("version")>>
    \o (IF recent THEN <<Write("patch_buff_base")>> ELSE <<>>)
    \o <<Write("magic_num"), Write("magic_num_2"), Write("pair_start"), Write("pair_count")>>
    \o patch_tbl_d80 \o <<Write("block_size0"), Write("block_size3")>>

AdFilter_8800d80 == AdFilter_8800           \* the same steps with another address

aicfw_download_fw_8800d80(recent) ==
    CASE testmode = "normal" /\ rev # "U01" ->
           rwnx_plat_bin_fw_upload_android(IF rev = "U02H" THEN "fmacfw_h_u02" ELSE "fmacfw_u02")
           \o aicwf_patch_config_8800d80(recent) \o <<Start("app", "next")>>
      [] testmode = "normal" /\ rev = "U01" ->
           rwnx_plat_bin_fw_upload_android("fmacfw_u01") \o <<Start("app", "next")>>
      [] testmode = "test" ->
           rwnx_plat_bin_fw_upload_android(IF rev = "U01" THEN "lmacfw_rf_u01" ELSE "lmacfw_rf_u02")
           \o <<Start("app", "next")>>
      [] testmode = "ad_filter" -> AdFilter_8800d80
      [] OTHER -> <<>>                      \* nothing is loaded and 0 is returned

-----------------------------------------------------------------------------
\* AIC8800D80X2.

patch_tbl_d80x2 == Table("patch_tbl_d80x2")
syscfg_tbl_8800d80x2 == Table("syscfg_tbl_d80x2")
system_config_8800d80x2 == syscfg_tbl_8800d80x2 \o Table("syscfg_tbl_masked_d80x2")
aicwf_patch_config_8800d80x2 ==
    <<Write("config_base"), Write("patch_str_base"), Write("version"), Write("patch_buff_base"),
      Write("magic_num"), Write("magic_num_2"), Write("pair_start"), Write("pair_count")>>
    \o patch_tbl_d80x2 \o <<Write("block_size0"), Write("block_size3")>>
aicbt_ext_patch_data_load(ext) == IF ext THEN rwnx_plat_bin_fw_upload_android("patch_ext") ELSE <<>>
\* A missing flash image is no error; a flash that is not empty is erased first.
rwnx_plat_flash_bin_upload_android(there, erase) ==
    IF ~there THEN <<>>
    ELSE <<Read("flash")>> \o (IF erase THEN Table("erase") ELSE <<>>) \o Table("flash")

\* The clock of the micro controller is switched on and waited for.
McuClock(on) == <<Read("mcu_clk")>> \o (IF on THEN <<>> ELSE <<Read("mcu_ctl"), Write("mcu_ctl_on"), Step("poll", <<"mcu_clk", 1>>, "out_free_bus")>>)
BtImages_8800d80x2(ext) ==
    rwnx_plat_bin_fw_upload_android(IF rev = "U03" THEN "adid_u03" ELSE "adid_u05")
    \o rwnx_plat_bin_fw_upload_android(IF rev = "U03" THEN "patch_u03" ELSE "patch_u05")
    \o aicbt_ext_patch_data_load(ext) \o aicbt_patch_table_load("table")

AdFilter_8800d80x2 ==
    <<Step("file", "ble_scan_ad_filter", "next"), Block("ble_scan_ad_filter", 1, "next"),
      Cmd("wakeup_param", "next"), Cmd("boot_addr", "next"), Start("ble", "out_free_bus")>>
Normal_8800d80x2(ext) ==
    BtImages_8800d80x2(ext) \o rwnx_plat_bin_fw_upload_android("fmacfw")
    \o aicwf_patch_config_8800d80x2 \o <<Start("app", "next")>>
Test_8800d80x2(ext, there, erase) ==
    BtImages_8800d80x2(ext)
    \o (IF chip_mcu_id /\ rev = "U03" THEN rwnx_plat_flash_bin_upload_android(there, erase) ELSE <<>>)
    \o rwnx_plat_bin_fw_upload_android("lmacfw_rf") \o <<Start("app", "next")>>

aicfw_download_fw_8800d80x2(on, ext, there, erase) ==
    aicbt_patch_table_alloc("table")
    \o (IF chip_mcu_id THEN McuClock(on) ELSE <<>>)
    \o CASE testmode = "normal" -> Normal_8800d80x2(ext)
         [] testmode = "test" -> Test_8800d80x2(ext, there, erase)
         [] testmode = "ad_filter" -> AdFilter_8800d80x2
         [] OTHER -> <<>>

-----------------------------------------------------------------------------
\* The probe.

aicwf_usb_init == <<Take("rx_urbs", "out_free_usb"), Take("tx_urbs", "out_free_usb"), Take("msg_urb", "out_free_usb")>>
aicwf_bus_init == <<Take("cmd_buf", "out_free_bus"), Take("bustx_thread", "out_free_bus"), Take("busrx_thread", "out_free_bus")>>
system_reboot == <<Cmd("sys_reboot_tbl", "next"), Step("reset", "rom", "out_free_bus")>>
rwnx_send_reboot == <<Start("rom", "out_free_bus")>>

\* What is read from the device first decides on the rest.
system_config == <<Read("chip_id"), Read("chip_sub_id"), Call("config")>>

aicwf_usb_probe(p, slow) ==
    <<Take("usb_dev", "end"), Check("descriptors")>>
    \o aicwf_usb_init
    \o <<Take("bus_if", "out_free_usb"), Take("rx_priv", "out_free_bus")>>
    \o aicwf_bus_init
    \o <<Take("mgr", "out_free_bus")>>
    \o CASE slow -> system_reboot
         [] ~slow /\ p \in App -> rwnx_send_reboot
         [] OTHER -> system_config \o <<Call("download"), Step("done", "loaded", "end")>>

Everything == {"usb_dev", "rx_urbs", "tx_urbs", "msg_urb", "bus_if", "rx_priv", "cmd_buf",
               "bustx_thread", "busrx_thread", "mgr"}

\* The labels at the end of the probe.
Unwind(label) ==
    CASE label = "end" -> <<>>
      [] label = "out_free" -> <<"usb_dev">>
      [] label = "out_free_usb" -> <<"usb", "usb_dev">>
      [] label = "out_free_bus" -> <<"bus", "rx", "bus_if", "usb", "usb_dev">>
aicwf_bus_deinit == held \ {"mgr", "cmd_buf", "bustx_thread"}
aicwf_rx_deinit == held \ {"rx_priv", "busrx_thread"}
\* Mutant of aicwf_usb_deinit: one kind of URB is forgotten.
KeepMsgUrb == held \ {"rx_urbs", "tx_urbs"}
aicwf_usb_deinit == held \ {"rx_urbs", "tx_urbs", "msg_urb"}
Undo(what) == CASE what = "bus" -> aicwf_bus_deinit [] what = "rx" -> aicwf_rx_deinit
                [] what = "usb" -> aicwf_usb_deinit [] OTHER -> held \ {what}

-----------------------------------------------------------------------------
Now == Head(script)
Here(do) == script # NULL /\ script # <<>> /\ Now.do = do
Go == script' = Tail(script)
Undoes(label) == [i \in 1 .. Len(Unwind(label)) |-> Step("undo", Unwind(label)[i], "end")]
\* From aicwf_bus_start on ret is 0, so a probe that fails later still claims the interface.
Fails ==
    CASE Now.fail = "next" -> Go /\ UNCHANGED bound
      [] Now.fail = "skip" -> script' = Tail(Tail(script)) /\ UNCHANGED bound
      [] OTHER -> /\ script' = Undoes(Now.fail)
                  /\ bound' = IF "mgr" \in held THEN "loader" ELSE "failed"

LoadInit ==
    /\ pid \in {NULL} \cup App /\ truth = IF pid = NULL THEN NULL ELSE CHOOSE r \in Revs(pid) : TRUE
    /\ mem = {} /\ boots = NULL /\ ours = FALSE
    /\ fw_loaded = FALSE /\ testmode \in Modes /\ rev = NULL /\ chipid = NULL /\ chip_mcu_id = FALSE
    /\ bound = NULL /\ script = NULL /\ held = {} /\ passed = <<>> /\ crashed = FALSE /\ upset = {}

\* A device is plugged in: it runs its ROM.
Plug(p) ==
    /\ pid = NULL /\ bound = NULL /\ script = NULL
    /\ pid' = p /\ truth' \in Revs(p) /\ mem' = {} /\ boots' = NULL /\ ours' = FALSE
    /\ UNCHANGED <<fw_loaded, testmode, rev, chipid, chip_mcu_id, bound, script, held, passed, crashed, upset>>

\* The user unplugs it; during a probe its commands then fail.
Unplug ==
    /\ pid # NULL
    /\ pid' = NULL /\ truth' = NULL /\ mem' = {} /\ boots' = NULL /\ ours' = FALSE
    /\ UNCHANGED <<fw_loaded, testmode, rev, chipid, chip_mcu_id, bound, script, held, passed, crashed, upset>>

Refuses(p) == fw_loaded /\ p \in App
Probe(slow) ==
    /\ pid # NULL /\ bound = NULL /\ script = NULL
    /\ IF Refuses(pid) THEN bound' = "main" /\ UNCHANGED <<script, passed, crashed, chipid>>
       ELSE script' = aicwf_usb_probe(pid, slow) /\ passed' = <<>> /\ crashed' = FALSE
            /\ chipid' = pid /\ UNCHANGED bound
    /\ UNCHANGED <<pid, truth, mem, boots, ours, fw_loaded, testmode, rev, chip_mcu_id, held, upset>>

TakeStep ==
    /\ Here("take")
    /\ \/ Go /\ held' = held \cup {Now.what} /\ UNCHANGED bound
       \/ Now.what # "mgr" /\ Fails /\ UNCHANGED held
    /\ UNCHANGED <<pid, truth, mem, boots, ours, fw_loaded, testmode, rev, chipid, chip_mcu_id, passed, crashed, upset>>

\* aicwf_parse_usb refuses the descriptors, aic_load_firmware finds no file.
FileStep ==
    /\ Here("file") \/ Here("check")
    /\ (Go /\ UNCHANGED bound) \/ Fails
    /\ UNCHANGED <<pid, truth, mem, boots, ours, fw_loaded, testmode, rev, chipid, chip_mcu_id, held, passed, crashed, upset>>

Note(what) == passed' = Append(passed, [what |-> what, fail |-> Now.fail])

\* cmd_mgr_queue: answered, refused since the manager has crashed, no memory, or not
\* answered in time, which is returned as 0.
Answered(what) == pid # NULL /\ boots = NULL /\ ~crashed /\ mem' = mem \cup {what} /\ UNCHANGED crashed
TimesOut == ~crashed /\ crashed' = TRUE /\ UNCHANGED mem
cmd_mgr_queue(what) == Answered(what) \/ TimesOut
CmdStep ==
    /\ Here("cmd")
    /\ \/ cmd_mgr_queue(Now.what) /\ Note(Now.what) /\ Go /\ UNCHANGED bound
       \/ /\ Fails /\ UNCHANGED <<mem, crashed>>
          /\ IF Now.fail \in {"next", "skip"} THEN Note(Now.what) ELSE UNCHANGED passed
    /\ UNCHANGED <<pid, truth, boots, ours, fw_loaded, testmode, rev, chipid, chip_mcu_id, held, upset>>

\* An answer that never came leaves whatever was on the stack in the result.
ReadStep ==
    /\ Here("read")
    /\ \/ /\ Answered(Now.what) /\ Go /\ Note(Now.what) /\ UNCHANGED bound
          /\ rev' = IF Now.what = <<"chip_id", 0>> THEN truth ELSE rev
          /\ chip_mcu_id' \in {chip_mcu_id, TRUE}
       \/ /\ TimesOut /\ Go /\ Note(Now.what) /\ UNCHANGED bound
          /\ rev' \in IF Now.what = <<"chip_id", 0>> THEN Revs(chipid) ELSE {rev}
          /\ chip_mcu_id' \in {chip_mcu_id, TRUE}
       \/ Fails /\ UNCHANGED <<mem, crashed, rev, chip_mcu_id, passed>>
    /\ UNCHANGED <<pid, truth, boots, ours, fw_loaded, testmode, chipid, held, upset>>

\* cmd_mgr_queue does not tell a wait that a signal has ended from an answered one.
Killed ==
    /\ (Here("cmd") \/ Here("read") \/ Here("poll")) /\ ~crashed /\ upset' = {"killed"}
    /\ UNCHANGED <<pid, truth, mem, boots, ours, fw_loaded, testmode, rev, chipid, chip_mcu_id, bound, script, held, passed, crashed>>

\* The clock does not come up within 20 reads.
PollStep ==
    /\ Here("poll")
    /\ \/ Answered(Now.what) /\ Go /\ Note(Now.what) /\ UNCHANGED bound
       \/ Fails /\ UNCHANGED <<mem, crashed, passed>>
    /\ UNCHANGED <<pid, truth, boots, ours, fw_loaded, testmode, rev, chipid, chip_mcu_id, held, upset>>

\* rwnx_send_dbg_start_app_req asks for no confirmation: it is sent to a crashed manager too, and its failure is
\* not seen.
StartStep ==
    /\ Here("start")
    /\ boots' \in IF pid # NULL /\ boots = NULL THEN {boots, Now.what} ELSE {boots}
    /\ IF Now.fail = "next" THEN Go /\ UNCHANGED bound ELSE Fails
    /\ UNCHANGED <<pid, truth, mem, ours, fw_loaded, testmode, rev, chipid, chip_mcu_id, held, passed, crashed, upset>>
ResetStep ==
    /\ Here("reset")
    /\ boots' = IF pid # NULL /\ <<"sys_reboot_tbl", 0>> \in mem THEN "rom" ELSE boots
    /\ Fails
    /\ UNCHANGED <<pid, truth, mem, ours, fw_loaded, testmode, rev, chipid, chip_mcu_id, held, passed, crashed, upset>>

\* The calls whose content depends on what was read.
Body(name) ==
    CASE name = "config" /\ chipid = "8800" -> {system_config_8800}
      [] name = "config" /\ chipid = "D80" -> {system_config_8800d80}
      [] name = "config" /\ chipid = "D80X2" -> {system_config_8800d80x2}
      [] name = "download" /\ chipid = "8800" -> {aicfw_download_fw_8800}
      [] name = "download" /\ chipid = "D80" -> {aicfw_download_fw_8800d80(r) : r \in BOOLEAN}
      [] name = "download" /\ chipid = "D80X2" ->
           {aicfw_download_fw_8800d80x2(b[1], b[2], b[3], b[4]) : b \in [1 .. 4 -> BOOLEAN]}
      [] OTHER -> {<<>>}
CallStep ==
    /\ Here("call")
    /\ \E body \in Body(Now.what) : script' = body \o Tail(script)
    /\ UNCHANGED <<pid, truth, mem, boots, ours, fw_loaded, testmode, rev, chipid, chip_mcu_id, bound, held, passed, crashed, upset>>
GiveStep ==
    /\ Here("give") /\ Go /\ held' = held \ {Now.what}
    /\ UNCHANGED <<pid, truth, mem, boots, ours, fw_loaded, testmode, rev, chipid, chip_mcu_id, bound, passed, crashed, upset>>
DoneStep ==
    /\ Here("done")
    /\ fw_loaded' = TRUE /\ bound' = "loader" /\ script' = NULL
    /\ UNCHANGED <<pid, truth, mem, boots, ours, testmode, rev, chipid, chip_mcu_id, held, passed, crashed, upset>>

\* aicwf_bus_deinit calls the command manager through pointers that aic_bt_platform_init sets.
UndoStep ==
    /\ Here("undo") /\ Go
    /\ IF Now.what = "bus" /\ "mgr" \notin held
       THEN upset' = {"nomgr"} /\ UNCHANGED held
       ELSE held' = Undo(Now.what) /\ UNCHANGED upset
    /\ UNCHANGED <<pid, truth, mem, boots, ours, fw_loaded, testmode, rev, chipid, chip_mcu_id, bound, passed, crashed>>
\* The thread is stopped after the manager: an answer it still holds has nowhere to go.
LateAnswer ==
    /\ Here("undo") /\ Now.what = "rx" /\ crashed /\ upset' = {"late"}
    /\ UNCHANGED <<pid, truth, mem, boots, ours, fw_loaded, testmode, rev, chipid, chip_mcu_id, bound, script, held, passed, crashed>>
EndStep ==
    /\ script = <<>> /\ script' = NULL
    /\ UNCHANGED <<pid, truth, mem, boots, ours, fw_loaded, testmode, rev, chipid, chip_mcu_id, bound, held, passed, crashed, upset>>

\* aicwf_usb_disconnect, once the device is gone or leaves the bus to come back; a
\* failed probe has left no data to free.
aicwf_usb_disconnect == IF held \ {"head"} = {} THEN held ELSE held \ Everything
Disconnect ==
    /\ pid = NULL /\ script = NULL /\ bound # NULL
    /\ bound' = NULL /\ held' = aicwf_usb_disconnect
    /\ UNCHANGED <<pid, truth, mem, boots, ours, fw_loaded, testmode, rev, chipid, chip_mcu_id, script, passed, crashed, upset>>
\* The device comes back as what it was told to become; the scanning application
\* does not come back.
Reenumerate ==
    /\ pid # NULL /\ boots # NULL /\ script = NULL
    /\ bound' = NULL /\ held' = aicwf_usb_disconnect
    /\ pid' = CASE boots = "app" -> AppOf(pid) [] boots = "rom" -> (IF pid \in App THEN RomOf(pid) ELSE pid)
                [] OTHER -> NULL
    /\ truth' = IF boots = "ble" THEN NULL ELSE truth
    /\ ours' = (boots = "app") /\ boots' = NULL /\ mem' = {}
    /\ UNCHANGED <<fw_loaded, testmode, rev, chipid, chip_mcu_id, script, passed, crashed, upset>>

LoadNext ==
    /\ upset = {}
    /\ \/ \E p \in Rom : Plug(p)
       \/ Unplug \/ (\E slow \in BOOLEAN : Probe(slow))
       \/ TakeStep \/ FileStep \/ CmdStep \/ ReadStep \/ Killed \/ PollStep \/ StartStep \/ ResetStep \/ CallStep
       \/ GiveStep \/ DoneStep \/ UndoStep \/ LateAnswer \/ EndStep \/ Disconnect \/ Reenumerate

LoadSpec == LoadInit /\ [][LoadNext]_loadVars

-----------------------------------------------------------------------------
\* Firmware runs only with everything the download sends for the device's own
\* revision, but for what the code cannot know to be missing: the last command
\* before the start, whose lost answer no later command can reveal, and
\* commands whose result is dropped (cmd_mgr_queue, aicfw_download_fw).
StartedComplete ==
    boots = "app" =>
        /\ \A k \in 1 .. Len(passed) :
              passed[k].what \in mem \/ k = Len(passed) \/ passed[k].fail # "out_free_bus"
        /\ rev = truth

\* When no probe runs, the loader has all it took for a device or nothing (but for
\* the patch table no error path frees): every exit of aicwf_usb_probe undoes what
\* came before it, and disconnect the rest.
AllOrNothing == script = NULL /\ upset = {} => held \ {"head"} \in {{}, Everything}

\* The main driver gets a device only while it runs firmware this loader started
\* (fw_loaded, the reboot of a device found running).
HandedOverOurs == bound = "main" /\ pid # NULL => pid \in App /\ ours

\* A download of aicfw_download_fw and a probe of aicwf_usb_probe: a device is
\* started with everything its mode needs, the loader holds all of a device or
\* nothing, and the main driver gets only what this loader started.
LoadSound == StartedComplete /\ AllOrNothing /\ HandedOverOurs
=============================================================================
