------------------------------- MODULE Bringup -------------------------------
(***************************************************************************
 The probe of the main driver (aicwf_usb_probe): buffers, URBs, threads, the
 wiphy and its helpers, then the commands that configure a device of its
 product, revision and test mode, then the registration; and the labels that
 undo each part when a later one fails.  Two devices may be plugged in: what is
 not in usb_dev (g_rwnx_plat, chip_id, chip_sub_id, chip_mcu_id) is shared.

 A C function is the sequence of its steps.  A command that is not answered
 makes the command manager refuse all later ones, so a sequence of commands
 whose results are ignored can still end in a checked one that fails.  A
 behaviour stops after one of these:
   "twice"    no cmd_buf: aicwf_bus_init and the probe both free rx_priv,
   "thread"   a thread could not be created: its error value is dereferenced,
   "noqueue"  no work queue: the probe goes on with the wiphy it has freed,
   "foreign"  a probe fails early while g_rwnx_plat is another device's: that
              device's state decides and a NULL rwnx_hw is torn down,
   "orphan"   a device is removed while g_rwnx_plat is that of another one which
              failed or is gone: its wiphy stays, with pointers to freed memory.
 What Removal models (threads and callbacks against disconnect) is one step here.
 ***************************************************************************)
EXTENDS Naturals, Sequences, FiniteSets, Null

CONSTANT Devs

VARIABLES product, mode,  \* of the devices; module parameter testmode
          dpd_file,       \* a file with calibration results exists
          revision,       \* the revision each device really has
          bound_devs, probing, todo,
          taken,          \* what a device's usb_dev, rwnx_plat and wiphy hold
          plat_of,        \* the device g_rwnx_plat belongs to
          plat_on,        \* the devices whose rwnx_plat is enabled
          chip_sub_id, chip_mcu,
          mgr_dead,       \* the command manager of the device in probe has crashed
          missed,         \* the commands of this probe that had no effect: one of Last or others
          started_fw,     \* the device in probe was told to start its application
          bring_upset,
          lost_cmd        \* this probe had no memory for a command, or was killed while it waited for one

bringVars == <<product, mode, dpd_file, revision, bound_devs, probing, todo, taken, plat_of, plat_on,
               chip_sub_id, chip_mcu, mgr_dead, missed, started_fw, bring_upset, lost_cmd>>

Last == {"me_config", "me_chan_config"}
Products == {"8801", "DC", "D81", "X2"}
TestModes == {"normal", "rftest", "dpdcalib"}

-----------------------------------------------------------------------------
\* Steps: what is done and where the code goes on after a failure: "next" (the
\* result is ignored), a function (it returns early, its result is ignored) or
\* a label.

S(do, what, fail) == [do |-> do, what |-> what, fail |-> fail]
Take(what, fail) == S("take", what, fail)
Cmd(what, fail) == S("cmd", what, fail)
Read(what, fail) == S("read", what, fail)
Call(name, fail) == S("call", name, fail)
File(what, fail) == S("file", what, fail)
Table(what, fail) == <<Cmd(what, fail), Cmd(what, fail)>>
Func(name, steps) == steps \o <<S("ret", name, "next")>>

\* The files of a product lie in a directory of their own.
rwnx_plat_bin_fw_upload_2(name, fail) == <<File(name, fail)>> \o Table(name, fail)
rwnx_plat_userconfig_load(name) == <<File(name, "next")>>

-----------------------------------------------------------------------------
\* System configuration.

syscfg_tbl_u04 == Table("syscfg_tbl_u04", "system_config_8800")
syscfg_tbl == Table("syscfg_tbl", "system_config_8800")
system_config_8800 ==
    Func("system_config_8800",
         <<Read("chip_id", "system_config_8800"), Read("chip_sub_id", "system_config_8800")>>
         \o <<Call("u04", "next")>> \o syscfg_tbl \o Table("syscfg_tbl_masked", "system_config_8800"))

aicwf_usb_config(old) ==
    Func("aicwf_usb_config",
         <<Read("usb_id", "aicwf_usb_config")>> \o IF old THEN Table("usbcfg_tbl", "aicwf_usb_config") ELSE <<>>)

set_bbpll_config(crystal, set) ==
    <<Read("pad", "system_config_8800dc")>>
    \o (IF crystal THEN <<Read("bbpll", "system_config_8800dc")>> ELSE <<>>)
    \o (IF crystal /\ ~set THEN <<Cmd("bbpll_on", "next")>> ELSE <<>>)
CacheOn == <<Read("cache", "system_config_8800dc"), Cmd("cache_on", "system_config_8800dc")>>
syscfg_tbl_8800dc == Table("syscfg_tbl_8800dc", "system_config_8800dc")
syscfg_tbl_masked_8800dc == Table("syscfg_tbl_masked_8800dc", "system_config_8800dc")
syscfg_tbl_masked_8800dc_u01 == Table("syscfg_tbl_masked_u01", "system_config_8800dc")
\* What is read first decides on the rest: a call expands when it is reached.
system_config_8800dc ==
    Func("system_config_8800dc",
         <<Read("chip_id", "system_config_8800dc"), Call("cache", "next"),
           Read("chip_sub_id", "system_config_8800dc"), Call("bbpll", "next"),
           Read("wakeup", "system_config_8800dc")>>
         \o syscfg_tbl_8800dc \o syscfg_tbl_masked_8800dc \o <<Call("u01", "next")>>)

wdt_config == <<Cmd("wdt_tbl_masked", "err_lmac_reqs")>>
start_from_bootrom == <<Read("rom", "err_lmac_reqs"), S("start", "app", "err_lmac_reqs")>>

-----------------------------------------------------------------------------
\* Patches of the DC and DW.

ldpc_cfg_ram == Table("ldpc_cfg_ram", "next")
agc_cfg_ram == Table("agc_cfg_ram", "next")
txgain_map == Table("txgain_map", "next")
jump_tbl == Table("jump_tbl", "next")
patch_tbl_wifisetting == Table("patch_tbl_wifisetting", "next")
patch_tbl_func == Table("patch_tbl_func", "next")

rwnx_get_patch_addr_from_patch_table(table) == <<File(table, "next")>>
rwnx_patch_table_load(table) == Table(table, "next")
rwnx_patch_table_download(table) ==
    Func("rwnx_patch_table_download", <<File(table, "rwnx_patch_table_download")>> \o rwnx_patch_table_load(table))
\* Only the result of the last upload is returned.
BtPatch(table) ==
    rwnx_get_patch_addr_from_patch_table(table)
    \o Func("adid", rwnx_plat_bin_fw_upload_2("adid", "adid"))
    \o Func("bt_patch", rwnx_plat_bin_fw_upload_2("bt_patch", "bt_patch"))
    \o rwnx_patch_table_download(table)
aicwf_plat_patch_load_8800dc ==
    CASE chip_sub_id = 0 -> rwnx_plat_bin_fw_upload_2("fmacfw_patch", "err_lmac_reqs")
      [] chip_sub_id = 1 -> BtPatch("table_u02") \o rwnx_plat_bin_fw_upload_2("fmacfw_patch_u02", "err_lmac_reqs")
      [] chip_sub_id = 2 -> BtPatch("table_u02h") \o rwnx_plat_bin_fw_upload_2("fmacfw_patch_h_u02", "err_lmac_reqs")
      [] OTHER -> <<>>
aicwf_plat_rftest_load_8800dc == rwnx_plat_bin_fw_upload_2("lmacfw_rf", "err_lmac_reqs")

aicwf_patch_table_load(name) ==
    Func("aicwf_patch_table_load",
         <<File(name, "aicwf_patch_table_load"), Cmd("describe", "aicwf_patch_table_load")>>
         \o Table(name, "aicwf_patch_table_load"))
aicwf_patch_var_config_8800dc(magic) ==
    Func("aicwf_patch_var_config_8800dc",
         <<Read("var_magic", "aicwf_patch_var_config_8800dc")>>
         \o IF magic THEN <<Read("ext_flags", "aicwf_patch_var_config_8800dc")>> ELSE <<>>)
\* Failures are only logged: a failed read leaves an address that is written to.
PatchAddresses == <<Read("wifisetting_addr", "next"), Read("ldpc_addr", "next"), Read("agc_addr", "next"),
                    Read("txgain_addr", "next"), Read("jump_tbl_addr", "next")>>
aicwf_patch_config_8800dc(magic) ==
    CASE chip_sub_id = 0 ->
           PatchAddresses \o patch_tbl_wifisetting \o ldpc_cfg_ram \o agc_cfg_ram \o txgain_map
           \o jump_tbl \o patch_tbl_func
      [] chip_sub_id = 1 -> aicwf_patch_table_load("patch_tbl_u02")
      [] chip_sub_id = 2 -> aicwf_patch_table_load("patch_tbl_h_u02") \o aicwf_patch_var_config_8800dc(magic)
      [] OTHER -> <<>>

-----------------------------------------------------------------------------
\* Calibration of the DC and DW.

aicwf_misc_ram_valid_check_8800dc ==
    <<Read("boot_argc", "err_lmac_reqs")>>
    \o IF chip_mcu THEN <<Read("flash_size", "err_lmac_reqs"), Read("dpd_info", "err_lmac_reqs")>>
       ELSE <<Read("misc_ram_addr", "err_lmac_reqs"), Read("bit_mask", "err_lmac_reqs")>>
aicwf_plat_calib_load_8800dc ==
    IF chip_sub_id \in {1, 2} THEN rwnx_plat_bin_fw_upload_2("calib", "err_lmac_reqs") ELSE <<>>
aicwf_misc_ram_init_8800dc == <<Read("misc_ram_addr", "err_lmac_reqs")>> \o Table("misc_ram", "err_lmac_reqs")
aicwf_dpd_calib_8800dc(valid) ==
    aicwf_misc_ram_valid_check_8800dc
    \o IF valid THEN <<>>
       ELSE aicwf_plat_calib_load_8800dc
            \o <<S("start", "calib", "err_lmac_reqs"), Read("misc_ram_addr", "err_lmac_reqs"),
                 Read("bit_mask", "err_lmac_reqs"), Read("dpd_high", "err_lmac_reqs"), Read("loft_res", "err_lmac_reqs")>>
aicwf_dpd_result_load_8800dc == <<File("dpd_result", "err_lmac_reqs")>>
aicwf_dpd_result_apply_8800dc(set) ==
    IF ~set THEN <<>>
    ELSE <<Read("misc_ram_addr", "err_lmac_reqs"), Cmd("bit_mask", "err_lmac_reqs"),
           Cmd("dpd_high", "err_lmac_reqs"), Cmd("loft_res", "err_lmac_reqs")>>
aicwf_dpd_result_write_8800dc == <<S("write", "dpd_result", "err_lmac_reqs")>>
\* Calibration ends the probe as a failed one, whatever its outcome.
CalibOnly(valid) ==
    (IF dpd_file THEN <<>>
     ELSE aicwf_plat_patch_load_8800dc \o aicwf_dpd_calib_8800dc(valid) \o aicwf_dpd_result_write_8800dc)
    \o <<S("fail", "calibrated", "err_lmac_reqs")>>

rwnx_plat_patch_load(magic, valid, set) ==
    CASE mode = "normal" ->
           aicwf_plat_patch_load_8800dc \o aicwf_patch_config_8800dc(magic)
           \o (CASE chip_sub_id = 0 -> <<>>
                 [] chip_sub_id # 0 /\ dpd_file -> aicwf_dpd_result_load_8800dc \o aicwf_dpd_result_apply_8800dc(set)
                 [] OTHER -> aicwf_misc_ram_init_8800dc)
      [] mode = "rftest" -> aicwf_plat_rftest_load_8800dc
      [] OTHER -> IF chip_sub_id = 0 THEN <<>> ELSE CalibOnly(valid)
rwnx_platform_on == <<Call("patch", "next")>> \o rwnx_plat_userconfig_load("userconfig_dc")

rwnx_ic_system_init ==
    CASE product = "8801" -> system_config_8800
      [] product = "DC" -> <<Call("usb_config", "next")>> \o system_config_8800dc \o rwnx_platform_on
                           \o <<Call("wdt", "next")>> \o start_from_bootrom
      [] product = "D81" -> rwnx_plat_userconfig_load("userconfig_d80")
      [] OTHER -> rwnx_plat_userconfig_load("userconfig_d80x2")

-----------------------------------------------------------------------------
\* Radio configuration.

GainTables == <<Cmd("txgain_24g", "err_lmac_reqs"), Cmd("txgain_24g_1", "err_lmac_reqs"),
                Cmd("rxgain_24g_20m", "err_lmac_reqs"), Cmd("rxgain_24g_40m", "err_lmac_reqs")>>
rwnx_send_rf_calib_req == <<Cmd("rf_calib", "err_lmac_reqs")>>
aicwf_set_rf_config_8800dc(set) ==
    <<Cmd("txpwr_lvl", "err_lmac_reqs"), Cmd("txpwr_ofst", "err_lmac_reqs")>>
    \o CASE mode = "normal" -> GainTables \o rwnx_send_rf_calib_req
         [] mode = "rftest" /\ chip_sub_id >= 1 ->
              (IF dpd_file THEN aicwf_dpd_result_load_8800dc ELSE <<>>)
              \o aicwf_dpd_result_apply_8800dc(set) \o rwnx_send_rf_calib_req
         [] OTHER -> <<>>
aicwf_set_rf_config_8800d80 ==
    <<Cmd("txpwr_lvl_v3", "err_lmac_reqs"), Cmd("txpwr_lvl_adj", "err_lmac_reqs"), Cmd("txpwr_ofst2x", "err_lmac_reqs")>>
    \o rwnx_send_rf_calib_req
aicwf_set_rf_config_8800d80x2 ==
    <<Cmd("txpwr_lvl_v4", "err_lmac_reqs"), Cmd("txpwr_lvl_adj", "err_lmac_reqs"), Cmd("txpwr_ofst2x_v2", "err_lmac_reqs")>>
    \o rwnx_send_rf_calib_req
rwnx_ic_rf_init(set) ==
    CASE product = "8801" -> <<Cmd("txpwr_idx", "err_lmac_reqs"), Cmd("txpwr_ofst", "err_lmac_reqs")>>
                             \o (IF mode = "normal" THEN rwnx_send_rf_calib_req ELSE <<>>)
      [] product = "DC" -> aicwf_set_rf_config_8800dc(set)
      [] product = "D81" -> aicwf_set_rf_config_8800d80
      [] OTHER -> aicwf_set_rf_config_8800d80x2

-----------------------------------------------------------------------------
\* rwnx_cfg80211_init and the probe around it.

rwnx_init_aic == <<S("init", "mgr", "next")>>
Configures == product = "8801" \/ mode = "normal"
AllocWiphy ==
    <<Take("wiphy", "out_free_bus"), S("init", "wakeup_lock", "next")>> \o rwnx_init_aic
    \o <<Take("cache", "err_cache"), Take("wq", "noqueue")>>
Identify ==
    <<Cmd("stack_start", "err_lmac_reqs"), Cmd("fw_version", "err_lmac_reqs"), Call("rf", "next"),
      Cmd("macaddr", "err_lmac_reqs"), Cmd("reset", "err_lmac_reqs"), Cmd("version", "err_lmac_reqs"),
      File("dynparams", "err_lmac_reqs")>>
Register ==
    (IF Configures THEN <<Cmd("me_config", "next")>> ELSE <<>>)
    \o <<Take("registered", "err_lmac_reqs")>>
    \o (IF Configures THEN <<Cmd("me_chan_config", "next")>> ELSE <<>>)
    \o <<Take("netdev", "err_add_interface")>>
rwnx_cfg80211_init == AllocWiphy \o rwnx_ic_system_init \o Identify \o Register

aicwf_usb_init == <<Take("rx_urbs", "out_free_usb"), Take("tx_urbs", "out_free_usb"),
                    Take("msg_rx_urbs", "out_free_usb"), Take("msg_out_urb", "out_free_usb")>>
aicwf_bus_init == <<Take("cmd_buf", "twice"), Take("busrx_thread", "thread"), Take("bustx_thread", "thread"),
                    Take("msg_busrx_thread", "thread")>>
rwnx_platform_init == <<Take("plat", "out_free_bus"), S("plat", "init", "next")>> \o rwnx_cfg80211_init
aicwf_usb_probe ==
    <<Take("usb_dev", "end"), Take("bufs", "out_free"), File("descriptors", "out_free")>>
    \o aicwf_usb_init
    \o <<Take("bus_if", "out_free_usb"), Take("rx_priv", "out_free_bus")>>
    \o aicwf_bus_init
    \o rwnx_platform_init
    \o <<S("ready", "hostif", "next")>>

Urbs == {"rx_urbs", "tx_urbs", "msg_rx_urbs", "msg_out_urb"}
OfBus == {"cmd_buf", "busrx_thread", "bustx_thread", "msg_busrx_thread", "rx_priv", "mgr"}
OfWiphy == {"wiphy", "wakeup_lock", "cache", "wq", "registered", "netdev"}
Complete == Urbs \cup OfBus \cup OfWiphy \cup {"usb_dev", "bufs", "bus_if", "plat"}

\* What each label undoes; the labels fall through.
Undo(sets) == [i \in DOMAIN sets |-> S("undo", sets[i], "next")]
End == <<S("end", "failed", "next")>>
out_free == Undo(<<{"bufs", "usb_dev"}>>) \o End
\* Mutant of out_free_usb: the URB of outgoing messages is forgotten.
KeepOutUrb == Undo(<<Urbs \ {"msg_out_urb"}>>) \o out_free
out_free_usb == Undo(<<Urbs>>) \o out_free
out_free_bus == <<S("bus_deinit", "bus", "next")>> \o Undo(<<{"bus_if"}>>) \o out_free_usb
err_cache == Undo(<<{"wakeup_lock"}, {"wiphy"}>>) \o out_free_bus
err_lmac_reqs == Undo(<<{"wq"}>>) \o <<S("plat", "off", "next")>> \o Undo(<<{"cache"}>>) \o err_cache
err_add_interface == Undo(<<{"registered"}>>) \o err_lmac_reqs

Label(l) ==
    CASE l = "end" -> End
      [] l = "out_free" -> out_free
      [] l = "out_free_usb" -> out_free_usb
      [] l = "out_free_bus" -> out_free_bus
      [] l = "err_cache" -> err_cache
      [] l = "err_lmac_reqs" -> err_lmac_reqs
      [] l = "err_add_interface" -> err_add_interface
Labels == {"end", "out_free", "out_free_usb", "out_free_bus", "err_cache", "err_lmac_reqs", "err_add_interface"}
Fatal == {"twice", "thread", "noqueue"}

-----------------------------------------------------------------------------
BringInit ==
    /\ product \in Products /\ mode \in TestModes /\ dpd_file \in BOOLEAN
    /\ (product # "DC" => ~dpd_file /\ mode # "dpdcalib")
    /\ \E r \in IF product = "DC" THEN 0 .. 2 ELSE {0} :
          revision = [d \in Devs |-> IF product = "DC" THEN (r + d) % 3 ELSE 0]     \* unequal devices
    /\ bound_devs = {} /\ probing = NULL /\ todo = <<>> /\ taken = [d \in Devs |-> {}]
    /\ plat_of = NULL /\ plat_on = {} /\ chip_sub_id = 0 /\ chip_mcu = FALSE /\ mgr_dead = FALSE
    /\ missed = {} /\ started_fw = FALSE /\ bring_upset = {} /\ lost_cmd = FALSE

Now == Head(todo)
Doing(do) == probing # NULL /\ todo # <<>> /\ Now.do = do
Go == todo' = Tail(todo)
Hold(s) == taken' = [taken EXCEPT ![probing] = s]

\* After a failure: the rest is skipped up to the end of the function, or the
\* label's code replaces it.
AfterRet(name) ==
    LET k == CHOOSE i \in DOMAIN todo : todo[i].do = "ret" /\ todo[i].what = name
                        /\ \A j \in 1 .. i - 1 : ~(todo[j].do = "ret" /\ todo[j].what = name)
    IN SubSeq(todo, k, Len(todo))
Fails ==
    IF Now.fail \in Fatal THEN bring_upset' = {Now.fail} /\ UNCHANGED todo
    ELSE /\ UNCHANGED bring_upset
         /\ todo' = CASE Now.fail = "next" -> Tail(todo)
                      [] Now.fail \in Labels -> Label(Now.fail)
                      [] OTHER -> AfterRet(Now.fail)

\* A device is found; probes and disconnects are serialised by the USB core.
Probe(d) ==
    /\ probing = NULL /\ d \notin bound_devs
    /\ probing' = d /\ todo' = aicwf_usb_probe
    /\ mgr_dead' = FALSE /\ missed' = {} /\ started_fw' = FALSE /\ lost_cmd' = FALSE
    /\ UNCHANGED <<product, mode, dpd_file, revision, bound_devs, taken, plat_of, plat_on, chip_sub_id, chip_mcu, bring_upset>>

TakeStep ==
    /\ Doing("take")
    /\ \/ Go /\ Hold(taken[probing] \cup {Now.what}) /\ UNCHANGED bring_upset
       \/ Fails /\ UNCHANGED taken
    /\ UNCHANGED <<product, mode, dpd_file, revision, bound_devs, probing, plat_of, plat_on, chip_sub_id, chip_mcu, mgr_dead, missed, started_fw, lost_cmd>>
InitStep ==
    /\ Doing("init") /\ Go /\ Hold(taken[probing] \cup {Now.what})
    /\ UNCHANGED <<product, mode, dpd_file, revision, bound_devs, probing, plat_of, plat_on, chip_sub_id, chip_mcu, mgr_dead, missed, started_fw, bring_upset, lost_cmd>>
FileStep ==
    /\ Doing("file")
    /\ \/ Go /\ UNCHANGED <<missed, bring_upset>>
       \/ Fails /\ UNCHANGED missed
    /\ UNCHANGED <<product, mode, dpd_file, revision, bound_devs, probing, taken, plat_of, plat_on, chip_sub_id, chip_mcu, mgr_dead, started_fw, lost_cmd>>

\* rwnx_send_msg: an unanswered command ends the manager; without memory the
\* command fails alone.  A fatal signal ends the wait like an answer, and what was
\* to be read is what the stack holds.
CrashesOnTimeout == mgr_dead' = TRUE
Misses == missed' = IF lost_cmd THEN missed ELSE missed \cup {IF Now.what \in Last THEN Now.what ELSE "config"}
Loses == lost_cmd' = TRUE /\ missed' = {} /\ UNCHANGED mgr_dead
Answered == ~mgr_dead /\ Go /\ UNCHANGED <<mgr_dead, missed, bring_upset, lost_cmd>>
Killed == ~mgr_dead /\ Go /\ Loses /\ UNCHANGED bring_upset
NoMemory == ~mgr_dead /\ Fails /\ Loses
CmdFails ==
    \/ ~mgr_dead /\ CrashesOnTimeout /\ Fails /\ Misses /\ UNCHANGED lost_cmd
    \/ mgr_dead /\ Fails /\ Misses /\ UNCHANGED <<mgr_dead, lost_cmd>>
    \/ NoMemory
cmd_mgr_queue == Answered \/ Killed \/ CmdFails
CmdStep ==
    /\ Doing("cmd") /\ cmd_mgr_queue
    /\ UNCHANGED <<product, mode, dpd_file, revision, bound_devs, probing, taken, plat_of, plat_on, chip_sub_id, chip_mcu, started_fw>>
\* A read that succeeds gives what the device has; chip_mcu_id is set and never reset.
ReadsMcu == chip_mcu' \in IF Now.what = "chip_id" THEN {chip_mcu, TRUE} ELSE {chip_mcu}
ReadStep ==
    /\ Doing("read")
    /\ \/ Answered /\ ReadsMcu /\ chip_sub_id' = IF Now.what = "chip_sub_id" THEN revision[probing] ELSE chip_sub_id
       \/ Killed /\ ReadsMcu /\ chip_sub_id' \in IF Now.what = "chip_sub_id" THEN 0 .. 3 ELSE {chip_sub_id}
       \/ CmdFails /\ UNCHANGED <<chip_sub_id, chip_mcu>>
    /\ UNCHANGED <<product, mode, dpd_file, revision, bound_devs, probing, taken, plat_of, plat_on, started_fw>>
StartStep ==
    /\ Doing("start") /\ cmd_mgr_queue
    /\ started_fw' = (started_fw \/ (Now.what = "app" /\ todo' = Tail(todo)))
    /\ UNCHANGED <<product, mode, dpd_file, revision, bound_devs, probing, taken, plat_of, plat_on, chip_sub_id, chip_mcu>>
WriteStep ==
    /\ Doing("write")
    /\ \/ Go /\ dpd_file' = TRUE /\ UNCHANGED bring_upset
       \/ Fails /\ UNCHANGED dpd_file
    /\ UNCHANGED <<product, mode, revision, bound_devs, probing, taken, plat_of, plat_on, chip_sub_id, chip_mcu, mgr_dead, missed, started_fw, lost_cmd>>
FailStep ==
    /\ Doing("fail") /\ Fails
    /\ UNCHANGED <<product, mode, dpd_file, revision, bound_devs, probing, taken, plat_of, plat_on, chip_sub_id, chip_mcu, mgr_dead, missed, started_fw, lost_cmd>>
RetStep ==
    /\ Doing("ret") /\ Go
    /\ UNCHANGED <<product, mode, dpd_file, revision, bound_devs, probing, taken, plat_of, plat_on, chip_sub_id, chip_mcu, mgr_dead, missed, started_fw, bring_upset, lost_cmd>>

Body(name) ==
    CASE name = "cache" -> {IF chip_mcu THEN CacheOn ELSE <<>>}
      [] name = "bbpll" -> {set_bbpll_config(c, s) : c, s \in BOOLEAN}
      [] name = "u01" -> {IF chip_sub_id = 0 THEN syscfg_tbl_masked_8800dc_u01 ELSE <<>>}
      [] name = "u04" -> {<<>>, syscfg_tbl_u04}
      [] name = "usb_config" -> {aicwf_usb_config(o) : o \in BOOLEAN}
      [] name = "patch" -> {rwnx_plat_patch_load(m, v, s) : m, v, s \in BOOLEAN}
      [] name = "wdt" -> {IF chip_sub_id < 2 THEN wdt_config ELSE <<>>}
      [] name = "rf" -> {rwnx_ic_rf_init(s) : s \in BOOLEAN}
CallStep ==
    /\ Doing("call")
    /\ \E b \in Body(Now.what) : todo' = b \o Tail(todo)
    /\ UNCHANGED <<product, mode, dpd_file, revision, bound_devs, probing, taken, plat_of, plat_on, chip_sub_id, chip_mcu, mgr_dead, missed, started_fw, bring_upset, lost_cmd>>

\* rwnx_platform_init publishes the new rwnx_plat; rwnx_platform_off disables it.
PlatStep ==
    /\ Doing("plat") /\ Go
    /\ plat_of' = IF Now.what = "init" THEN probing ELSE plat_of
    /\ plat_on' = plat_on \ {probing}
    /\ UNCHANGED <<product, mode, dpd_file, revision, bound_devs, probing, taken, chip_sub_id, chip_mcu, mgr_dead, missed, started_fw, bring_upset, lost_cmd>>
UndoStep ==
    /\ Doing("undo") /\ Go /\ Hold(taken[probing] \ Now.what)
    /\ UNCHANGED <<product, mode, dpd_file, revision, bound_devs, probing, plat_of, plat_on, chip_sub_id, chip_mcu, mgr_dead, missed, started_fw, bring_upset, lost_cmd>>

\* aicwf_bus_deinit: the global rwnx_plat decides whether the wiphy is torn down.
rwnx_cfg80211_deinit(s) == s \ OfWiphy
aicwf_bus_deinit(s) == (IF plat_of # NULL /\ plat_of \in plat_on THEN rwnx_cfg80211_deinit(s) ELSE s) \ OfBus
BusDeinitStep ==
    /\ Doing("bus_deinit")
    /\ IF plat_of # NULL /\ plat_of \in plat_on
       THEN bring_upset' = {"foreign"} /\ UNCHANGED <<todo, taken>>
       ELSE Go /\ Hold(aicwf_bus_deinit(taken[probing])) /\ UNCHANGED bring_upset
    /\ UNCHANGED <<product, mode, dpd_file, revision, bound_devs, probing, plat_of, plat_on, chip_sub_id, chip_mcu, mgr_dead, missed, started_fw, lost_cmd>>
EndStep ==
    /\ Doing("end") /\ probing' = NULL /\ todo' = <<>>
    /\ UNCHANGED <<product, mode, dpd_file, revision, bound_devs, taken, plat_of, plat_on, chip_sub_id, chip_mcu, mgr_dead, missed, started_fw, bring_upset, lost_cmd>>
aicwf_hostif_ready ==
    /\ Doing("ready") /\ plat_on' = plat_on \cup {plat_of}
    /\ bound_devs' = bound_devs \cup {probing} /\ probing' = NULL /\ todo' = <<>>
    /\ UNCHANGED <<product, mode, dpd_file, revision, taken, plat_of, chip_sub_id, chip_mcu, mgr_dead, missed, started_fw, bring_upset, lost_cmd>>

\* aicwf_usb_disconnect; rwnx_platform_off disables the rwnx_plat of the wiphy.
Disconnect(d) ==
    /\ probing = NULL /\ d \in bound_devs
    /\ bound_devs' = bound_devs \ {d}
    /\ taken' = [taken EXCEPT ![d] = aicwf_bus_deinit(@) \ (Urbs \cup {"bus_if", "bufs", "usb_dev"})]
    /\ IF plat_of \in plat_on THEN plat_on' = plat_on \ {d} /\ UNCHANGED bring_upset
       ELSE bring_upset' = {"orphan"} /\ UNCHANGED plat_on
    /\ UNCHANGED <<product, mode, dpd_file, revision, probing, todo, plat_of, chip_sub_id, chip_mcu, mgr_dead, missed, started_fw, lost_cmd>>

BringNext ==
    /\ bring_upset = {}
    /\ \/ \E d \in Devs : Probe(d) \/ Disconnect(d)
       \/ TakeStep \/ InitStep \/ FileStep \/ CmdStep \/ ReadStep \/ StartStep \/ WriteStep \/ FailStep \/ RetStep
       \/ CallStep \/ PlatStep \/ UndoStep \/ BusDeinitStep \/ EndStep \/ aicwf_hostif_ready

BringSpec == BringInit /\ [][BringNext]_bringVars

-----------------------------------------------------------------------------
\* Every exit of the probe undoes what came before it: a device in use holds
\* everything, a device without a driver only its rwnx_plat, which is freed when
\* the module goes.
ProbeUndone ==
    bring_upset = {} => \A d \in Devs \ {probing} :
        IF d \in bound_devs THEN taken[d] = Complete ELSE taken[d] \subseteq {"plat"}

\* A device in use has been configured for its own revision with every command
\* of the system configuration although the functions that send them return
\* nothing: the one not answered makes a later, checked command fail.  Only the last,
\* unchecked ones may be missing (rwnx_send_me_config_req, rwnx_send_me_chan_config_req).
\* A command that a signal or the lack of memory took away (lost_cmd) makes none fail.
InUseConfigured ==
    (~lost_cmd /\ bring_upset = {} /\ probing # NULL /\ Doing("ready")) =>
        /\ missed \subseteq Last
        /\ product = "DC" => chip_sub_id = revision[probing] /\ started_fw

\* Both, of every probe and removal (aicwf_usb_probe, aicwf_usb_disconnect).
BringupSound == ProbeUndone /\ InUseConfigured
=============================================================================
