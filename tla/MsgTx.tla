------------------------------- MODULE MsgTx -------------------------------
(***************************************************************************
 The message builders (rwnx_msg_tx.c): one rwnx_send_xxx function for each
 request to the firmware.  A builder allocates a buffer, fills it, and hands it
 to rwnx_send_msg with the identifier of the confirmation to wait for and a
 place for its content; rwnx_send_msg frees the buffer, or leaves it to the
 command manager, or leaves it to nobody, depending on how the send ends.

 A builder is the sequence of allocations, sends and frees it makes; the content of a request is left out except
 for what selects its layout.  Eight things make a call lose or misuse a buffer or its answer:
   "early"        a return between the allocation and the send,
   "refused"      the command manager does not take the request,
   "unconfirmed"  a request without confirmation is never freed,
   "retried"      a scan frees its request after the send that timed out,
   "falls"        the vendor request for the chip temperature goes on into the
                  next case,
   "down"         a send on a bus that is down returns 0 without an answer,
   "killed"       a wait that a fatal signal or the drain of the command manager ends
                  is taken for a confirmed one and returns 0 without an answer,
   "drained"      the drain drops requests that nobody has pushed, and frees none.
 The queue behind rwnx_send_msg is module CmdMgr.
 ***************************************************************************)
EXTENDS MsgIds, FiniteSets, Null

VARIABLES chip,         \* the product of the device
          bus_up,       \* usbdev->state is not USB_DOWN_ST
          crashed,      \* the state of the command manager
          script,       \* what the running builder has still to do, or NULL
          buf,          \* buffer of the call -> who owns it
          deferred,     \* sends the worker of the command manager has still to push
          owed,         \* confirmations the call has asked for and does not have yet
          answer,       \* the last confirmation of the firmware with the send it is for, or NULL
          mishap        \* which of the eight have happened in this call

msgVars == <<chip, bus_up, crashed, script, buf, deferred, owed, answer, mishap>>

X2 == {"D81X2", "D89X2"}
DC == {"DC", "DW"}
Chips == {"8801", "D81"} \cup DC \cup X2
Bufs == 1 .. 3

-----------------------------------------------------------------------------
\* What builders are made of: fail is what the builder goes on with after a
\* failure of the step (it returns, unless more is said).

Step(do, b, id, cfm, out, sub, fail) ==
    [do |-> do, b |-> b, id |-> id, cfm |-> cfm, out |-> out, sub |-> sub, fail |-> fail]
AllocOr(b, fail) == Step("alloc", b, NULL, NULL, NULL, NULL, fail)
Alloc(b) == AllocOr(b, <<>>)
Free(b) == Step("free", b, NULL, NULL, NULL, NULL, <<>>)
Early(b) == Step("early", b, NULL, NULL, NULL, NULL, <<>>)
\* rwnx_send_msg; out names the layout the caller expects the confirmation to have.
SendOr(b, id, cfm, out, fail) == Step("send", b, id, cfm, out, NULL, fail)
Send(b, id, cfm, out) == SendOr(b, id, cfm, out, <<>>)

\* The usual builder: the request, its confirmation and where that is copied to.
Asks(id, cfm, out) == <<Alloc(1), Send(1, id, cfm, out)>>
Tells(id) == Asks(id, NULL, NULL)               \* no confirmation
Gives(id) == <<Alloc(1), Free(1)>>              \* built, but switched off
Quits(id) == <<Alloc(1), Early(1)>>             \* returns with the buffer in hand
Nothing == <<>>
\* Settings that the user's configuration may switch off.
IfEnabled(id, cfm) == {Gives(id), Asks(id, cfm, NULL)}

-----------------------------------------------------------------------------
\* Requests to the MAC management task.

rwnx_send_reset == Asks("MM_RESET_REQ", "MM_RESET_CFM", NULL)
rwnx_send_start == Asks("MM_START_REQ", "MM_START_CFM", NULL)
rwnx_send_version_req == Asks("MM_VERSION_REQ", "MM_VERSION_CFM", "MM_VERSION_CFM")

\* The role of the new interface in the firmware; P2P roles set the p2p flag as well.
IfRole(iftype) ==
    CASE iftype \in {"AP", "P2P_GO"} -> "MM_AP"
      [] iftype = "ADHOC" -> "MM_IBSS"
      [] iftype = "MESH_POINT" -> "MM_MESH_POINT"
      [] iftype = "MONITOR" -> "MM_MONITOR"
      [] OTHER -> "MM_STA"

rwnx_send_add_if(iftype) ==
    IF iftype = "AP_VLAN" THEN Quits("MM_ADD_IF_REQ")
    ELSE <<Alloc(1), Step("send", 1, "MM_ADD_IF_REQ", "MM_ADD_IF_CFM", "MM_ADD_IF_CFM",
                          IfRole(iftype), <<>>)>>

\* Sent by rwnx_send_msg1: the caller may ask for it to be deferred, and is told
\* 0 whatever became of the request.
rwnx_send_remove_if(defer) ==
    <<Alloc(1), Step(IF defer THEN "defer" ELSE "send", 1, "MM_REMOVE_IF_REQ", "MM_REMOVE_IF_CFM", NULL, NULL, <<>>)>>

rwnx_send_set_channel(phy_idx) ==
    IF phy_idx = 0 THEN Quits("MM_SET_CHANNEL_REQ")
    ELSE Asks("MM_SET_CHANNEL_REQ", "MM_SET_CHANNEL_CFM", "MM_SET_CHANNEL_CFM")
rwnx_send_key_add == Asks("MM_KEY_ADD_REQ", "MM_KEY_ADD_CFM", "MM_KEY_ADD_CFM")
rwnx_send_key_del == Asks("MM_KEY_DEL_REQ", "MM_KEY_DEL_CFM", NULL)
rwnx_send_bcn_change == Asks("MM_BCN_CHANGE_REQ", "MM_BCN_CHANGE_CFM", NULL)
rwnx_send_roc == Asks("MM_REMAIN_ON_CHANNEL_REQ", "MM_REMAIN_ON_CHANNEL_CFM", "MM_REMAIN_ON_CHANNEL_CFM")
rwnx_send_cancel_roc == Asks("MM_REMAIN_ON_CHANNEL_REQ", "MM_REMAIN_ON_CHANNEL_CFM", NULL)
rwnx_send_set_power == Asks("MM_SET_POWER_REQ", "MM_SET_POWER_CFM", "MM_SET_POWER_CFM")
rwnx_send_set_edca == Asks("MM_SET_EDCA_REQ", "MM_SET_EDCA_CFM", NULL)
rwnx_send_p2p_oppps_req == Asks("MM_SET_P2P_OPPPS_REQ", "MM_SET_P2P_OPPPS_CFM", "MM_SET_P2P_OPPPS_CFM")
\* The absence must be shorter than its interval.
rwnx_send_p2p_noa_req(valid) ==
    IF ~valid THEN Nothing ELSE Asks("MM_SET_P2P_NOA_REQ", "MM_SET_P2P_NOA_CFM", "MM_SET_P2P_NOA_CFM")
rwnx_send_arpoffload_en_req == Asks("MM_SET_ARPOFFLOAD_REQ", "MM_SET_ARPOFFLOAD_CFM", NULL)
rwnx_send_disable_agg_req == Asks("MM_SET_AGG_DISABLE_REQ", "MM_SET_AGG_DISABLE_CFM", NULL)
rwnx_send_coex_req == Asks("MM_SET_COEX_REQ", "MM_SET_COEX_CFM", NULL)
rwnx_send_rf_config_req == Asks("MM_SET_RF_CONFIG_REQ", "MM_SET_RF_CONFIG_CFM", NULL)

\* The X2 products have a request and a confirmation of their own layout, from
\* which the caller's confirmation is filled afterwards.
SameForAll == Asks("MM_SET_RF_CALIB_REQ", "MM_SET_RF_CALIB_CFM", "mm_set_rf_calib_cfm")
rwnx_send_rf_calib_req ==
    Asks("MM_SET_RF_CALIB_REQ", "MM_SET_RF_CALIB_CFM",
         IF chip \in X2 THEN "mm_set_rf_calib_cfm_v2" ELSE "mm_set_rf_calib_cfm")

rwnx_send_get_macaddr_req == Asks("MM_GET_MAC_ADDR_REQ", "MM_GET_MAC_ADDR_CFM", "MM_GET_MAC_ADDR_CFM")
rwnx_send_get_sta_info_req == Asks("MM_GET_STA_INFO_REQ", "MM_GET_STA_INFO_CFM", "MM_GET_STA_INFO_CFM")
rwnx_send_set_stack_start_req ==
    Asks("MM_SET_STACK_START_REQ", "MM_SET_STACK_START_CFM", "MM_SET_STACK_START_CFM")
rwnx_send_set_temp_comp_req ==
    Asks("MM_SET_VENDOR_SWCONFIG_REQ", "MM_SET_VENDOR_SWCONFIG_CFM", "MM_SET_VENDOR_SWCONFIG_CFM")
rwnx_send_mask_set_ext_flags_req ==
    Asks("MM_SET_VENDOR_SWCONFIG_REQ", "MM_SET_VENDOR_SWCONFIG_CFM", "MM_SET_VENDOR_SWCONFIG_CFM")
rwnx_send_get_fw_version_req == Asks("MM_GET_FW_VERSION_REQ", "MM_GET_FW_VERSION_CFM", "MM_GET_FW_VERSION_CFM")
rwnx_send_txpwr_idx_req == Asks("MM_SET_TXPWR_IDX_LVL_REQ", "MM_SET_TXPWR_IDX_LVL_CFM", NULL)
rwnx_send_txpwr_lvl_req == IfEnabled("MM_SET_TXPWR_IDX_LVL_REQ", "MM_SET_TXPWR_IDX_LVL_CFM")
rwnx_send_txpwr_lvl_v3_req == IfEnabled("MM_SET_TXPWR_IDX_LVL_REQ", "MM_SET_TXPWR_IDX_LVL_CFM")
rwnx_send_txpwr_lvl_v4_req == IfEnabled("MM_SET_TXPWR_IDX_LVL_REQ", "MM_SET_TXPWR_IDX_LVL_CFM")
rwnx_send_txpwr_lvl_adj_req == IfEnabled("MM_SET_TXPWR_LVL_ADJ_REQ", "MM_SET_TXPWR_LVL_ADJ_CFM")
\* Only some products read this setting; the others leave it disabled.
rwnx_send_txpwr_ofst_req ==
    IF chip \in DC \cup {"8801"} THEN IfEnabled("MM_SET_TXPWR_OFST_REQ", "MM_SET_TXPWR_OFST_CFM")
    ELSE {Gives("MM_SET_TXPWR_OFST_REQ")}
rwnx_send_txpwr_ofst2x_req ==
    IF chip \in X2 \cup {"D81"} THEN IfEnabled("MM_SET_TXPWR_OFST_REQ", "MM_SET_TXPWR_OFST_CFM")
    ELSE {Gives("MM_SET_TXPWR_OFST_REQ")}
rwnx_send_txpwr_ofst2x_v2_req == IfEnabled("MM_SET_TXPWR_OFST_REQ", "MM_SET_TXPWR_OFST_CFM")
rwnx_send_set_filter == Asks("MM_SET_FILTER_REQ", "MM_SET_FILTER_CFM", NULL)
\* The interface may have gone; the buffer is allocated before that is tested.
rwnx_send_cfg_rssi_req(known) ==
    IF known THEN Asks("MM_CFG_RSSI_REQ", "MM_CFG_RSSI_CFM", NULL) ELSE Quits("MM_CFG_RSSI_REQ")

\* Vendor settings: the first word of the request selects its layout.
HwConfig(tag, layout, out) ==
    <<Alloc(1), Step("send", 1, "MM_SET_VENDOR_HWCONFIG_REQ", "MM_SET_VENDOR_HWCONFIG_CFM", out,
                     <<tag, layout>>, <<>>)>>

vendor_hwconfig_tag == {"ACS_TXOP", "CHANNEL_ACCESS", "MAC_TIMESCALE", "CCA_THRESHOLD", "BWMODE",
                        "CHIP_TEMP_GET", "AP_PS_LEVEL_SET", "CUSTOMIZED_FREQ", "WAKEUP_INFO", "KEEPALIVE_PKT"}

rwnx_send_vendor_hwconfig_req(tag) ==
    CASE tag \in {"AP_PS_LEVEL_SET", "WAKEUP_INFO", "KEEPALIVE_PKT"} -> Nothing
      [] tag = "CHIP_TEMP_GET" ->    \* no break: the next case follows
           (IF chip \in DC THEN HwConfig(tag, tag, "MM_SET_VENDOR_HWCONFIG_CFM") ELSE <<>>)
           \o <<Step("falls", 1, NULL, NULL, NULL, NULL, <<>>)>>
           \o HwConfig(tag, "CUSTOMIZED_FREQ", NULL)
      [] OTHER -> HwConfig(tag, tag, NULL)

vendor_hwconfig_tag_x2 == {"ACS_TXOP", "CHANNEL_ACCESS", "MAC_TIMESCALE", "CCA_THRESHOLD", "BWMODE",
    "CHIP_TEMP_GET", "STBC_MCS_SET", "MAX_AGG_TX_CNT", "MAX_BW_MCS_THRESH_SET", "DCM_FORCE_EN",
    "AUTO_CCA_EN", "NSS_1T2R", "ON_AIR_DUTY_CYCLE"}

\* Four settings are tested and silently not sent when out of range.
rwnx_send_vendor_hwconfig_req_x2(tag, inRange) ==
    IF ~inRange /\ tag \in {"MAX_AGG_TX_CNT", "MAX_BW_MCS_THRESH_SET", "AUTO_CCA_EN", "ON_AIR_DUTY_CYCLE"}
    THEN Nothing
    ELSE HwConfig(tag, tag, IF tag = "CHIP_TEMP_GET" THEN "MM_SET_VENDOR_HWCONFIG_CFM" ELSE NULL)

vendor_swconfig_tag == {"BCN_CFG", "TEMP_COMP_SET", "TEMP_COMP_GET", "EXT_FLAGS_SET", "EXT_FLAGS_GET",
                        "EXT_FLAGS_MASK_SET"}
SwConfig ==
    Asks("MM_SET_VENDOR_SWCONFIG_REQ", "MM_SET_VENDOR_SWCONFIG_CFM", "MM_SET_VENDOR_SWCONFIG_CFM")
\* An unknown tag returns with the buffer in hand.
rwnx_send_vendor_swconfig_req(tag) ==
    IF tag \in vendor_swconfig_tag THEN SwConfig ELSE Quits("MM_SET_VENDOR_SWCONFIG_REQ")
rwnx_send_vendor_swconfig_req_x2(tag) ==
    IF tag \in vendor_swconfig_tag \cup {"TWO_ANT_RSSI_GET"} THEN SwConfig
    ELSE Quits("MM_SET_VENDOR_SWCONFIG_REQ")

-----------------------------------------------------------------------------
\* Requests to the upper tasks.

rwnx_send_me_config_req == Asks("ME_CONFIG_REQ", "ME_CONFIG_CFM", NULL)
rwnx_send_me_chan_config_req == Asks("ME_CHAN_CONFIG_REQ", "ME_CHAN_CONFIG_CFM", NULL)
rwnx_send_me_set_control_port_req == Asks("ME_SET_CONTROL_PORT_REQ", "ME_SET_CONTROL_PORT_CFM", NULL)
rwnx_send_me_sta_add == Asks("ME_STA_ADD_REQ", "ME_STA_ADD_CFM", "ME_STA_ADD_CFM")
rwnx_send_me_sta_del == Asks("ME_STA_DEL_REQ", "ME_STA_DEL_CFM", NULL)
rwnx_send_me_traffic_ind == Asks("ME_TRAFFIC_IND_REQ", "ME_TRAFFIC_IND_CFM", NULL)
rwnx_send_me_rc_stats == Asks("ME_RC_STATS_REQ", "ME_RC_STATS_CFM", "ME_RC_STATS_CFM")
rwnx_send_me_rc_set_rate == Tells("ME_RC_SET_RATE_REQ")
rwnx_send_me_set_ps_mode == Asks("ME_SET_PS_MODE_REQ", "ME_SET_PS_MODE_CFM", NULL)
rwnx_send_me_set_lp_level == Asks("ME_SET_LP_LEVEL_REQ", "ME_SET_LP_LEVEL_CFM", NULL)
rwnx_send_config_monitor_req ==
    Asks("ME_CONFIG_MONITOR_REQ", "ME_CONFIG_MONITOR_CFM", "ME_CONFIG_MONITOR_CFM")

\* Elements that do not fit and unknown kinds of authentication are refused.
rwnx_send_sm_connect_req(valid) ==
    IF valid THEN Asks("SM_CONNECT_REQ", "SM_CONNECT_CFM", "SM_CONNECT_CFM") ELSE Gives("SM_CONNECT_REQ")
rwnx_send_sm_disconnect_req == Asks("SM_DISCONNECT_REQ", "SM_DISCONNECT_CFM", NULL)
rwnx_send_sm_external_auth_required_rsp ==
    Asks("SM_EXTERNAL_AUTH_REQUIRED_RSP", "SM_EXTERNAL_AUTH_REQUIRED_RSP_CFM", NULL)

rwnx_send_bcn == Asks("APM_SET_BEACON_IE_REQ", "APM_SET_BEACON_IE_CFM", NULL)
\* The beacon goes ahead in a request of its own, whose failure is ignored.
rwnx_send_apm_start_req(built) ==
    LET start == Send(1, "APM_START_REQ", "APM_START_CFM", "APM_START_CFM") IN
    IF ~built THEN Gives("APM_START_REQ")
    ELSE <<Alloc(1), AllocOr(2, <<start>>),
           SendOr(2, "APM_SET_BEACON_IE_REQ", "APM_SET_BEACON_IE_CFM", NULL, <<start>>), start>>
rwnx_send_apm_stop_req == Asks("APM_STOP_REQ", "APM_STOP_CFM", NULL)
rwnx_send_apm_start_cac_req == Asks("APM_START_CAC_REQ", "APM_START_CAC_CFM", "APM_START_CAC_CFM")
rwnx_send_apm_stop_cac_req == Asks("APM_STOP_CAC_REQ", "APM_STOP_CAC_CFM", NULL)

\* A scan on the P2P device may first add it to the firmware (p2p); the elements
\* to send (ies) go ahead in a request of their own.  A failure to send either
\* frees the scan request and the one with the elements.
rwnx_send_scanu_req(p2p, added, ies) ==
    LET error == <<Free(1), Free(2)>>
        add == <<AllocOr(3, error), SendOr(3, "MM_ADD_IF_REQ", "MM_ADD_IF_CFM", "MM_ADD_IF_CFM", error)>>
        pre == <<Alloc(2), SendOr(2, "SCANU_VENDOR_IE_REQ", "SCANU_VENDOR_IE_CFM", NULL, error)>>
    IN IF p2p /\ ~added THEN <<Alloc(1)>> \o add \o <<Early(1)>>
       ELSE <<Alloc(1)>> \o (IF p2p THEN add ELSE <<>>) \o (IF ies THEN pre ELSE <<>>)
            \o <<Send(1, "SCANU_START_REQ", "SCANU_START_CFM_ADDTIONAL", NULL)>>
rwnx_send_scanu_cancel_req == Asks("SCANU_CANCEL_REQ", "SCANU_CANCEL_CFM", "SCANU_CANCEL_CFM")

rwnx_send_mesh_start_req == Asks("MESH_START_REQ", "MESH_START_CFM", "MESH_START_CFM")
rwnx_send_mesh_stop_req == Asks("MESH_STOP_REQ", "MESH_STOP_CFM", "MESH_STOP_CFM")
\* Nothing is sent when none of the changed settings is the firmware's business.
rwnx_send_mesh_update_req(relevant) ==
    IF relevant THEN Asks("MESH_UPDATE_REQ", "MESH_UPDATE_CFM", "MESH_UPDATE_CFM") ELSE Nothing
rwnx_send_mesh_peer_info_req == Asks("MESH_PEER_INFO_REQ", "MESH_PEER_INFO_CFM", "MESH_PEER_INFO_CFM")
rwnx_send_mesh_peer_update_ntf == Tells("MESH_PEER_UPDATE_NTF")
rwnx_send_mesh_path_create_req(pending) == IF pending THEN Nothing ELSE Tells("MESH_PATH_CREATE_REQ")
rwnx_send_mesh_path_update_req == Asks("MESH_PATH_UPDATE_REQ", "MESH_PATH_UPDATE_CFM", "MESH_PATH_UPDATE_CFM")
rwnx_send_mesh_proxy_add_req == Tells("MESH_PROXY_ADD_REQ")

rwnx_send_tdls_peer_traffic_ind_req(peer) == IF peer THEN Tells("TDLS_PEER_TRAFFIC_IND_REQ") ELSE Nothing
rwnx_send_tdls_chan_switch_req == Asks("TDLS_CHAN_SWITCH_REQ", "TDLS_CHAN_SWITCH_CFM", "TDLS_CHAN_SWITCH_CFM")
rwnx_send_tdls_cancel_chan_switch_req ==
    Asks("TDLS_CANCEL_CHAN_SWITCH_REQ", "TDLS_CANCEL_CHAN_SWITCH_CFM", "TDLS_CANCEL_CHAN_SWITCH_CFM")

-----------------------------------------------------------------------------
\* Requests to the debug task.

rwnx_send_dbg_trigger_req == Tells("MM_DBG_TRIGGER_REQ")
rwnx_send_dbg_mem_read_req == Asks("DBG_MEM_READ_REQ", "DBG_MEM_READ_CFM", "DBG_MEM_READ_CFM")
rwnx_send_dbg_mem_write_req == Asks("DBG_MEM_WRITE_REQ", "DBG_MEM_WRITE_CFM", NULL)
rwnx_send_dbg_mem_mask_write_req == Asks("DBG_MEM_MASK_WRITE_REQ", "DBG_MEM_MASK_WRITE_CFM", NULL)
\* More than 30 arguments are refused after the buffer has been allocated.
rwnx_send_rftest_req(argc) ==
    IF argc > 30 THEN Quits("DBG_RFTEST_CMD_REQ")
    ELSE Asks("DBG_RFTEST_CMD_REQ", "DBG_RFTEST_CMD_CFM", "DBG_RFTEST_CMD_CFM")
rwnx_send_dbg_set_mod_filter_req == Asks("DBG_SET_MOD_FILTER_REQ", "DBG_SET_MOD_FILTER_CFM", NULL)
rwnx_send_dbg_set_sev_filter_req == Asks("DBG_SET_SEV_FILTER_REQ", "DBG_SET_SEV_FILTER_CFM", NULL)
rwnx_send_dbg_get_sys_stat_req == Asks("DBG_GET_SYS_STAT_REQ", "DBG_GET_SYS_STAT_CFM", "DBG_GET_SYS_STAT_CFM")
rwnx_send_dbg_mem_block_write_req == Asks("DBG_MEM_BLOCK_WRITE_REQ", "DBG_MEM_BLOCK_WRITE_CFM", NULL)
rwnx_send_dbg_mem_block_read_req ==
    Asks("DBG_MEM_BLOCK_READ_REQ", "DBG_MEM_BLOCK_READ_CFM", "DBG_MEM_BLOCK_READ_CFM")
rwnx_send_dbg_start_app_req == Asks("DBG_START_APP_REQ", "DBG_START_APP_CFM", NULL)
rwnx_send_reboot == rwnx_send_dbg_start_app_req
rwnx_send_dbg_gpio_write_req == Asks("DBG_GPIO_WRITE_REQ", "DBG_GPIO_WRITE_CFM", NULL)
rwnx_send_dbg_gpio_read_req == Asks("DBG_GPIO_READ_REQ", "DBG_GPIO_READ_CFM", "DBG_GPIO_READ_CFM")
rwnx_send_dbg_gpio_init_req == Asks("DBG_GPIO_INIT_REQ", "DBG_GPIO_INIT_CFM", NULL)
rwnx_send_pwm_init_req == Asks("DBG_PWM_INIT_REQ", "DBG_PWM_INIT_CFM", NULL)
rwnx_send_pwm_deinit_req == Asks("DBG_PWM_DEINIT_REQ", "DBG_PWM_DEINIT_CFM", NULL)
\* The table has one entry; the writes stop at the first failure.
rwnx_set_pwm_tbl == rwnx_send_dbg_mem_write_req

-----------------------------------------------------------------------------
Builders ==
    {rwnx_send_reset, rwnx_send_start, rwnx_send_version_req,
     rwnx_send_key_add, rwnx_send_key_del, rwnx_send_bcn_change, rwnx_send_roc, rwnx_send_cancel_roc,
     rwnx_send_set_power, rwnx_send_set_edca, rwnx_send_p2p_oppps_req, rwnx_send_arpoffload_en_req,
     rwnx_send_disable_agg_req, rwnx_send_coex_req, rwnx_send_rf_config_req, rwnx_send_rf_calib_req,
     rwnx_send_get_macaddr_req, rwnx_send_get_sta_info_req, rwnx_send_set_stack_start_req,
     rwnx_send_set_temp_comp_req, rwnx_send_mask_set_ext_flags_req, rwnx_send_get_fw_version_req,
     rwnx_send_txpwr_idx_req, rwnx_send_set_filter, rwnx_send_me_config_req, rwnx_send_me_chan_config_req,
     rwnx_send_me_set_control_port_req, rwnx_send_me_sta_add, rwnx_send_me_sta_del,
     rwnx_send_me_traffic_ind, rwnx_send_me_rc_stats, rwnx_send_me_rc_set_rate, rwnx_send_me_set_ps_mode,
     rwnx_send_me_set_lp_level, rwnx_send_config_monitor_req, rwnx_send_sm_disconnect_req,
     rwnx_send_sm_external_auth_required_rsp, rwnx_send_bcn, rwnx_send_apm_stop_req,
     rwnx_send_apm_start_cac_req, rwnx_send_apm_stop_cac_req, rwnx_send_scanu_cancel_req,
     rwnx_send_mesh_start_req, rwnx_send_mesh_stop_req, rwnx_send_mesh_peer_info_req,
     rwnx_send_mesh_peer_update_ntf, rwnx_send_mesh_path_update_req, rwnx_send_mesh_proxy_add_req,
     rwnx_send_tdls_chan_switch_req, rwnx_send_tdls_cancel_chan_switch_req, rwnx_send_dbg_trigger_req,
     rwnx_send_dbg_mem_read_req, rwnx_send_dbg_mem_write_req, rwnx_send_dbg_mem_mask_write_req,
     rwnx_send_dbg_set_mod_filter_req, rwnx_send_dbg_set_sev_filter_req, rwnx_send_dbg_get_sys_stat_req,
     rwnx_send_dbg_mem_block_write_req, rwnx_send_dbg_mem_block_read_req, rwnx_send_dbg_start_app_req,
     rwnx_send_reboot, rwnx_send_dbg_gpio_write_req, rwnx_send_dbg_gpio_read_req,
     rwnx_send_dbg_gpio_init_req, rwnx_send_pwm_init_req, rwnx_send_pwm_deinit_req, rwnx_set_pwm_tbl}
    \cup {rwnx_send_add_if(t) : t \in {"STATION", "P2P_CLIENT", "ADHOC", "AP", "P2P_GO", "AP_VLAN",
                                       "MESH_POINT", "MONITOR"}}
    \cup {rwnx_send_set_channel(i) : i \in 0 .. 1}
    \cup {rwnx_send_rftest_req(n) : n \in 30 .. 31}
    \cup UNION {{rwnx_send_remove_if(b), rwnx_send_p2p_noa_req(b), rwnx_send_cfg_rssi_req(b), rwnx_send_sm_connect_req(b),
                 rwnx_send_apm_start_req(b), rwnx_send_mesh_update_req(b), rwnx_send_mesh_path_create_req(b),
                 rwnx_send_tdls_peer_traffic_ind_req(b)} : b \in BOOLEAN}
    \cup {rwnx_send_scanu_req(p, a, i) : p, a, i \in BOOLEAN}
    \cup {rwnx_send_vendor_hwconfig_req(t) : t \in vendor_hwconfig_tag}
    \cup {rwnx_send_vendor_swconfig_req(t) : t \in vendor_swconfig_tag \cup {NULL}}
    \cup {rwnx_send_vendor_hwconfig_req_x2(t, b) : t \in vendor_hwconfig_tag_x2, b \in BOOLEAN}
    \cup {rwnx_send_vendor_swconfig_req_x2(t) : t \in vendor_swconfig_tag \cup {NULL, "TWO_ANT_RSSI_GET"}}
    \cup rwnx_send_txpwr_lvl_req \cup rwnx_send_txpwr_lvl_v3_req \cup rwnx_send_txpwr_lvl_v4_req
    \cup rwnx_send_txpwr_lvl_adj_req \cup rwnx_send_txpwr_ofst_req \cup rwnx_send_txpwr_ofst2x_req
    \cup rwnx_send_txpwr_ofst2x_v2_req

-----------------------------------------------------------------------------
\* The firmware (external).  It answers a request with the confirmation that
\* follows it in the enumeration; these five do not follow.

Answer(id) ==
    CASE id = "MM_SET_P2P_NOA_REQ" -> "MM_SET_P2P_NOA_CFM"
      [] id = "MM_SET_P2P_OPPPS_REQ" -> "MM_SET_P2P_OPPPS_CFM"
      [] id = "MM_CFG_RSSI_REQ" -> "MM_CFG_RSSI_CFM"
      [] id = "SCANU_START_REQ" -> "SCANU_START_CFM_ADDTIONAL"
      [] id = "SM_EXTERNAL_AUTH_REQUIRED_RSP" -> "SM_EXTERNAL_AUTH_REQUIRED_RSP_CFM"
      [] OTHER -> Tags[TaskOf(id)][MSG_I(id) + 2]

\* The layout of the confirmation.
Layout(id) ==
    IF Answer(id) # "MM_SET_RF_CALIB_CFM" THEN Answer(id)
    ELSE IF chip \in X2 THEN "mm_set_rf_calib_cfm_v2" ELSE "mm_set_rf_calib_cfm"

Answered(s) == answer' = [req |-> s, got |-> Answer(s.id), layout |-> Layout(s.id)]

-----------------------------------------------------------------------------
(* The builders at work, one step of the running call at a time *)

MsgInit ==
    /\ chip \in Chips /\ bus_up = TRUE /\ crashed = FALSE
    /\ script = NULL /\ buf = [b \in Bufs |-> "none"] /\ deferred = {}
    /\ owed = {} /\ answer = NULL /\ mishap = {}

\* A call of the driver begins; the buffers of the call before are forgotten.
Call(s) ==
    /\ script = NULL /\ deferred = {}
    /\ script' = s /\ buf' = [b \in Bufs |-> "none"]
    /\ owed' = {} /\ answer' = NULL /\ mishap' = {}
    /\ UNCHANGED <<chip, bus_up, crashed, deferred>>

Runs(do) == script \notin {NULL, <<>>} /\ Head(script).do = do
Now == Head(script)
Notes(e) == mishap' = mishap \cup {e}

Return ==
    /\ script = <<>> /\ script' = NULL
    /\ UNCHANGED <<chip, bus_up, crashed, buf, deferred, owed, answer, mishap>>

\* A failed allocation abandons what the builder already holds, unless it frees it.
rwnx_msg_zalloc ==
    /\ Runs("alloc")
    /\ \/ buf' = [buf EXCEPT ![Now.b] = "held"] /\ script' = Tail(script) /\ UNCHANGED mishap
       \/ /\ script' = Now.fail /\ UNCHANGED buf
          /\ IF Now.fail = <<>> /\ \E b \in Bufs : buf[b] = "held" THEN Notes("early") ELSE UNCHANGED mishap
    /\ UNCHANGED <<chip, bus_up, crashed, deferred, owed, answer>>

Freed(b) == IF buf[b] = "held" THEN "freed" ELSE IF buf[b] = "none" THEN "none" ELSE "twice"

rwnx_msg_free ==
    /\ Runs("free") /\ script' = Tail(script)
    /\ buf' = [buf EXCEPT ![Now.b] = Freed(Now.b)]
    /\ UNCHANGED <<chip, bus_up, crashed, deferred, owed, answer, mishap>>

ReturnEarly ==
    /\ Runs("early") /\ script' = <<>> /\ Notes("early")
    /\ UNCHANGED <<chip, bus_up, crashed, buf, deferred, owed, answer>>

FallThrough ==
    /\ Runs("falls") /\ script' = Tail(script) /\ Notes("falls")
    /\ UNCHANGED <<chip, bus_up, crashed, buf, deferred, owed, answer>>

Sends == Runs("send") \/ Runs("defer")

\* What a send that returns 0 without a confirmation leaves the builder waiting for in vain.
Owes(s) == IF s.out = NULL THEN {} ELSE {s.out}

\* A bus that is down: the message is freed and the caller told 0.
SendBusDown ==
    /\ Sends /\ ~bus_up /\ script' = Tail(script) /\ Notes("down")
    /\ buf' = [buf EXCEPT ![Now.b] = Freed(Now.b)] /\ owed' = owed \cup Owes(Now)
    /\ UNCHANGED <<chip, bus_up, crashed, deferred, answer>>

\* Without confirmation the message goes to the bus and is not freed.
SendNoCfm ==
    /\ Sends /\ bus_up /\ Now.cfm = NULL
    /\ script' = Tail(script) /\ Notes("unconfirmed")
    /\ UNCHANGED <<chip, bus_up, crashed, buf, deferred, owed, answer>>

Awaits == Sends /\ bus_up /\ Now.cfm # NULL

\* What the builder still frees or sends after the failed send.
AfterFailure(buf1) ==
    IF \E i \in DOMAIN Now.fail : Now.fail[i].do = "free" /\ buf1[Now.fail[i].b] = "freed"
    THEN Notes("retried") ELSE UNCHANGED mishap

\* The manager has crashed, or its queue is full (a caller without place for the
\* confirmation does not wait for an empty queue): nobody frees the message,
\* unless the builder does.
SendRefused ==
    /\ Awaits /\ (crashed \/ Now.out = NULL)
    /\ script' = Now.fail /\ owed' = {}
    /\ IF \E i \in DOMAIN Now.fail : Now.fail[i] = Free(Now.b) THEN UNCHANGED mishap ELSE Notes("refused")
    /\ UNCHANGED <<chip, bus_up, crashed, buf, deferred, answer>>

\* Requests the queue never pushes at once; the others it defers behind one that is
\* not confirmed yet, but for callers with a place for the confirmation: these have
\* waited for an empty queue.
MustDefer(s) == s.do = "defer" \/ s.id \in {"ME_TRAFFIC_IND_REQ", "MM_SET_ARPOFFLOAD_REQ"}
DeferAny(s) == TRUE
MayDefer(s) == MustDefer(s) \/ s.out = NULL

SendDeferred ==
    /\ Awaits /\ ~crashed /\ MayDefer(Now)
    /\ deferred' = deferred \cup {Now} /\ buf' = [buf EXCEPT ![Now.b] = "queued"]
    /\ owed' = owed \cup Owes(Now)
    /\ script' = Tail(script)
    /\ UNCHANGED <<chip, bus_up, crashed, answer, mishap>>

\* The queue is empty, and nothing makes it hold the request back.
AtOnce == Awaits /\ ~crashed /\ deferred = {} /\ ~MustDefer(Now)

\* Pushed, freed (cmd_mgr_queue), and confirmed; or the wait times out; or it is
\* ended from outside, which returns 0 like a confirmation.
KeepPushed(b) == buf
FreePushed(b) == [buf EXCEPT ![b] = IF @ = "freed" THEN "twice" ELSE "freed"]

SendConfirmed ==
    /\ AtOnce
    /\ buf' = FreePushed(Now.b) /\ Answered(Now)
    /\ script' = Tail(script)
    /\ UNCHANGED <<chip, bus_up, crashed, deferred, owed, mishap>>

SendKilled ==
    /\ AtOnce
    /\ buf' = FreePushed(Now.b) /\ owed' = owed \cup Owes(Now)
    /\ script' = Tail(script) /\ Notes("killed")
    /\ UNCHANGED <<chip, bus_up, crashed, deferred, answer>>

SendTimesOut ==
    /\ AtOnce
    /\ buf' = FreePushed(Now.b) /\ crashed' = TRUE
    /\ script' = Now.fail /\ owed' = {}
    /\ AfterFailure(FreePushed(Now.b))
    /\ UNCHANGED <<chip, bus_up, deferred, answer>>

\* The worker (cmd_mgr_task_process) pushes and frees a deferred request; its wait
\* too may be ended by the drain.  Behind a request that has timed out it pushes none.
PushDeferred(s) ==
    /\ s \in deferred /\ ~crashed /\ deferred' = deferred \ {s}
    /\ buf' = FreePushed(s.b)
    /\ \/ Answered(s) /\ UNCHANGED crashed
       \/ crashed' = TRUE /\ UNCHANGED answer
       \/ UNCHANGED <<crashed, answer>>
    /\ UNCHANGED <<chip, bus_up, script, owed, mishap>>

\* The bus has been stopped for good: what is in the queue is unlinked.
cmd_mgr_drain ==
    /\ ~bus_up /\ deferred # {} /\ deferred' = {} /\ Notes("drained")
    /\ UNCHANGED <<chip, bus_up, crashed, script, buf, owed, answer>>

\* Unplugged, suspended, or resumed.
BusChanges ==
    /\ (script # NULL \/ deferred # {}) /\ bus_up' = ~bus_up
    /\ UNCHANGED <<chip, crashed, script, buf, deferred, owed, answer, mishap>>

MsgNext ==
    \/ \E s \in Builders : Call(s)
    \/ Return \/ rwnx_msg_zalloc \/ rwnx_msg_free \/ ReturnEarly \/ FallThrough
    \/ SendBusDown \/ SendNoCfm \/ SendRefused \/ SendDeferred \/ SendConfirmed \/ SendKilled \/ SendTimesOut
    \/ \E s \in deferred : PushDeferred(s)
    \/ cmd_mgr_drain \/ BusChanges

MsgSpec == MsgInit /\ [][MsgNext]_msgVars

-----------------------------------------------------------------------------
(* Properties *)

\* Whatever a builder does and however its sends end, each message it has
\* allocated is freed, and freed once: by rwnx_send_msg, by cmd_mgr_queue, by the
\* worker or by the builder's error path.  The exceptions are the mishaps; the
\* second free is the scan's after a send that timed out, only.
FreedOnce ==
    /\ \A b \in Bufs : buf[b] = "twice" => "retried" \in mishap
    /\ script = NULL /\ deferred = {} /\ mishap \subseteq {"falls", "down", "killed"} =>
           \A b \in Bufs : buf[b] \in {"none", "freed"}

\* A builder that returns 0 has every confirmation it reads afterwards: a request whose
\* confirmation is to be copied is not among those that are always deferred, and never
\* finds a queue to be deferred behind (cmd_mgr_queue waits for an empty one first).
\* Only a bus that is down and a wait ended by a signal or the drain return 0 without it.
AnswerIsThere == script = NULL /\ mishap \cap {"down", "killed"} = {} => owed = {}

\* For every builder and chip, the confirmation the firmware sends is the one the
\* builder has named to rwnx_send_msg, and has the layout of the structure the
\* builder passes; a vendor request has the layout of its tag.
AnswerFits ==
    answer # NULL =>
        /\ answer.got = answer.req.cfm
        /\ answer.req.out # NULL => answer.layout = answer.req.out
        /\ answer.req.id = "MM_SET_VENDOR_HWCONFIG_REQ" /\ "falls" \notin mishap =>
               answer.req.sub[1] = answer.req.sub[2]

\* A message: its buffer freed once, its answer there when it is read, and of the
\* layout the builder expects (rwnx_send_msg, the builders of rwnx_msg_tx.c).
MessagesSound == FreedOnce /\ AnswerIsThere /\ AnswerFits
=============================================================================
