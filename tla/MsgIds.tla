------------------------------- MODULE MsgIds -------------------------------
(***************************************************************************
 The identifiers of the messages between driver and firmware (lmac_msg.h), in
 the order of the enumerations, and the tables by which rwnx_rx_handle_msg
 finds the handler of a message (rwnx_msg_rx.c).
 ***************************************************************************)
EXTENDS Naturals, Sequences

mm_msg_tag == <<
    "MM_RESET_REQ", "MM_RESET_CFM", "MM_START_REQ", "MM_START_CFM", "MM_VERSION_REQ",
    "MM_VERSION_CFM", "MM_ADD_IF_REQ", "MM_ADD_IF_CFM", "MM_REMOVE_IF_REQ", "MM_REMOVE_IF_CFM",
    "MM_STA_ADD_REQ", "MM_STA_ADD_CFM", "MM_STA_DEL_REQ", "MM_STA_DEL_CFM", "MM_SET_FILTER_REQ",
    "MM_SET_FILTER_CFM", "MM_SET_CHANNEL_REQ", "MM_SET_CHANNEL_CFM", "MM_SET_DTIM_REQ",
    "MM_SET_DTIM_CFM", "MM_SET_BEACON_INT_REQ", "MM_SET_BEACON_INT_CFM", "MM_SET_BASIC_RATES_REQ",
    "MM_SET_BASIC_RATES_CFM", "MM_SET_BSSID_REQ", "MM_SET_BSSID_CFM", "MM_SET_EDCA_REQ",
    "MM_SET_EDCA_CFM", "MM_SET_MODE_REQ", "MM_SET_MODE_CFM", "MM_SET_VIF_STATE_REQ",
    "MM_SET_VIF_STATE_CFM", "MM_SET_SLOTTIME_REQ", "MM_SET_SLOTTIME_CFM", "MM_SET_IDLE_REQ",
    "MM_SET_IDLE_CFM", "MM_KEY_ADD_REQ", "MM_KEY_ADD_CFM", "MM_KEY_DEL_REQ", "MM_KEY_DEL_CFM",
    "MM_BA_ADD_REQ", "MM_BA_ADD_CFM", "MM_BA_DEL_REQ", "MM_BA_DEL_CFM", "MM_PRIMARY_TBTT_IND",
    "MM_SECONDARY_TBTT_IND", "MM_SET_POWER_REQ", "MM_SET_POWER_CFM", "MM_DBG_TRIGGER_REQ",
    "MM_SET_PS_MODE_REQ", "MM_SET_PS_MODE_CFM", "MM_CHAN_CTXT_ADD_REQ", "MM_CHAN_CTXT_ADD_CFM",
    "MM_CHAN_CTXT_DEL_REQ", "MM_CHAN_CTXT_DEL_CFM", "MM_CHAN_CTXT_LINK_REQ",
    "MM_CHAN_CTXT_LINK_CFM", "MM_CHAN_CTXT_UNLINK_REQ", "MM_CHAN_CTXT_UNLINK_CFM",
    "MM_CHAN_CTXT_UPDATE_REQ", "MM_CHAN_CTXT_UPDATE_CFM", "MM_CHAN_CTXT_SCHED_REQ",
    "MM_CHAN_CTXT_SCHED_CFM", "MM_BCN_CHANGE_REQ", "MM_BCN_CHANGE_CFM", "MM_TIM_UPDATE_REQ",
    "MM_TIM_UPDATE_CFM", "MM_CONNECTION_LOSS_IND", "MM_CHANNEL_SWITCH_IND",
    "MM_CHANNEL_PRE_SWITCH_IND", "MM_REMAIN_ON_CHANNEL_REQ", "MM_REMAIN_ON_CHANNEL_CFM",
    "MM_REMAIN_ON_CHANNEL_EXP_IND", "MM_PS_CHANGE_IND", "MM_TRAFFIC_REQ_IND",
    "MM_SET_PS_OPTIONS_REQ", "MM_SET_PS_OPTIONS_CFM", "MM_P2P_VIF_PS_CHANGE_IND",
    "MM_CSA_COUNTER_IND", "MM_CHANNEL_SURVEY_IND", "MM_BFMER_ENABLE_REQ", "MM_SET_P2P_NOA_REQ",
    "MM_SET_P2P_OPPPS_REQ", "MM_SET_P2P_NOA_CFM", "MM_SET_P2P_OPPPS_CFM", "MM_P2P_NOA_UPD_IND",
    "MM_CFG_RSSI_REQ", "MM_RSSI_STATUS_IND", "MM_CSA_FINISH_IND", "MM_CSA_TRAFFIC_IND",
    "MM_MU_GROUP_UPDATE_REQ", "MM_MU_GROUP_UPDATE_CFM", "MM_ANT_DIV_INIT_REQ",
    "MM_ANT_DIV_STOP_REQ", "MM_ANT_DIV_UPDATE_REQ", "MM_SWITCH_ANTENNA_REQ", "MM_PKTLOSS_IND",
    "MM_SET_ARPOFFLOAD_REQ", "MM_SET_ARPOFFLOAD_CFM", "MM_SET_AGG_DISABLE_REQ",
    "MM_SET_AGG_DISABLE_CFM", "MM_SET_COEX_REQ", "MM_SET_COEX_CFM", "MM_SET_RF_CONFIG_REQ",
    "MM_SET_RF_CONFIG_CFM", "MM_SET_RF_CALIB_REQ", "MM_SET_RF_CALIB_CFM", "MM_SET_MU_EDCA_REQ",
    "MM_SET_MU_EDCA_CFM", "MM_SET_UORA_REQ", "MM_SET_UORA_CFM", "MM_SET_TXOP_RTS_THRES_REQ",
    "MM_SET_TXOP_RTS_THRES_CFM", "MM_SET_BSS_COLOR_REQ", "MM_SET_BSS_COLOR_CFM",
    "MM_GET_MAC_ADDR_REQ", "MM_GET_MAC_ADDR_CFM", "MM_GET_STA_INFO_REQ", "MM_GET_STA_INFO_CFM",
    "MM_SET_TXPWR_IDX_LVL_REQ", "MM_SET_TXPWR_IDX_LVL_CFM", "MM_SET_TXPWR_OFST_REQ",
    "MM_SET_TXPWR_OFST_CFM", "MM_SET_STACK_START_REQ", "MM_SET_STACK_START_CFM",
    "MM_APM_STALOSS_IND", "MM_SET_VENDOR_HWCONFIG_REQ", "MM_SET_VENDOR_HWCONFIG_CFM",
    "MM_GET_FW_VERSION_REQ", "MM_GET_FW_VERSION_CFM", "MM_SET_RESUME_RESTORE_REQ",
    "MM_SET_RESUME_RESTORE_CFM", "MM_GET_WIFI_DISABLE_REQ", "MM_GET_WIFI_DISABLE_CFM",
    "MM_CFG_RSSI_CFM", "MM_SET_VENDOR_SWCONFIG_REQ", "MM_SET_VENDOR_SWCONFIG_CFM",
    "MM_SET_TXPWR_LVL_ADJ_REQ", "MM_SET_TXPWR_LVL_ADJ_CFM", "MM_RADAR_DETECT_IND",
    "MM_SET_APF_PROG_REQ", "MM_SET_APF_PROG_CFM", "MM_GET_APF_PROG_REQ", "MM_GET_APF_PROG_CFM",
    "MM_SET_TXPWR_PER_STA_REQ", "MM_SET_TXPWR_PER_STA_CFM" >>

scanu_msg_tag == <<
    "SCANU_START_REQ", "SCANU_START_CFM", "SCANU_JOIN_REQ", "SCANU_JOIN_CFM", "SCANU_RESULT_IND",
    "SCANU_FAST_REQ", "SCANU_FAST_CFM", "SCANU_VENDOR_IE_REQ", "SCANU_VENDOR_IE_CFM",
    "SCANU_START_CFM_ADDTIONAL", "SCANU_CANCEL_REQ", "SCANU_CANCEL_CFM" >>

me_msg_tag == <<
    "ME_CONFIG_REQ", "ME_CONFIG_CFM", "ME_CHAN_CONFIG_REQ", "ME_CHAN_CONFIG_CFM",
    "ME_SET_CONTROL_PORT_REQ", "ME_SET_CONTROL_PORT_CFM", "ME_TKIP_MIC_FAILURE_IND",
    "ME_STA_ADD_REQ", "ME_STA_ADD_CFM", "ME_STA_DEL_REQ", "ME_STA_DEL_CFM",
    "ME_TX_CREDITS_UPDATE_IND", "ME_TRAFFIC_IND_REQ", "ME_TRAFFIC_IND_CFM", "ME_RC_STATS_REQ",
    "ME_RC_STATS_CFM", "ME_RC_SET_RATE_REQ", "ME_CONFIG_MONITOR_REQ", "ME_CONFIG_MONITOR_CFM",
    "ME_SET_PS_MODE_REQ", "ME_SET_PS_MODE_CFM", "ME_SET_LP_LEVEL_REQ", "ME_SET_LP_LEVEL_CFM" >>

sm_msg_tag == <<
    "SM_CONNECT_REQ", "SM_CONNECT_CFM", "SM_CONNECT_IND", "SM_DISCONNECT_REQ",
    "SM_DISCONNECT_CFM", "SM_DISCONNECT_IND", "SM_EXTERNAL_AUTH_REQUIRED_IND",
    "SM_EXTERNAL_AUTH_REQUIRED_RSP", "SM_FT_AUTH_IND", "SM_FT_AUTH_RSP", "SM_RSP_TIMEOUT_IND",
    "SM_COEX_TS_TIMEOUT_IND", "SM_EXTERNAL_AUTH_REQUIRED_RSP_CFM" >>

apm_msg_tag == <<
    "APM_START_REQ", "APM_START_CFM", "APM_STOP_REQ", "APM_STOP_CFM", "APM_START_CAC_REQ",
    "APM_START_CAC_CFM", "APM_STOP_CAC_REQ", "APM_STOP_CAC_CFM", "APM_SET_BEACON_IE_REQ",
    "APM_SET_BEACON_IE_CFM" >>

mesh_msg_tag == <<
    "MESH_START_REQ", "MESH_START_CFM", "MESH_STOP_REQ", "MESH_STOP_CFM", "MESH_UPDATE_REQ",
    "MESH_UPDATE_CFM", "MESH_PEER_INFO_REQ", "MESH_PEER_INFO_CFM", "MESH_PATH_CREATE_REQ",
    "MESH_PATH_CREATE_CFM", "MESH_PATH_UPDATE_REQ", "MESH_PATH_UPDATE_CFM", "MESH_PROXY_ADD_REQ",
    "MESH_PEER_UPDATE_IND", "MESH_PEER_UPDATE_NTF", "MESH_PATH_UPDATE_IND",
    "MESH_PROXY_UPDATE_IND" >>

dbg_msg_tag == <<
    "DBG_MEM_READ_REQ", "DBG_MEM_READ_CFM", "DBG_MEM_WRITE_REQ", "DBG_MEM_WRITE_CFM",
    "DBG_SET_MOD_FILTER_REQ", "DBG_SET_MOD_FILTER_CFM", "DBG_SET_SEV_FILTER_REQ",
    "DBG_SET_SEV_FILTER_CFM", "DBG_ERROR_IND", "DBG_GET_SYS_STAT_REQ", "DBG_GET_SYS_STAT_CFM",
    "DBG_MEM_BLOCK_WRITE_REQ", "DBG_MEM_BLOCK_WRITE_CFM", "DBG_START_APP_REQ",
    "DBG_START_APP_CFM", "DBG_START_NPC_REQ", "DBG_START_NPC_CFM", "DBG_MEM_MASK_WRITE_REQ",
    "DBG_MEM_MASK_WRITE_CFM", "DBG_RFTEST_CMD_REQ", "DBG_RFTEST_CMD_CFM", "DBG_BINDING_REQ",
    "DBG_BINDING_CFM", "DBG_BINDING_IND", "DBG_CUSTOM_MSG_REQ", "DBG_CUSTOM_MSG_CFM",
    "DBG_CUSTOM_MSG_IND", "DBG_GPIO_WRITE_REQ", "DBG_GPIO_WRITE_CFM", "DBG_GPIO_READ_REQ",
    "DBG_GPIO_READ_CFM", "DBG_GPIO_INIT_REQ", "DBG_GPIO_INIT_CFM", "DBG_EF_USRDATA_READ_REQ",
    "DBG_EF_USRDATA_READ_CFM", "DBG_MEM_BLOCK_READ_REQ", "DBG_MEM_BLOCK_READ_CFM",
    "DBG_PWM_INIT_REQ", "DBG_PWM_INIT_CFM", "DBG_PWM_DEINIT_REQ", "DBG_PWM_DEINIT_CFM" >>

tdls_msg_tag == <<
    "TDLS_CHAN_SWITCH_REQ", "TDLS_CHAN_SWITCH_CFM", "TDLS_CHAN_SWITCH_IND",
    "TDLS_CHAN_SWITCH_BASE_IND", "TDLS_CANCEL_CHAN_SWITCH_REQ", "TDLS_CANCEL_CHAN_SWITCH_CFM",
    "TDLS_PEER_PS_IND", "TDLS_PEER_TRAFFIC_IND_REQ", "TDLS_PEER_TRAFFIC_IND_CFM" >>

Tags == <<mm_msg_tag, dbg_msg_tag, tdls_msg_tag, scanu_msg_tag, me_msg_tag,
          sm_msg_tag, apm_msg_tag, mesh_msg_tag>>

AllTags == UNION {{Tags[t][i] : i \in 1 .. Len(Tags[t])} : t \in 1 .. Len(Tags)}

\* Position in its task's enumeration; an identifier is task << 10 plus this.
MSG_I(id) == CHOOSE i \in 0 .. 200 :
                 \E t \in 1 .. Len(Tags) : i < Len(Tags[t]) /\ Tags[t][i + 1] = id

TaskOf(id) == CHOOSE t \in 1 .. Len(Tags) : \E i \in 1 .. Len(Tags[t]) : Tags[t][i] = id

-----------------------------------------------------------------------------
\* The messages with a handler; the others only complete the command that waits for them.

mm_hdlrs ==
    {"MM_CHANNEL_SWITCH_IND", "MM_CHANNEL_PRE_SWITCH_IND", "MM_REMAIN_ON_CHANNEL_EXP_IND",
     "MM_PS_CHANGE_IND", "MM_TRAFFIC_REQ_IND", "MM_P2P_VIF_PS_CHANGE_IND", "MM_CSA_COUNTER_IND",
     "MM_CSA_FINISH_IND", "MM_CSA_TRAFFIC_IND", "MM_CHANNEL_SURVEY_IND", "MM_P2P_NOA_UPD_IND",
     "MM_RSSI_STATUS_IND", "MM_PKTLOSS_IND", "MM_APM_STALOSS_IND", "MM_RADAR_DETECT_IND"}

scan_hdlrs == {"SCANU_START_CFM", "SCANU_RESULT_IND"}

me_hdlrs == {"ME_TKIP_MIC_FAILURE_IND", "ME_TX_CREDITS_UPDATE_IND"}

sm_hdlrs == {"SM_CONNECT_IND", "SM_DISCONNECT_IND", "SM_EXTERNAL_AUTH_REQUIRED_IND"}

apm_hdlrs == {}

mesh_hdlrs == {"MESH_PATH_CREATE_CFM", "MESH_PEER_UPDATE_IND", "MESH_PATH_UPDATE_IND",
               "MESH_PROXY_UPDATE_IND"}

dbg_hdlrs == {"DBG_ERROR_IND"}

tdls_hdlrs == {"TDLS_CHAN_SWITCH_CFM", "TDLS_CHAN_SWITCH_IND", "TDLS_CHAN_SWITCH_BASE_IND",
               "TDLS_PEER_PS_IND"}

msg_hdlrs == mm_hdlrs \cup dbg_hdlrs \cup tdls_hdlrs \cup scan_hdlrs \cup me_hdlrs
             \cup sm_hdlrs \cup apm_hdlrs \cup mesh_hdlrs

=============================================================================
