-------------------------------- MODULE Roc --------------------------------
(***************************************************************************
 Remaining on a channel, for user space or to send a management frame off the
 interface's channel (rwnx_main.c, rwnx_msg_rx.c, rwnx_txq.c), and the cipher
 keys of the interfaces (rwnx_main.c).

 One element stands for the request; it is made by the kernel's operation and
 freed by the receive thread when the firmware says that the time is over.  The
 operations run one at a time.  Not modelled is what follows when
   "cookie"   the time is over before the operation has read its cookie,
   "timeout"  the request failed but the firmware may still act on it,
   "closed"   the interface is closed: the element is forgotten, not freed, and
              cfg80211 is not told that the time is over,
   "key0"     a key that was never added is deleted: the request names the
              firmware's key 0, which may be another's,
   "keylost"  a key is added in the place of another one.
 ***************************************************************************)
EXTENDS Integers, Sequences

CONSTANTS RocVifs, RocChans, MaxCookie,     \* bound: the cookie counter wraps to 1 after it
          KeySlots, HwKeys,                 \* places for keys; the firmware's keys
          None

VARIABLES roc_elem,     \* [vif, chan, mgmt, on_chan], or None
          roc_cookie_cnt,
          offchan,      \* interfaces whose off-channel queue is initialised
          offchan_on,   \* the off-channel queue may send
          roc_op,       \* the kernel's operation under way
          roc_ready,    \* the cookie cfg80211 was told is ready, not yet expired, or None
          roc_given,    \* the cookie cfg80211 got for the request that is under way, or None
          fw_roc,       \* external: "no", "asked" or "on"
          roc_msgs,
          key_hw, key_flag,     \* slot -> hw_idx; the keys that disconnect lets go
          fw_keys,      \* external: the firmware's key -> its slot, or None
          roc_upset

keyVars == <<key_hw, key_flag, fw_keys>>
rocVars == <<roc_elem, roc_cookie_cnt, offchan, offchan_on, roc_op, roc_ready, roc_given, fw_roc,
             roc_msgs, keyVars, roc_upset>>

RocInit ==
    /\ roc_elem = None /\ roc_cookie_cnt = 1 /\ offchan = {} /\ offchan_on = FALSE /\ roc_op = <<"idle">>
    /\ roc_ready = None /\ roc_given = None /\ fw_roc = "no" /\ roc_msgs = <<>>
    /\ key_hw = [k \in KeySlots |-> 0] /\ key_flag = FALSE /\ fw_keys = [h \in HwKeys |-> None]
    /\ roc_upset = {}

RocIdle == roc_op = <<"idle">>
Broken(e) == roc_upset' = roc_upset \cup {e}

-----------------------------------------------------------------------------
\* Refused while another element exists.
rwnx_cfg80211_remain_on_channel_(v, c, mgmt) ==
    /\ RocIdle /\ roc_elem = None
    /\ roc_elem' = [vif |-> v, chan |-> c, mgmt |-> mgmt, on_chan |-> FALSE]
    /\ offchan' = offchan \cup {v} /\ offchan_on' = FALSE
    /\ roc_op' = <<"roc", v>> /\ roc_given' = None
    /\ UNCHANGED <<roc_cookie_cnt, roc_ready, fw_roc, roc_msgs, keyVars, roc_upset>>

\* The confirmation: the cookie is the counter's value when the caller runs again.
\* A refused request takes everything back.
RocConfirmed ==
    /\ roc_op[1] = "roc" /\ fw_roc = "no"
    /\ \/ fw_roc' = "asked" /\ roc_op' = <<"cookie", roc_op[2], roc_cookie_cnt>>
          /\ UNCHANGED <<roc_elem, offchan, roc_upset>>
       \/ roc_elem' = None /\ offchan' = offchan \ {roc_op[2]} /\ roc_op' = <<"idle">>
          /\ UNCHANGED <<fw_roc, roc_upset>>
       \/ roc_elem' = None /\ offchan' = offchan \ {roc_op[2]} /\ roc_op' = <<"idle">>
          /\ Broken("timeout") /\ UNCHANGED fw_roc
    /\ UNCHANGED <<roc_cookie_cnt, offchan_on, roc_ready, roc_given, roc_msgs, keyVars>>

ReadRocCookie ==
    /\ roc_op[1] = "cookie"
    /\ roc_given' = roc_cookie_cnt /\ roc_op' = <<"idle">>
    /\ IF roc_cookie_cnt # roc_op[3] THEN Broken("cookie") ELSE UNCHANGED roc_upset
    /\ UNCHANGED <<roc_elem, roc_cookie_cnt, offchan, offchan_on, roc_ready, fw_roc, roc_msgs, keyVars>>

rwnx_cfg80211_cancel_remain_on_channel ==
    /\ RocIdle /\ roc_elem # None /\ fw_roc \in {"asked", "on"}
    /\ fw_roc' = "no" /\ roc_msgs' = Append(roc_msgs, "exp")
    /\ UNCHANGED <<roc_elem, roc_cookie_cnt, offchan, offchan_on, roc_op, roc_ready, roc_given, keyVars, roc_upset>>

\* A management frame to nobody known waits for the channel: the element that is
\* there must be for the same interface and channel.
OffchanAllowed(v, c) == roc_elem # None /\ roc_elem.vif = v /\ roc_elem.chan = c

rwnx_cfg80211_mgmt_tx(v, c) ==
    /\ OffchanAllowed(v, c) \/ roc_elem = None
    /\ IF roc_elem = None THEN rwnx_cfg80211_remain_on_channel_(v, c, TRUE)
       ELSE RocIdle /\ UNCHANGED rocVars

\* ndo_stop of the interface the element is for.
CloseForgets ==
    /\ RocIdle /\ roc_elem # None
    /\ roc_elem' = None /\ Broken("closed")
    /\ UNCHANGED <<roc_cookie_cnt, offchan, offchan_on, roc_op, roc_ready, roc_given, fw_roc, roc_msgs, keyVars>>

-----------------------------------------------------------------------------
\* Indications.

NextCookie == IF roc_cookie_cnt = MaxCookie THEN 1 ELSE roc_cookie_cnt + 1

rwnx_rx_chan_switch_ind_roc ==
    /\ roc_msgs # <<>> /\ Head(roc_msgs) = "switch"
    /\ IF roc_elem # None
       THEN /\ roc_elem' = [roc_elem EXCEPT !.on_chan = TRUE]
            /\ roc_ready' = IF roc_elem.mgmt THEN roc_ready ELSE roc_cookie_cnt
       ELSE UNCHANGED <<roc_elem, roc_ready>>
    /\ offchan_on' = TRUE /\ roc_msgs' = Tail(roc_msgs)
    /\ UNCHANGED <<roc_cookie_cnt, offchan, roc_op, roc_given, fw_roc, keyVars, roc_upset>>

\* Mutant: cfg80211 is told for the stays of management frames.
TellsMgmt == roc_elem.mgmt /\ roc_elem.on_chan

\* cfg80211 is told that the time is over only if it was told that it began.
TellsExpired == ~roc_elem.mgmt /\ roc_elem.on_chan

rwnx_rx_remain_on_channel_exp_ind ==
    /\ roc_msgs # <<>> /\ Head(roc_msgs) = "exp"
    /\ IF roc_elem # None
       THEN /\ roc_ready' = IF TellsExpired THEN None ELSE roc_ready
            /\ offchan' = offchan \ {roc_elem.vif} /\ offchan_on' = FALSE
            /\ roc_cookie_cnt' = NextCookie
            /\ roc_elem' = None
       ELSE UNCHANGED <<roc_ready, offchan, offchan_on, roc_cookie_cnt, roc_elem>>
    /\ roc_msgs' = Tail(roc_msgs)
    /\ UNCHANGED <<roc_op, roc_given, fw_roc, keyVars, roc_upset>>

\* External: the firmware reaches the channel, and leaves it.
FwRoc ==
    /\ \/ fw_roc = "asked" /\ fw_roc' = "on" /\ roc_msgs' = Append(roc_msgs, "switch")
       \/ fw_roc \in {"asked", "on"} /\ fw_roc' = "no" /\ roc_msgs' = Append(roc_msgs, "exp")
    /\ UNCHANGED <<roc_elem, roc_cookie_cnt, offchan, offchan_on, roc_op, roc_ready, roc_given, keyVars, roc_upset>>

-----------------------------------------------------------------------------
\* Keys: the firmware chooses the number, 0 included.

\* Mutant: the number is kept only when it is not the slot's first.
StoreOnce(k, h) == key_hw' = IF key_hw[k] = 0 THEN key_hw ELSE [key_hw EXCEPT ![k] = h]

StoreKey(k, h) == key_hw' = [key_hw EXCEPT ![k] = h]

rwnx_cfg80211_add_key(k) ==
    /\ RocIdle /\ key_flag' = FALSE
    /\ \E h \in HwKeys : /\ fw_keys[h] = None
                         /\ fw_keys' = [fw_keys EXCEPT ![h] = k] /\ StoreKey(k, h)
    /\ IF \E h \in HwKeys : fw_keys[h] = k THEN Broken("keylost") ELSE UNCHANGED roc_upset
    /\ UNCHANGED <<roc_elem, roc_cookie_cnt, offchan, offchan_on, roc_op, roc_ready, roc_given, fw_roc, roc_msgs>>

ForgetKey(k) == key_hw' = [key_hw EXCEPT ![k] = 0]

\* A station deletes its keys only on disconnection.
rwnx_cfg80211_del_key(k) ==
    /\ RocIdle /\ key_flag
    /\ fw_keys' = [fw_keys EXCEPT ![key_hw[k]] = None] /\ ForgetKey(k)
    /\ IF fw_keys[key_hw[k]] \notin {k, None} THEN Broken("key0") ELSE UNCHANGED roc_upset
    /\ UNCHANGED <<roc_elem, roc_cookie_cnt, offchan, offchan_on, roc_op, roc_ready, roc_given, fw_roc,
                   roc_msgs, key_flag>>

DisconnectLetsKeysGo ==
    /\ RocIdle /\ ~key_flag /\ key_flag' = TRUE
    /\ UNCHANGED <<roc_elem, roc_cookie_cnt, offchan, offchan_on, roc_op, roc_ready, roc_given, fw_roc, roc_msgs,
                   key_hw, fw_keys, roc_upset>>

RocNext ==
    /\ roc_upset = {}
    /\ \/ \E v \in RocVifs, c \in RocChans : \/ rwnx_cfg80211_remain_on_channel_(v, c, FALSE)
                                             \/ rwnx_cfg80211_mgmt_tx(v, c)
       \/ RocConfirmed \/ ReadRocCookie \/ rwnx_cfg80211_cancel_remain_on_channel \/ CloseForgets
       \/ rwnx_rx_chan_switch_ind_roc \/ rwnx_rx_remain_on_channel_exp_ind \/ FwRoc
       \/ \E k \in KeySlots : rwnx_cfg80211_add_key(k) \/ rwnx_cfg80211_del_key(k)
       \/ DisconnectLetsKeysGo

RocSpec == RocInit /\ [][RocNext]_rocVars

-----------------------------------------------------------------------------
\* Off-channel queues exist exactly for the element's interface, and send only
\* between the firmware's two indications; cfg80211 is never left with a period
\* that began and does not end, nor told of one under another cookie than the
\* one it was given.
RocPaired ==
    roc_upset = {} =>
        /\ offchan = IF roc_elem = None THEN {} ELSE {roc_elem.vif}
        /\ offchan_on => roc_elem # None /\ roc_elem.on_chan
        /\ roc_ready # None => /\ roc_elem # None /\ roc_elem.on_chan /\ roc_ready = roc_cookie_cnt
                               /\ roc_given # None => roc_given = roc_ready

\* The firmware's keys are those the driver holds, each under its own number.
KeysAgree ==
    roc_upset = {} => \A h \in HwKeys : fw_keys[h] # None => key_hw[fw_keys[h]] = h

\* The stays off channel and the keys (rwnx_cfg80211_remain_on_channel,
\* rwnx_rx_remain_on_channel_exp_ind, rwnx_cfg80211_add_key).
RocSound == RocPaired /\ KeysAgree
=============================================================================
