----------------------------- MODULE PartsProofs -----------------------------
(***************************************************************************
 What is proved of the modules of control: StaSound for any stations and any
 number of indications and probes, RocSound for any interfaces, channels, keys
 and bound of the cookie, LoadBusSound for any buffers, queues and commands,
 VifSound for any numbers of interfaces that fit in vif_started, ConnSound for
 any bound of the indications in flight, and ChanSound for any interfaces and
 channels.
 ***************************************************************************)
EXTENDS Sta, Roc, LoadBus, Vif, Conn, Chan, SequenceTheorems, FiniteSetTheorems, WellFoundedInduction, TLAPS

-----------------------------------------------------------------------------
(* Stations                                                                *)

Msgs == {<<"ps", m, b>> : m \in Stas, b \in BOOLEAN} \cup {<<"loss", m>> : m \in Stas}

\* Indication i of s is about the sleep of m; none of s is.
Ps(s, i, m) == s[i][1] = "ps" /\ s[i][2] = m
NoPs(s, m) == \A i \in 1 .. Len(s) : ~Ps(s, i, m)
\* The last indication about the sleep of m says whether m is in A.
Follows(s, A, m) ==
    \A i \in 1 .. Len(s) :
        Ps(s, i, m) /\ (\A j \in i + 1 .. Len(s) : ~Ps(s, j, m)) => (s[i][3] = TRUE <=> m \in A)

StaOpShape ==
    \/ sta_op = <<"idle">> \/ sta_op = <<"probe">>
    \/ \E m \in Stas : sta_op = <<"add", m>>
    \/ \E m \in Stas, b \in BOOLEAN : sta_op = <<"added", m, b>> \/ sta_op = <<"del", m, b>>

LossShape == loss_work = <<"idle">> \/ loss_work = <<"queued">> \/ \E m \in Stas : loss_work = <<"del", m>>

StaTypes ==
    /\ fw_stas \subseteq Stas /\ sta_msgs \in Seq(Msgs) /\ StaOpShape /\ LossShape
    /\ adding_sta \in BOOLEAN /\ (adding_sta = TRUE <=> sta_op[1] \in {"add", "added"})

\* A station that is being added is nobody else's.
Apart ==
    /\ sta_op[1] = "add" => sta_op[2] \notin fw_stas
    /\ sta_op[1] = "added" => sta_op[2] \notin sta_list /\ loss_work # <<"del", sta_op[2]>>

\* The station that is being added was confirmed as awake.
AddedAwake(m) == sta_op[1] = "added" /\ sta_op[2] = m /\ sta_op[3] = FALSE

\* Where a station's sleep is known from.
Sleep ==
    /\ \A i \in 1 .. Len(sta_msgs) : sta_msgs[i][2] \in fw_stas
    /\ \A m \in fw_stas : Follows(sta_msgs, fw_asleep, m)
    /\ \A m \in sta_asleep : m \in sta_list \/ (sta_op[1] = "added" /\ sta_op[2] = m)
    /\ \A m \in sta_list : NoPs(sta_msgs, m) => (m \in sta_asleep <=> m \in fw_asleep)
    /\ \A m \in Stas : AddedAwake(m) /\ NoPs(sta_msgs, m) => (m \in sta_asleep <=> m \in fw_asleep)

Probe ==
    /\ probed # NULL => probe_work = "queued" /\ probe_mac = probed
    /\ probed # NULL /\ sta_op[1] # "probe" => probe_cookie = probe_id

\* The inductive invariant; after one of the events nothing is claimed.
StaIInv == sta_upset = {} => StaTypes /\ StaAgrees /\ Apart /\ Sleep /\ Probe

-----------------------------------------------------------------------------
\* The sequences of indications.

\* The parts of an indication.
LEMMA MsgParts ==
    ASSUME NEW x \in Msgs
    PROVE  /\ x[1] \in {"ps", "loss"} /\ x[2] \in Stas
           /\ x[1] = "ps" => x[3] \in BOOLEAN
  BY DEF Msgs

\* An indication of sleep is one of the indications.
LEMMA PsMsg == ASSUME NEW m \in Stas, NEW b \in BOOLEAN PROVE <<"ps", m, b>> \in Msgs
  BY DEF Msgs

\* Taking the first indication off.
LEMMA TailFacts ==
    ASSUME NEW s \in Seq(Msgs), s # <<>>
    PROVE  /\ Tail(s) \in Seq(Msgs) /\ Len(Tail(s)) = Len(s) - 1 /\ Len(s) \in Nat /\ Len(s) >= 1
           /\ Head(s) = s[1] /\ Head(s) \in Msgs
           /\ \A i \in 1 .. Len(s) - 1 : Tail(s)[i] = s[i + 1]
  BY HeadTailProperties

\* The rest still says what the whole said.
LEMMA TailFollows ==
    ASSUME NEW s \in Seq(Msgs), s # <<>>, NEW A, NEW m, Follows(s, A, m)
    PROVE  Follows(Tail(s), A, m)
<1>1. SUFFICES ASSUME NEW i \in 1 .. Len(Tail(s)), Ps(Tail(s), i, m), \A j \in i + 1 .. Len(Tail(s)) : ~Ps(Tail(s), j, m)
               PROVE  Tail(s)[i][3] = TRUE <=> m \in A
  BY DEF Follows
<1>2. i + 1 \in 1 .. Len(s) /\ Tail(s)[i] = s[i + 1] /\ i \in Int
  BY TailFacts
<1>3. Ps(s, i + 1, m)
  BY <1>1, <1>2 DEF Ps
<1>4. ASSUME NEW j \in (i + 1) + 1 .. Len(s) PROVE ~Ps(s, j, m)
  <2>1. j - 1 \in i + 1 .. Len(Tail(s)) /\ Tail(s)[j - 1] = s[j]
    BY <1>2, TailFacts
  <2> QED BY <1>1, <2>1 DEF Ps
<1> QED BY <1>2, <1>3, <1>4 DEF Follows

\* If nothing is left about m, the first was the last.
LEMMA TailLast ==
    ASSUME NEW s \in Seq(Msgs), s # <<>>, NEW A, NEW m, Follows(s, A, m), Ps(s, 1, m), NoPs(Tail(s), m)
    PROVE  Head(s)[3] = TRUE <=> m \in A
<1>1. ASSUME NEW j \in 1 + 1 .. Len(s) PROVE ~Ps(s, j, m)
  <2>1. j - 1 \in 1 .. Len(Tail(s)) /\ Tail(s)[j - 1] = s[j]
    BY TailFacts
  <2> QED BY <2>1 DEF Ps, NoPs
<1> QED BY <1>1, TailFacts DEF Follows

\* What was not about m does not count.
LEMMA TailNo ==
    ASSUME NEW s \in Seq(Msgs), s # <<>>, NEW m, ~Ps(s, 1, m), NoPs(Tail(s), m)
    PROVE  NoPs(s, m)
<1>1. ASSUME NEW j \in 1 .. Len(s) PROVE ~Ps(s, j, m)
  <2>1. CASE j = 1
    BY <2>1
  <2>2. CASE j # 1
    <3>1. j - 1 \in 1 .. Len(Tail(s)) /\ Tail(s)[j - 1] = s[j]
      BY <2>2, TailFacts
    <3> QED BY <3>1 DEF Ps, NoPs
  <2> QED BY <2>1, <2>2
<1> QED BY <1>1 DEF NoPs

\* One more indication.
LEMMA AppendFacts ==
    ASSUME NEW s \in Seq(Msgs), NEW x \in Msgs
    PROVE  /\ Append(s, x) \in Seq(Msgs) /\ Len(s) \in Nat /\ Len(Append(s, x)) = Len(s) + 1
           /\ \A i \in 1 .. Len(s) : Append(s, x)[i] = s[i]
           /\ Append(s, x)[Len(s) + 1] = x
  BY AppendProperties, LenProperties

\* An indication about another station, or about a loss.
LEMMA AppendOther ==
    ASSUME NEW s \in Seq(Msgs), NEW x \in Msgs, NEW A, NEW m, ~(x[1] = "ps" /\ x[2] = m)
    PROVE  /\ Follows(s, A, m) => Follows(Append(s, x), A, m)
           /\ NoPs(Append(s, x), m) => NoPs(s, m)
<1> DEFINE t == Append(s, x)
<1>0. Len(t) = Len(s) + 1 /\ Len(s) \in Nat /\ t[Len(s) + 1] = x /\ \A i \in 1 .. Len(s) : t[i] = s[i]
  BY AppendFacts
<1> HIDE DEF t
<1>1. ASSUME Follows(s, A, m) PROVE Follows(t, A, m)
  <2>1. SUFFICES ASSUME NEW i \in 1 .. Len(t), Ps(t, i, m), \A j \in i + 1 .. Len(t) : ~Ps(t, j, m)
                 PROVE  t[i][3] = TRUE <=> m \in A
    BY DEF Follows
  <2>2. i \in 1 .. Len(s) /\ t[i] = s[i]
    BY <1>0, <2>1 DEF Ps
  <2>3. Ps(s, i, m) /\ \A j \in i + 1 .. Len(s) : ~Ps(s, j, m)
    BY <1>0, <2>1, <2>2 DEF Ps
  <2> QED BY <1>1, <2>2, <2>3 DEF Follows
<1>2. ASSUME NoPs(t, m) PROVE NoPs(s, m)
  BY <1>0, <1>2 DEF NoPs, Ps
<1> QED BY <1>1, <1>2 DEF t

\* An indication about the sleep of m itself.
LEMMA AppendOwn ==
    ASSUME NEW s \in Seq(Msgs), NEW x \in Msgs, NEW A, NEW m, x[1] = "ps", x[2] = m, x[3] = TRUE <=> m \in A
    PROVE  Follows(Append(s, x), A, m) /\ ~NoPs(Append(s, x), m)
<1> DEFINE t == Append(s, x)
<1>0. Len(t) = Len(s) + 1 /\ Len(s) \in Nat /\ t[Len(s) + 1] = x
  BY AppendFacts
<1> HIDE DEF t
<1>1. Ps(t, Len(s) + 1, m)
  BY <1>0 DEF Ps
<1>2. ASSUME NEW i \in 1 .. Len(t), \A j \in i + 1 .. Len(t) : ~Ps(t, j, m) PROVE i = Len(s) + 1
  BY <1>0, <1>1, <1>2
<1>3. Follows(t, A, m)
  BY <1>0, <1>2 DEF Follows
<1>4. ~NoPs(t, m)
  BY <1>0, <1>1 DEF NoPs
<1> QED BY <1>3, <1>4 DEF t

\* Sets that agree on m are alike for it.
LEMMA FollowsSame ==
    ASSUME NEW s, NEW A, NEW B, NEW m, m \in A <=> m \in B, Follows(s, A, m) PROVE Follows(s, B, m)
  BY DEF Follows

-----------------------------------------------------------------------------
\* The steps.

\* In the beginning there is no station.
LEMMA InitSta == ASSUME StaInit PROVE StaIInv
<1>1. StaTypes
  <2>1. sta_op[1] = "idle" /\ sta_msgs \in Seq(Msgs)
    BY DEF StaInit
  <2>2. adding_sta \in BOOLEAN /\ (adding_sta = TRUE <=> sta_op[1] \in {"add", "added"})
    BY <2>1 DEF StaInit
  <2> QED BY <2>1, <2>2 DEF StaInit, StaTypes, StaOpShape, LossShape
<1>2. StaAgrees /\ Apart /\ Probe
  BY DEF StaInit, StaAgrees, Apart, Probe
<1>3. Sleep
  <2>1. Len(sta_msgs) = 0 /\ fw_stas = {} /\ sta_asleep = {} /\ sta_list = {} /\ sta_op[1] = "idle"
    BY DEF StaInit
  <2> QED BY <2>1 DEF Sleep, AddedAwake
<1> QED BY <1>1, <1>2, <1>3 DEF StaIInv

\* User space adds a station: rwnx_cfg80211_add_station.
LEMMA AddKeeps ==
    ASSUME StaIInv, sta_upset = {}, NEW m \in Stas, rwnx_cfg80211_add_station(m) PROVE StaIInv'
<1>1. StaTypes'
  BY DEF rwnx_cfg80211_add_station, StaIInv, StaTypes, StaOpShape, LossShape, Ready, lossVars, probeVars, fwVars
<1>2. StaAgrees'
  BY DEF rwnx_cfg80211_add_station, StaIInv, StaAgrees, StaTypes, StaOpShape, LossShape, Ready, lossVars, probeVars, fwVars
<1>3. Apart'
  BY DEF rwnx_cfg80211_add_station, StaIInv, Apart, StaAgrees, StaTypes, StaOpShape, LossShape, Ready, lossVars, probeVars, fwVars
<1>4. Sleep'
  BY DEF rwnx_cfg80211_add_station, StaIInv, Sleep, AddedAwake, Apart, StaAgrees, StaTypes, StaOpShape, LossShape, Ready, lossVars, probeVars, fwVars
<1>5. Probe'
  BY DEF rwnx_cfg80211_add_station, StaIInv, Probe, StaTypes, StaOpShape, Ready, probeVars
<1> QED BY <1>1, <1>2, <1>3, <1>4, <1>5 DEF StaIInv

\* A station is taken off the list.
LEMMA DelKeeps ==
    ASSUME StaIInv, sta_upset = {}, NEW m \in Stas, NEW all \in BOOLEAN, rwnx_cfg80211_del_station_compat(m, all) PROVE StaIInv'
<1>1. StaTypes'
  BY DEF rwnx_cfg80211_del_station_compat, StaIInv, StaTypes, StaOpShape, LossShape, Ready, TakeOff, lossVars, probeVars, fwVars
<1>2. StaAgrees'
  BY DEF rwnx_cfg80211_del_station_compat, StaIInv, StaAgrees, StaTypes, StaOpShape, LossShape, Ready, TakeOff, lossVars, probeVars, fwVars
<1>3. Apart'
  BY DEF rwnx_cfg80211_del_station_compat, StaIInv, Apart, StaAgrees, StaTypes, StaOpShape, LossShape, Ready, TakeOff, lossVars, probeVars, fwVars
<1>4. Sleep'
  BY DEF rwnx_cfg80211_del_station_compat, StaIInv, Sleep, AddedAwake, Apart, StaAgrees, StaTypes, StaOpShape, LossShape, Ready, TakeOff, lossVars, probeVars, fwVars
<1>5. Probe'
  BY DEF rwnx_cfg80211_del_station_compat, StaIInv, Probe, StaTypes, StaOpShape, Ready, probeVars
<1> QED BY <1>1, <1>2, <1>3, <1>4, <1>5 DEF StaIInv

\* A station is probed.
LEMMA ProbeKeeps ==
    ASSUME StaIInv, sta_upset = {}, NEW m \in Stas, rwnx_cfg80211_probe_client(m) PROVE StaIInv'
<1>1. StaTypes'
  BY DEF rwnx_cfg80211_probe_client, StaIInv, StaTypes, StaOpShape, LossShape, Ready, Event, lossVars, fwVars
<1>2. StaAgrees'
  BY DEF rwnx_cfg80211_probe_client, StaIInv, StaAgrees, StaTypes, StaOpShape, LossShape, Ready, Event, lossVars, fwVars
<1>3. Apart'
  BY DEF rwnx_cfg80211_probe_client, StaIInv, Apart, StaAgrees, StaTypes, StaOpShape, LossShape, Ready, Event, lossVars, fwVars
<1>4. Sleep'
  BY DEF rwnx_cfg80211_probe_client, StaIInv, Sleep, AddedAwake, Apart, StaAgrees, StaTypes, StaOpShape, LossShape, Ready, Event, lossVars, fwVars
<1>5. Probe'
  BY DEF rwnx_cfg80211_probe_client, StaIInv, Probe, StaTypes, StaOpShape, Ready, Event
<1> QED BY <1>1, <1>2, <1>3, <1>4, <1>5 DEF StaIInv

\* The cookie of the probe is read.
LEMMA CookieKeeps ==
    ASSUME StaIInv, sta_upset = {}, ReadCookie PROVE StaIInv'
<1>1. StaTypes'
  BY DEF ReadCookie, StaIInv, StaTypes, StaOpShape, LossShape, Event, CookieOf, lossVars, fwVars
<1>2. StaAgrees'
  BY DEF ReadCookie, StaIInv, StaAgrees, StaTypes, StaOpShape, LossShape, Event, CookieOf, lossVars, fwVars
<1>3. Apart'
  BY DEF ReadCookie, StaIInv, Apart, StaAgrees, StaTypes, StaOpShape, LossShape, Event, CookieOf, lossVars, fwVars
<1>4. Sleep'
  BY DEF ReadCookie, StaIInv, Sleep, AddedAwake, Apart, StaAgrees, StaTypes, StaOpShape, LossShape, Event, CookieOf, lossVars, fwVars
<1>5. Probe'
  BY DEF ReadCookie, StaIInv, Probe, StaTypes, StaOpShape, Event, CookieOf
<1> QED BY <1>1, <1>2, <1>3, <1>4, <1>5 DEF StaIInv

\* The probe is answered.
LEMMA AnswerKeeps ==
    ASSUME StaIInv, sta_upset = {}, apm_probe_sta_work_process PROVE StaIInv'
<1>1. StaTypes'
  BY DEF apm_probe_sta_work_process, StaIInv, StaTypes, StaOpShape, LossShape, NextProbe, lossVars, fwVars
<1>2. StaAgrees'
  BY DEF apm_probe_sta_work_process, StaIInv, StaAgrees, StaTypes, StaOpShape, LossShape, NextProbe, lossVars, fwVars
<1>3. Apart'
  BY DEF apm_probe_sta_work_process, StaIInv, Apart, StaAgrees, StaTypes, StaOpShape, LossShape, NextProbe, lossVars, fwVars
<1>4. Sleep'
  BY DEF apm_probe_sta_work_process, StaIInv, Sleep, AddedAwake, Apart, StaAgrees, StaTypes, StaOpShape, LossShape, NextProbe, lossVars, fwVars
<1>5. Probe'
  BY DEF apm_probe_sta_work_process, StaIInv, Probe, StaTypes, StaOpShape, NextProbe
<1> QED BY <1>1, <1>2, <1>3, <1>4, <1>5 DEF StaIInv

\* The work item takes the lost station off the list.
LEMMA LossWorkKeeps ==
    ASSUME StaIInv, sta_upset = {}, apm_staloss_work_process PROVE StaIInv'
<1>0. /\ \A m : m \in sta_list' => m \in sta_list
      /\ \A m : m \in sta_asleep' => m \in sta_asleep
      /\ \A m : m \in sta_asleep /\ m \notin sta_asleep' => m \notin sta_list' /\ m \in sta_list
      /\ \A m : m \in sta_list /\ m \notin sta_list' => m \notin sta_asleep'
  BY DEF apm_staloss_work_process, TakeOff
<1>1. StaTypes'
  BY DEF apm_staloss_work_process, StaIInv, StaTypes, StaOpShape, LossShape, TakeOff, probeVars, fwVars, StaAgrees
<1>2. StaAgrees'
  BY DEF apm_staloss_work_process, StaIInv, StaAgrees, StaTypes, StaOpShape, LossShape, TakeOff, probeVars, fwVars
<1>3. Apart'
  BY DEF apm_staloss_work_process, StaIInv, Apart, StaAgrees, StaTypes, StaOpShape, LossShape, TakeOff, probeVars, fwVars
<1>4. Sleep'
  <2>1. UNCHANGED <<sta_msgs, fw_stas, fw_asleep, sta_op>> /\ (sta_op[1] = "added" => sta_op[2] \notin sta_list)
    BY DEF apm_staloss_work_process, fwVars, StaIInv, Apart
  <2>2. \A m \in sta_asleep' : m \in sta_list' \/ (sta_op[1] = "added" /\ sta_op[2] = m)
    BY <1>0, <2>1 DEF StaIInv, Sleep
  <2>3. \A m \in sta_list' : NoPs(sta_msgs, m) => (m \in sta_asleep' <=> m \in fw_asleep)
    BY <1>0 DEF StaIInv, Sleep
  <2>4. \A m \in Stas : AddedAwake(m) /\ NoPs(sta_msgs, m) => (m \in sta_asleep' <=> m \in fw_asleep)
    BY <1>0, <2>1 DEF StaIInv, Sleep, AddedAwake
  <2>5. (\A i \in 1 .. Len(sta_msgs) : sta_msgs[i][2] \in fw_stas) /\ (\A m \in fw_stas : Follows(sta_msgs, fw_asleep, m))
    BY DEF StaIInv, Sleep
  <2> QED BY <2>1, <2>2, <2>3, <2>4, <2>5 DEF Sleep, AddedAwake
<1>5. Probe'
  BY DEF apm_staloss_work_process, StaIInv, Probe, StaTypes, StaOpShape, probeVars
<1> QED BY <1>1, <1>2, <1>3, <1>4, <1>5 DEF StaIInv

\* A loss is indicated.
LEMMA LossIndKeeps ==
    ASSUME StaIInv, sta_upset = {}, rwnx_apm_staloss_ind PROVE StaIInv'
<1>0. /\ sta_msgs \in Seq(Msgs) /\ sta_msgs # <<>> /\ sta_msgs' = Tail(sta_msgs) /\ sta_msgs[1][1] = "loss"
      /\ sta_msgs' \in Seq(Msgs) /\ Len(sta_msgs') = Len(sta_msgs) - 1 /\ Len(sta_msgs) \in Nat
      /\ \A i \in 1 .. Len(sta_msgs) - 1 : sta_msgs'[i] = sta_msgs[i + 1]
  BY TailFacts DEF rwnx_apm_staloss_ind, StaIInv, StaTypes
<1>1. StaTypes'
  BY <1>0 DEF rwnx_apm_staloss_ind, StaIInv, StaTypes, StaOpShape, LossShape, Event, QueueLoss, probeVars, fwVars
<1>2. StaAgrees'
  BY DEF rwnx_apm_staloss_ind, StaIInv, StaAgrees, StaTypes, StaOpShape, LossShape, Event, QueueLoss, probeVars, fwVars
<1>3. Apart'
  BY DEF rwnx_apm_staloss_ind, StaIInv, Apart, StaAgrees, StaTypes, StaOpShape, LossShape, Event, QueueLoss, probeVars, fwVars
<1>4. Sleep'
  <2>1. \A m : NoPs(sta_msgs', m) => NoPs(sta_msgs, m)
    BY <1>0, TailNo DEF Ps
  <2>2. \A i \in 1 .. Len(sta_msgs') : sta_msgs'[i][2] \in fw_stas
    BY <1>0 DEF StaIInv, Sleep
  <2>3. \A m \in fw_stas : Follows(sta_msgs', fw_asleep, m)
    BY <1>0, TailFollows DEF StaIInv, Sleep
  <2>4. UNCHANGED <<fw_stas, fw_asleep, sta_asleep, sta_list, sta_op>>
    BY DEF rwnx_apm_staloss_ind, fwVars
  <2> QED BY <2>1, <2>2, <2>3, <2>4 DEF StaIInv, Sleep, AddedAwake
<1>5. Probe'
  BY DEF rwnx_apm_staloss_ind, StaIInv, Probe, StaTypes, StaOpShape, Event, probeVars
<1> QED BY <1>1, <1>2, <1>3, <1>4, <1>5 DEF StaIInv

\* The firmware adds the station or does not.
LEMMA FwAddsKeeps ==
    ASSUME StaIInv, sta_upset = {}, FwAdds PROVE StaIInv'
<1>1. PICK m \in Stas : sta_op = <<"add", m>> /\ m \notin fw_stas /\ m \notin sta_list /\ m \notin sta_asleep
  BY DEF FwAdds, StaIInv, StaTypes, StaOpShape, Apart, StaAgrees, Sleep
<1>2. ASSUME NEW b \in BOOLEAN, fw_stas' = fw_stas \cup {m}, fw_asleep' = Put(fw_asleep, m, b),
             sta_op' = <<"added", m, b>>, UNCHANGED <<adding_sta, sta_upset>>
      PROVE  StaIInv'
  <2>1. StaTypes'
    BY <1>1, <1>2 DEF FwAdds, StaIInv, StaTypes, StaOpShape, LossShape, lossVars
  <2>2. StaAgrees'
    BY <1>1, <1>2 DEF FwAdds, StaIInv, StaAgrees, lossVars
  <2>3. Apart'
    BY <1>1, <1>2 DEF FwAdds, StaIInv, StaTypes, LossShape, StaAgrees, Apart, lossVars
  <2>4. Sleep'
    <3>1. (\A x : x # m => (x \in fw_asleep' <=> x \in fw_asleep)) /\ (b = FALSE => m \notin fw_asleep')
      BY <1>2 DEF Put
    <3>2. NoPs(sta_msgs, m) /\ Follows(sta_msgs, fw_asleep', m)
      BY <1>1 DEF StaIInv, Sleep, NoPs, Follows, Ps
    <3>3. \A x \in fw_stas : Follows(sta_msgs, fw_asleep', x)
      BY <1>1, <3>1, FollowsSame DEF StaIInv, Sleep
    <3>4. UNCHANGED <<sta_msgs, sta_list, sta_asleep>>
      BY DEF FwAdds
    <3>5. \A x \in sta_list : NoPs(sta_msgs, x) => (x \in sta_asleep <=> x \in fw_asleep')
      BY <1>1, <3>1 DEF StaIInv, Sleep
    <3>6. \A x \in Stas : AddedAwake(x)' => x \notin sta_asleep /\ x \notin fw_asleep'
      BY <1>1, <1>2, <3>1 DEF AddedAwake
    <3>7. \A x \in sta_asleep : x \in sta_list
      BY <1>1 DEF StaIInv, Sleep
    <3>8. (\A i \in 1 .. Len(sta_msgs) : sta_msgs[i][2] \in fw_stas') /\ \A x \in fw_stas' : Follows(sta_msgs, fw_asleep', x)
      BY <1>2, <3>2, <3>3 DEF StaIInv, Sleep
    <3> QED BY <1>2, <3>4, <3>5, <3>6, <3>7, <3>8 DEF Sleep
  <2>5. Probe'
    BY <1>1, <1>2 DEF FwAdds, StaIInv, Probe, probeVars
  <2> QED BY <2>1, <2>2, <2>3, <2>4, <2>5 DEF StaIInv
<1>3. ASSUME sta_op' = <<"idle">>, adding_sta' = FALSE, UNCHANGED <<fw_stas, fw_asleep, sta_upset>> PROVE StaIInv'
  <2>1. StaTypes'
    BY <1>3 DEF FwAdds, StaIInv, StaTypes, StaOpShape, LossShape, lossVars
  <2>2. StaAgrees'
    BY <1>1, <1>3 DEF FwAdds, StaIInv, StaAgrees, lossVars
  <2>3. Apart'
    BY <1>3 DEF Apart
  <2>4. Sleep'
    BY <1>1, <1>3 DEF FwAdds, StaIInv, Sleep, AddedAwake
  <2>5. Probe'
    BY <1>1, <1>3 DEF FwAdds, StaIInv, Probe, probeVars
  <2> QED BY <2>1, <2>2, <2>3, <2>4, <2>5 DEF StaIInv
<1>4. ASSUME Event(TRUE, "adding") PROVE StaIInv'
  BY <1>4 DEF Event, StaIInv
<1>5. sta_op[2] = m
  BY <1>1
<1> QED BY <1>2, <1>3, <1>4, <1>5 DEF FwAdds

\* The station goes on the list.
LEMMA AddEndsKeeps ==
    ASSUME StaIInv, sta_upset = {}, AddStationEnds PROVE StaIInv'
<1>1. PICK m \in Stas, b \in BOOLEAN : sta_op = <<"added", m, b>>
  BY DEF AddStationEnds, StaIInv, StaTypes, StaOpShape
<1>2. /\ sta_op[2] = m /\ sta_op[3] = b /\ sta_op' = <<"idle">> /\ sta_list' = sta_list \cup {m}
      /\ UNCHANGED <<sta_msgs, fw_stas, fw_asleep, loss_work>>
  BY <1>1 DEF AddStationEnds, lossVars, fwVars
<1>3. CASE b = TRUE /\ m \notin fw_asleep
  BY <1>2, <1>3 DEF AddStationEnds, Event, StaIInv
<1>4. CASE b = FALSE \/ m \in fw_asleep
  <2>1. StaTypes'
    <3>1. sta_op'[1] = "idle"
      BY <1>2
    <3>2. adding_sta' \in BOOLEAN /\ (adding_sta' = TRUE <=> sta_op'[1] \in {"add", "added"})
      BY <3>1 DEF AddStationEnds
    <3> QED BY <1>2, <3>2 DEF StaIInv, StaTypes, StaOpShape, LossShape
  <2>2. StaAgrees'
    BY <1>1, <1>2 DEF StaIInv, StaAgrees, Apart, StaTypes, LossShape
  <2>3. Apart'
    BY <1>2 DEF Apart
  <2>4. Sleep'
    <3>1. /\ \A x : x # m => (x \in sta_asleep' <=> x \in sta_asleep)
          /\ b = TRUE => m \in sta_asleep'
          /\ b = FALSE => (m \in sta_asleep' <=> m \in sta_asleep)
      BY <1>1, <1>2 DEF AddStationEnds, PsOnAdd, Put
    <3>2. NoPs(sta_msgs, m) => (m \in sta_asleep' <=> m \in fw_asleep)
      BY <1>1, <1>2, <1>4, <3>1 DEF StaIInv, Sleep, AddedAwake
    <3>3. \A x \in sta_list' : NoPs(sta_msgs, x) => (x \in sta_asleep' <=> x \in fw_asleep)
      BY <1>2, <3>1, <3>2 DEF StaIInv, Sleep
    <3>4. \A x \in sta_asleep' : x \in sta_list'
      BY <1>2, <3>1 DEF StaIInv, Sleep
    <3> QED BY <1>2, <3>3, <3>4 DEF StaIInv, Sleep, AddedAwake
  <2>5. Probe'
    BY <1>1, <1>2 DEF AddStationEnds, StaIInv, Probe, probeVars
  <2> QED BY <2>1, <2>2, <2>3, <2>4, <2>5 DEF StaIInv
<1> QED BY <1>3, <1>4

\* The firmware forgets a station about which nothing is in flight.
LEMMA Forgets ==
    ASSUME StaIInv, sta_upset = {}, NEW m \in Stas, Seen(m), m \notin sta_list, ~AddedAwake(m),
           fw_stas' = fw_stas \ {m}, fw_asleep' = fw_asleep \ {m},
           UNCHANGED sta_msgs
    PROVE  /\ \A i \in 1 .. Len(sta_msgs') : sta_msgs'[i][2] \in fw_stas'
           /\ \A x \in fw_stas' : Follows(sta_msgs', fw_asleep', x)
           /\ \A x \in sta_list : NoPs(sta_msgs', x) => (x \in sta_asleep <=> x \in fw_asleep')
           /\ \A x \in Stas : AddedAwake(x) /\ NoPs(sta_msgs', x) => (x \in sta_asleep <=> x \in fw_asleep')
<1>1. DOMAIN sta_msgs = 1 .. Len(sta_msgs)
  BY DEF StaIInv, StaTypes
<1>2. \A i \in 1 .. Len(sta_msgs) : sta_msgs[i][2] \in fw_stas'
  BY <1>1 DEF Seen, StaIInv, Sleep
<1>3. \A x \in fw_stas' : Follows(sta_msgs, fw_asleep', x)
  BY FollowsSame DEF StaIInv, Sleep
<1>4. \A x \in sta_list : NoPs(sta_msgs, x) => (x \in sta_asleep <=> x \in fw_asleep')
  BY DEF StaIInv, Sleep
<1>5. \A x \in Stas : AddedAwake(x) /\ NoPs(sta_msgs, x) => (x \in sta_asleep <=> x \in fw_asleep')
  BY DEF StaIInv, Sleep
<1> QED BY <1>2, <1>3, <1>4, <1>5

\* The deletion is confirmed; stop_ap goes on with the next station.
LEMMA DelEndsKeeps ==
    ASSUME StaIInv, sta_upset = {}, DelStationEnds PROVE StaIInv'
<1>1. PICK m \in Stas, b \in BOOLEAN : sta_op = <<"del", m, b>>
  BY DEF DelStationEnds, StaIInv, StaTypes, StaOpShape
<1>2. CASE Event(TRUE, "kept")
  BY <1>2 DEF Event, StaIInv
<1>3. CASE fw_stas' = fw_stas \ {m} /\ fw_asleep' = fw_asleep \ {m} /\ UNCHANGED sta_upset
  <2>1. Seen(m) /\ UNCHANGED <<sta_msgs, loss_work, adding_sta>> /\ m \notin sta_list /\ adding_sta # TRUE
    BY <1>1 DEF DelStationEnds, rwnx_send_me_sta_del, StaIInv, StaTypes, StaAgrees, lossVars
  <2>2. \/ sta_op' = <<"idle">> /\ UNCHANGED <<sta_list, sta_asleep>>
        \/ \E n \in sta_list : sta_list' = sta_list \ {n} /\ sta_asleep' = sta_asleep \ {n} /\ sta_op' = <<"del", n, TRUE>>
    BY DEF DelStationEnds, TakeOff
  <2> DEFINE n == sta_op'[2]
  <2>0. /\ sta_op'[1] \in {"idle", "del"}
        /\ sta_op'[1] = "idle" => UNCHANGED <<sta_list, sta_asleep>>
        /\ sta_op'[1] = "del" => n \in sta_list /\ sta_list' = sta_list \ {n} /\ sta_asleep' = sta_asleep \ {n}
    <3>1. CASE sta_op' = <<"idle">> /\ UNCHANGED <<sta_list, sta_asleep>>
      BY <3>1
    <3>2. ASSUME NEW k \in sta_list, sta_list' = sta_list \ {k}, sta_asleep' = sta_asleep \ {k}, sta_op' = <<"del", k, TRUE>>
          PROVE  sta_op'[1] = "del" /\ n = k
      BY <3>2
    <3> QED BY <2>2, <3>1, <3>2
  <2>3. StaTypes'
    <3>1. StaOpShape'
      <4>1. CASE sta_op' = <<"idle">>
        BY <4>1 DEF StaOpShape
      <4>2. ASSUME NEW k \in sta_list, sta_op' = <<"del", k, TRUE>> PROVE StaOpShape'
        <5>1. k \in Stas /\ TRUE \in BOOLEAN
          BY DEF StaIInv, StaAgrees, StaTypes
        <5> QED BY <4>2, <5>1 DEF StaOpShape
      <4> QED BY <2>2, <4>1, <4>2
    <3>2. adding_sta' \in BOOLEAN /\ ~(adding_sta' = TRUE)
      BY <2>1 DEF StaIInv, StaTypes
    <3> QED BY <1>3, <2>0, <2>1, <3>1, <3>2 DEF StaIInv, StaTypes, LossShape
  <2>4. StaAgrees'
    BY <1>1, <1>3, <2>0, <2>1 DEF StaIInv, StaAgrees, StaTypes, LossShape
  <2>5. Apart'
    BY <2>0 DEF Apart
  <2>6. Sleep'
    <3>1. /\ \A i \in 1 .. Len(sta_msgs') : sta_msgs'[i][2] \in fw_stas'
          /\ \A x \in fw_stas' : Follows(sta_msgs', fw_asleep', x)
          /\ \A x \in sta_list : NoPs(sta_msgs', x) => (x \in sta_asleep <=> x \in fw_asleep')
      BY <1>1, <1>3, <2>1, Forgets DEF AddedAwake
    <3>2. \A x \in sta_list' : x \in sta_list /\ (x \in sta_asleep' <=> x \in sta_asleep)
      BY <2>0
    <3>3. \A x \in sta_asleep' : x \in sta_list'
      BY <1>1, <2>0 DEF StaIInv, Sleep
    <3> QED BY <2>0, <3>1, <3>2, <3>3 DEF Sleep, AddedAwake
  <2>7. Probe'
    BY <1>1, <2>2 DEF DelStationEnds, StaIInv, Probe, probeVars
  <2> QED BY <2>3, <2>4, <2>5, <2>6, <2>7 DEF StaIInv
<1> QED BY <1>1, <1>2, <1>3 DEF DelStationEnds, rwnx_send_me_sta_del

\* The deletion of the lost station is confirmed.
LEMMA LossEndsKeeps ==
    ASSUME StaIInv, sta_upset = {}, StalossEnds PROVE StaIInv'
<1>1. PICK m \in Stas : loss_work = <<"del", m>>
  BY DEF StalossEnds, StaIInv, StaTypes, LossShape
<1>2. CASE Event(TRUE, "kept")
  BY <1>2 DEF Event, StaIInv
<1>3. CASE fw_stas' = fw_stas \ {m} /\ fw_asleep' = fw_asleep \ {m} /\ UNCHANGED sta_upset
  <2>1. /\ Seen(m) /\ UNCHANGED <<sta_msgs, sta_op, adding_sta, sta_list, sta_asleep>> /\ loss_work' = <<"idle">>
        /\ m \notin sta_list /\ ~(sta_op[1] = "added" /\ sta_op[2] = m) /\ ~(sta_op[1] = "del" /\ sta_op[2] = m)
    BY <1>1 DEF StalossEnds, rwnx_send_me_sta_del, StaIInv, StaAgrees, Apart
  <2>2. StaTypes'
    BY <1>3, <2>1 DEF StaIInv, StaTypes, StaOpShape, LossShape
  <2>3. StaAgrees'
    BY <1>1, <1>3, <2>1 DEF StaIInv, StaAgrees
  <2>4. Apart'
    BY <1>3, <2>1 DEF StaIInv, Apart
  <2>5. Sleep'
    <3>1. ~AddedAwake(m) /\ \A x : AddedAwake(x)' <=> AddedAwake(x)
      BY <2>1 DEF AddedAwake
    <3> QED BY <1>3, <2>1, <3>1, Forgets DEF StaIInv, Sleep
  <2>6. Probe'
    BY <2>1 DEF StalossEnds, StaIInv, Probe, probeVars
  <2> QED BY <2>2, <2>3, <2>4, <2>5, <2>6 DEF StaIInv
<1> QED BY <1>1, <1>2, <1>3 DEF StalossEnds, rwnx_send_me_sta_del

\* The power save state of a station changes: rwnx_rx_ps_change_ind.
LEMMA PsIndKeeps ==
    ASSUME StaIInv, sta_upset = {}, rwnx_rx_ps_change_ind PROVE StaIInv'
<1> DEFINE m == sta_msgs[1][2]  a == sta_msgs[1][3]
<1>1. /\ sta_msgs \in Seq(Msgs) /\ sta_msgs # <<>> /\ sta_msgs' = Tail(sta_msgs) /\ Head(sta_msgs) = sta_msgs[1]
      /\ sta_msgs' \in Seq(Msgs) /\ Len(sta_msgs') = Len(sta_msgs) - 1 /\ Len(sta_msgs) \in Nat /\ Len(sta_msgs) >= 1
      /\ \A i \in 1 .. Len(sta_msgs) - 1 : sta_msgs'[i] = sta_msgs[i + 1]
  BY TailFacts DEF rwnx_rx_ps_change_ind, StaIInv, StaTypes
<1>2. sta_msgs[1][1] = "ps" /\ m \in fw_stas /\ m \in Stas /\ a \in BOOLEAN
  BY <1>1, MsgParts DEF rwnx_rx_ps_change_ind, StaIInv, StaTypes, Sleep
<1>3. UNCHANGED <<sta_list, adding_sta, sta_op, loss_work, probeVars, fw_stas, fw_asleep>>
  BY DEF rwnx_rx_ps_change_ind, lossVars, fwVars
<1>4. CASE adding_sta = TRUE /\ m \notin sta_list \cup {sta_op[2]}
  BY <1>1, <1>4 DEF rwnx_rx_ps_change_ind, Event, StaIInv
<1>5. CASE ~(adding_sta = TRUE /\ m \notin sta_list \cup {sta_op[2]})
  <2>1. StaTypes'
    BY <1>1, <1>3 DEF StaIInv, StaTypes, StaOpShape, LossShape
  <2>2. StaAgrees'
    <3>1. sta_upset = {} => StaAgrees
      BY DEF StaIInv
    <3> QED BY <1>3, <3>1 DEF StaAgrees
  <2>3. Apart'
    BY <1>3 DEF StaIInv, Apart
  <2>4. Probe'
    BY <1>3 DEF StaIInv, Probe, probeVars
  <2>5. Sleep'
    <3> DEFINE known == m \in sta_list \/ (sta_op[1] = "added" /\ sta_op[2] = m)
    <3>1. /\ \A x : x # m => (x \in sta_asleep' <=> x \in sta_asleep)
          /\ known => (m \in sta_asleep' <=> a = TRUE)
          /\ ~known => sta_asleep' = sta_asleep
      <4>1. adding_sta \in BOOLEAN /\ (adding_sta = TRUE <=> sta_op[1] \in {"add", "added"})
        BY DEF StaIInv, StaTypes
      <4>2. sta_op[1] = "add" => sta_op[2] # m
        BY <1>2 DEF StaIInv, Apart
      <4>3. (m \in sta_list \/ adding_sta = TRUE) <=> known
        BY <1>5, <4>1, <4>2
      <4>4. sta_asleep' = IF m \in sta_list \/ adding_sta = TRUE THEN Put(sta_asleep, m, a) ELSE sta_asleep
        BY <1>1, <4>1 DEF rwnx_rx_ps_change_ind
      <4>5. a = TRUE \/ a = FALSE
        BY <1>2
      <4> HIDE DEF m, a, known
      <4> QED BY <4>3, <4>4, <4>5 DEF Put
    <3>2. \A x : NoPs(sta_msgs', x) /\ x # m => NoPs(sta_msgs, x)
      BY <1>1, TailNo DEF Ps
    <3>3. NoPs(sta_msgs', m) => (a = TRUE <=> m \in fw_asleep)
      <4>1. Follows(sta_msgs, fw_asleep, m) /\ Ps(sta_msgs, 1, m)
        BY <1>2 DEF StaIInv, Sleep, Ps
      <4> QED BY <1>1, <4>1, TailLast
    <3>4. \A i \in 1 .. Len(sta_msgs') : sta_msgs'[i][2] \in fw_stas
      BY <1>1 DEF StaIInv, Sleep
    <3>5. \A x \in fw_stas : Follows(sta_msgs', fw_asleep, x)
      BY <1>1, TailFollows DEF StaIInv, Sleep
    <3> HIDE DEF m, a
    <3>6. \A x \in sta_list : NoPs(sta_msgs', x) => (x \in sta_asleep' <=> x \in fw_asleep)
      BY <3>1, <3>2, <3>3 DEF StaIInv, Sleep
    <3>7. \A x \in Stas : AddedAwake(x) /\ NoPs(sta_msgs', x) => (x \in sta_asleep' <=> x \in fw_asleep)
      BY <3>1, <3>2, <3>3 DEF StaIInv, Sleep, AddedAwake
    <3>8. \A x \in sta_asleep' : x \in sta_list \/ (sta_op[1] = "added" /\ sta_op[2] = x)
      BY <3>1 DEF StaIInv, Sleep
    <3> QED BY <1>3, <3>4, <3>5, <3>6, <3>7, <3>8 DEF Sleep, AddedAwake
  <2> QED BY <2>1, <2>2, <2>3, <2>4, <2>5 DEF StaIInv
<1> QED BY <1>4, <1>5

\* A station falls asleep or wakes up.
LEMMA FwPsKeeps ==
    ASSUME StaIInv, sta_upset = {}, NEW m \in Stas, FwPs(m) PROVE StaIInv'
<1> DEFINE b == m \notin fw_asleep
<1>1. /\ m \in fw_stas /\ sta_msgs \in Seq(Msgs) /\ <<"ps", m, b>> \in Msgs
      /\ sta_msgs' = Append(sta_msgs, <<"ps", m, b>>)
  <2>1. b \in BOOLEAN
    OBVIOUS
  <2>2. <<"ps", m, b>> \in Msgs
    BY <2>1, PsMsg
  <2>3. m \in fw_stas /\ sta_msgs \in Seq(Msgs) /\ sta_msgs' = Append(sta_msgs, <<"ps", m, b>>)
    BY DEF FwPs, StaIInv, StaTypes
  <2> QED BY <2>2, <2>3
<1>2. UNCHANGED <<sta_list, sta_asleep, adding_sta, sta_op, loss_work, probeVars, fw_stas>>
  BY DEF FwPs, lossVars
<1>3. (m \in fw_asleep' <=> b) /\ \A x : x # m => (x \in fw_asleep' <=> x \in fw_asleep)
  BY DEF FwPs, Put
<1>4. /\ sta_msgs' \in Seq(Msgs) /\ Len(sta_msgs) \in Nat /\ Len(sta_msgs') = Len(sta_msgs) + 1
      /\ \A i \in 1 .. Len(sta_msgs) : sta_msgs'[i] = sta_msgs[i]
      /\ sta_msgs'[Len(sta_msgs) + 1] = <<"ps", m, b>>
  BY <1>1, AppendFacts
<1>5. StaTypes'
  BY <1>2, <1>4 DEF StaIInv, StaTypes, StaOpShape, LossShape
<1>6. StaAgrees'
  BY <1>2 DEF StaIInv, StaAgrees
<1>7. Apart'
  BY <1>2 DEF StaIInv, Apart
<1>8. Probe'
  BY <1>2 DEF StaIInv, Probe, probeVars
<1>9. Sleep'
  <2>1. Follows(sta_msgs', fw_asleep', m) /\ ~NoPs(sta_msgs', m)
    <3> DEFINE x == <<"ps", m, b>>
    <3>1. x[1] = "ps" /\ x[2] = m
      OBVIOUS
    <3>2. x[3] = TRUE <=> m \in fw_asleep'
      BY <1>3
    <3> HIDE DEF x
    <3> QED BY <1>1, <3>1, <3>2, AppendOwn DEF x
  <2>2. \A x : x # m => (Follows(sta_msgs, fw_asleep, x) => Follows(sta_msgs', fw_asleep', x)) /\ (NoPs(sta_msgs', x) => NoPs(sta_msgs, x))
    <3>1. ASSUME NEW x, x # m
          PROVE  (Follows(sta_msgs, fw_asleep, x) => Follows(sta_msgs', fw_asleep', x)) /\ (NoPs(sta_msgs', x) => NoPs(sta_msgs, x))
      <4>1. ~(<<"ps", m, b>>[1] = "ps" /\ <<"ps", m, b>>[2] = x)
        BY <3>1
      <4>2. Follows(sta_msgs, fw_asleep, x) => Follows(sta_msgs, fw_asleep', x)
        BY <1>3, <3>1, FollowsSame
      <4> QED BY <1>1, <4>1, <4>2, AppendOther
    <3> QED BY <3>1
  <2>3. \A i \in 1 .. Len(sta_msgs') : sta_msgs'[i][2] \in fw_stas
    BY <1>1, <1>4 DEF StaIInv, Sleep
  <2>4. \A x \in fw_stas : Follows(sta_msgs', fw_asleep', x)
    BY <2>1, <2>2 DEF StaIInv, Sleep
  <2>5. \A x \in sta_list : NoPs(sta_msgs', x) => (x \in sta_asleep <=> x \in fw_asleep')
    BY <1>3, <2>1, <2>2 DEF StaIInv, Sleep
  <2>6. \A x \in Stas : AddedAwake(x) /\ NoPs(sta_msgs', x) => (x \in sta_asleep <=> x \in fw_asleep')
    BY <1>3, <2>1, <2>2 DEF StaIInv, Sleep
  <2> QED BY <1>2, <2>3, <2>4, <2>5, <2>6 DEF StaIInv, Sleep, AddedAwake
<1> QED BY <1>5, <1>6, <1>7, <1>8, <1>9 DEF StaIInv

\* The firmware loses a station.
LEMMA FwLosesKeeps ==
    ASSUME StaIInv, sta_upset = {}, NEW m \in Stas, FwLoses(m) PROVE StaIInv'
<1> DEFINE x == <<"loss", m>>
<1>1. /\ m \in fw_stas /\ sta_msgs \in Seq(Msgs) /\ x \in Msgs /\ sta_msgs' = Append(sta_msgs, x) /\ x[1] = "loss" /\ x[2] = m
  BY DEF FwLoses, StaIInv, StaTypes, Msgs
<1> HIDE DEF x
<1>2. UNCHANGED <<sta_list, sta_asleep, adding_sta, sta_op, loss_work, probeVars, fw_stas, fw_asleep>>
  BY DEF FwLoses, lossVars
<1>3. /\ sta_msgs' \in Seq(Msgs) /\ Len(sta_msgs) \in Nat /\ Len(sta_msgs') = Len(sta_msgs) + 1
      /\ \A i \in 1 .. Len(sta_msgs) : sta_msgs'[i] = sta_msgs[i]
      /\ sta_msgs'[Len(sta_msgs) + 1] = x
  BY <1>1, AppendFacts
<1>4. StaTypes'
  BY <1>2, <1>3 DEF StaIInv, StaTypes, StaOpShape, LossShape
<1>5. StaAgrees'
  BY <1>2 DEF StaIInv, StaAgrees
<1>6. Apart' /\ Probe'
  BY <1>2 DEF StaIInv, Apart, Probe, probeVars
<1>7. Sleep'
  <2>1. \A y : (Follows(sta_msgs, fw_asleep, y) => Follows(sta_msgs', fw_asleep, y)) /\ (NoPs(sta_msgs', y) => NoPs(sta_msgs, y))
    BY <1>1, AppendOther
  <2>2. \A i \in 1 .. Len(sta_msgs') : sta_msgs'[i][2] \in fw_stas
    BY <1>1, <1>3 DEF StaIInv, Sleep
  <2> QED BY <1>2, <2>1, <2>2 DEF StaIInv, Sleep, AddedAwake
<1> QED BY <1>4, <1>5, <1>6, <1>7 DEF StaIInv

\* Every step keeps the invariant.
LEMMA StaStep == ASSUME StaIInv, [StaNext]_staVars PROVE StaIInv'
<1>1. CASE UNCHANGED staVars
  BY <1>1 DEF staVars, lossVars, probeVars, fwVars, StaIInv, StaTypes, StaOpShape, LossShape, StaAgrees, Apart, Sleep, AddedAwake, Probe
<1>2. CASE StaNext
  <2>1. sta_upset = {}
    BY <1>2 DEF StaNext
  <2>2. ASSUME NEW m \in Stas,
               \/ rwnx_cfg80211_add_station(m) \/ FwPs(m) \/ FwLoses(m) \/ rwnx_cfg80211_probe_client(m)
               \/ \E all \in BOOLEAN : rwnx_cfg80211_del_station_compat(m, all)
        PROVE  StaIInv'
    BY <2>1, <2>2, AddKeeps, FwPsKeeps, FwLosesKeeps, ProbeKeeps, DelKeeps
  <2>3. CASE FwAdds \/ AddStationEnds \/ DelStationEnds
    BY <2>1, <2>3, FwAddsKeeps, AddEndsKeeps, DelEndsKeeps
  <2>4. CASE rwnx_rx_ps_change_ind \/ rwnx_apm_staloss_ind
    BY <2>1, <2>4, PsIndKeeps, LossIndKeeps
  <2>5. CASE apm_staloss_work_process \/ StalossEnds
    BY <2>1, <2>5, LossWorkKeeps, LossEndsKeeps
  <2>6. CASE ReadCookie \/ apm_probe_sta_work_process
    BY <2>1, <2>6, CookieKeeps, AnswerKeeps
  <2> QED BY <1>2, <2>2, <2>3, <2>4, <2>5, <2>6 DEF StaNext
<1> QED BY <1>1, <1>2

\* In every reachable state without one of the events the firmware's stations are the
\* driver's, the driver knows which of them sleep once it has read the indications, and
\* the probe that is waited for is the one that will be answered
\* (rwnx_cfg80211_add_station, rwnx_cfg80211_del_station_compat,
\* rwnx_rx_ps_change_ind, apm_staloss_work_process, rwnx_cfg80211_probe_client).
THEOREM StaIsSound == StaSpec => []StaSound
<1>1. StaInit => StaIInv
  BY InitSta
<1>2. StaIInv /\ [StaNext]_staVars => StaIInv'
  BY StaStep
<1>3. StaIInv => StaSound
  <2>1. ASSUME StaIInv PROVE StaAgrees /\ ProbeIsOwn
    BY <2>1 DEF StaIInv, StaAgrees, ProbeIsOwn, Probe
  <2>2. ASSUME StaIInv, sta_upset = {}, sta_msgs = <<>>, NEW m \in sta_list PROVE m \in sta_asleep <=> m \in fw_asleep
    <3>1. NoPs(sta_msgs, m)
      BY <2>2 DEF NoPs
    <3> QED BY <2>2, <3>1 DEF StaIInv, Sleep
  <2> QED BY <2>1, <2>2 DEF StaSound, PsAgrees
<1> QED BY <1>1, <1>2, <1>3, PTL DEF StaSpec

-----------------------------------------------------------------------------
(* Remain on channel                                                       *)

Elements == [vif : RocVifs, chan : RocChans, mgmt : BOOLEAN, on_chan : BOOLEAN]

\* None is neither an element nor a cookie.
Distinct == MaxCookie \in Nat \ {0} /\ None \notin Nat /\ None \notin Elements

RocOpShape ==
    \/ roc_op = <<"idle">>
    \/ \E v \in RocVifs : roc_op = <<"roc", v>>
    \/ \E v \in RocVifs, n \in Nat : roc_op = <<"cookie", v, n>>

RocTypes ==
    /\ roc_elem \in Elements \cup {None}
    /\ roc_cookie_cnt \in Nat
    /\ roc_ready \in Nat \cup {None}
    /\ roc_given \in Nat \cup {None}
    /\ offchan_on \in BOOLEAN
    /\ RocOpShape

\* Without an element nothing is under way; with one, the firmware has yet to be
\* asked, is asked, is there, or has left, and what is in flight says so.
Stages ==
    IF roc_elem = None
    THEN roc_msgs = <<>> /\ fw_roc = "no" /\ roc_op[1] # "roc"
    ELSE \/ roc_op = <<"roc", roc_elem.vif>> /\ fw_roc = "no" /\ roc_msgs = <<>> /\ roc_elem.on_chan = FALSE
         \/ roc_op[1] # "roc" /\ fw_roc = "asked" /\ roc_msgs = <<>>
         \/ roc_op[1] # "roc" /\ fw_roc = "on" /\ (roc_msgs = <<>> \/ roc_msgs = <<"switch">>)
         \/ roc_op[1] # "roc" /\ fw_roc = "no" /\ (roc_msgs = <<"exp">> \/ roc_msgs = <<"switch", "exp">>)

\* What cfg80211 knows, with the reason why the end of the stay will be told.
Told ==
    /\ offchan = IF roc_elem = None THEN {} ELSE {roc_elem.vif}
    /\ offchan_on = TRUE => roc_elem # None /\ roc_elem.on_chan = TRUE
    /\ roc_ready # None => /\ roc_elem # None /\ roc_elem.on_chan = TRUE /\ roc_elem.mgmt = FALSE
                           /\ roc_ready = roc_cookie_cnt
    /\ roc_op # <<"idle">> => roc_given = None
    /\ roc_elem # None /\ roc_given # None => roc_given = roc_cookie_cnt

\* The inductive invariant of the stays; after one of the events nothing is claimed.
RocIInv == roc_upset = {} => RocTypes /\ Stages /\ Told

KeyTypes ==
    /\ DOMAIN fw_keys = HwKeys /\ DOMAIN key_hw = KeySlots
    /\ \A h \in HwKeys : fw_keys[h] # None => fw_keys[h] \in KeySlots

\* The inductive invariant of the keys.
KeyIInv == KeyTypes /\ KeysAgree

-----------------------------------------------------------------------------

\* What is in flight, message by message.
LEMMA Flights ==
    /\ Append(<<>>, "exp") = <<"exp">> /\ Append(<<>>, "switch") = <<"switch">>
    /\ Append(<<"switch">>, "exp") = <<"switch", "exp">>
    /\ Head(<<"switch">>) = "switch" /\ Head(<<"exp">>) = "exp" /\ Head(<<"switch", "exp">>) = "switch"
    /\ Tail(<<"switch">>) = <<>> /\ Tail(<<"exp">>) = <<>> /\ Tail(<<"switch", "exp">>) = <<"exp">>
<1>0. Append(<<>>, "exp") = <<"exp">> /\ Append(<<>>, "switch") = <<"switch">>
  OBVIOUS
<1>1. Append(<<"switch">>, "exp") = <<"switch", "exp">>
  <2> DEFINE q == <<"switch">>  S == {"switch", "exp"}  a == Append(q, "exp")  b == <<"switch", "exp">>
  <2>1. q \in Seq(S) /\ "exp" \in S /\ b \in Seq(S) /\ Len(q) = 1 /\ Len(b) = 2
    OBVIOUS
  <2>2. a \in Seq(S) /\ Len(a) = 2 /\ a[1] = "switch" /\ a[2] = "exp"
    BY <2>1, AppendProperties
  <2>3. \A i \in 1 .. Len(a) : a[i] = b[i]
    BY <2>2
  <2> HIDE DEF a, b, S
  <2>4. a = b
    BY <2>1, <2>2, <2>3, SeqEqual
  <2> QED BY <2>4 DEF a, b
<1>2. /\ Head(<<"switch">>) = "switch" /\ Head(<<"exp">>) = "exp" /\ Head(<<"switch", "exp">>) = "switch"
  OBVIOUS
<1>3. Tail(<<"switch">>) = <<>> /\ Tail(<<"exp">>) = <<>>
  OBVIOUS
<1>4. Tail(<<"switch", "exp">>) = <<"exp">>
  OBVIOUS
<1> QED BY <1>0, <1>1, <1>2, <1>3, <1>4

\* Nothing is under way in the beginning.
LEMMA InitRoc == ASSUME Distinct, RocInit PROVE RocIInv
  BY DEF RocInit, Distinct, RocIInv, RocTypes, RocOpShape, Stages, Told, Elements

\* A new stay begins: rwnx_cfg80211_remain_on_channel_.
LEMMA RemainKeeps ==
    ASSUME Distinct, RocIInv, roc_upset = {}, NEW v \in RocVifs, NEW c \in RocChans, NEW g \in BOOLEAN,
           rwnx_cfg80211_remain_on_channel_(v, c, g)
    PROVE  RocIInv'
<1>1. /\ roc_elem' \in Elements /\ roc_elem' # None /\ roc_elem'.vif = v /\ roc_elem'.on_chan = FALSE
  <2>1. roc_elem' = [vif |-> v, chan |-> c, mgmt |-> g, on_chan |-> FALSE]
    BY DEF rwnx_cfg80211_remain_on_channel_
  <2>2. [vif |-> v, chan |-> c, mgmt |-> g, on_chan |-> FALSE] \in Elements
    BY Zenon DEF Elements
  <2>3. roc_elem'.vif = v /\ roc_elem'.on_chan = FALSE
    BY <2>1
  <2> QED BY <2>1, <2>2, <2>3 DEF Distinct, Elements
<1>2. roc_op' = <<"roc", v>> /\ RocTypes'
  BY <1>1 DEF rwnx_cfg80211_remain_on_channel_, RocIInv, RocTypes, RocOpShape
<1>3. Stages'
  BY <1>1, <1>2 DEF rwnx_cfg80211_remain_on_channel_, RocIInv, Stages
<1>4. Told'
  BY <1>1, <1>2 DEF rwnx_cfg80211_remain_on_channel_, RocIInv, Told
<1> QED BY <1>2, <1>3, <1>4 DEF RocIInv

\* The firmware accepts or refuses the stay, or the request times out.
LEMMA ConfirmedKeeps ==
    ASSUME Distinct, RocIInv, roc_upset = {}, RocConfirmed PROVE RocIInv'
<1>1. roc_elem # None /\ roc_elem \in Elements /\ roc_op = <<"roc", roc_elem.vif>> /\ roc_msgs = <<>>
  BY DEF RocIInv, RocTypes, Stages, RocConfirmed
<1>2. CASE fw_roc' = "asked" /\ roc_op' = <<"cookie", roc_op[2], roc_cookie_cnt>> /\ UNCHANGED <<roc_elem, offchan, roc_upset>>
  <2>1. RocTypes'
    BY <1>1, <1>2 DEF RocConfirmed, RocIInv, RocTypes, RocOpShape, Elements
  <2>2. Stages'
    BY <1>1, <1>2 DEF RocConfirmed, RocIInv, Stages
  <2>3. Told'
    BY <1>1, <1>2 DEF RocConfirmed, RocIInv, Told
  <2> QED BY <2>1, <2>2, <2>3 DEF RocIInv
<1>3. CASE roc_elem' = None /\ offchan' = offchan \ {roc_op[2]} /\ roc_op' = <<"idle">> /\ UNCHANGED <<fw_roc, roc_upset>>
  <2>1. RocTypes'
    BY <1>1, <1>3 DEF RocConfirmed, RocIInv, RocTypes, RocOpShape
  <2>2. Stages'
    BY <1>1, <1>3 DEF RocConfirmed, RocIInv, Stages
  <2>3. offchan' = {} /\ roc_ready = None /\ offchan_on # TRUE
    BY <1>1, <1>3 DEF RocConfirmed, RocIInv, Told, Stages
  <2>4. Told'
    BY <1>1, <1>3, <2>3 DEF RocConfirmed, RocIInv, Told
  <2> QED BY <2>1, <2>2, <2>4 DEF RocIInv
<1>4. CASE Broken("timeout")
  BY <1>4 DEF Broken, RocIInv
<1> QED BY <1>2, <1>3, <1>4 DEF RocConfirmed

\* The caller reads the cookie; if the stay is over by then the event is raised.
LEMMA ReadCookieKeeps ==
    ASSUME Distinct, RocIInv, roc_upset = {}, ReadRocCookie PROVE RocIInv'
<1>1. RocTypes'
  BY DEF ReadRocCookie, RocIInv, RocTypes, RocOpShape
<1>2. Stages'
  BY DEF ReadRocCookie, RocIInv, Stages, RocTypes, RocOpShape
<1>3. Told'
  BY DEF ReadRocCookie, RocIInv, Told, RocTypes, RocOpShape
<1> QED BY <1>1, <1>2, <1>3 DEF RocIInv

\* User space ends the stay.
LEMMA CancelKeeps ==
    ASSUME Distinct, RocIInv, roc_upset = {}, rwnx_cfg80211_cancel_remain_on_channel PROVE RocIInv'
<1>1. RocTypes'
  BY DEF rwnx_cfg80211_cancel_remain_on_channel, RocIInv, RocTypes, RocOpShape
<1>2. roc_msgs' = <<"exp">> \/ roc_msgs' = <<"switch", "exp">>
  BY Flights DEF rwnx_cfg80211_cancel_remain_on_channel, RocIInv, RocIdle, Stages
<1>3. Stages'
  BY <1>2 DEF rwnx_cfg80211_cancel_remain_on_channel, RocIInv, Stages
<1>4. Told'
  BY DEF rwnx_cfg80211_cancel_remain_on_channel, RocIInv, Told
<1> QED BY <1>1, <1>3, <1>4 DEF RocIInv

\* The firmware is on the channel: rwnx_rx_chan_switch_ind.
LEMMA SwitchKeeps ==
    ASSUME Distinct, RocIInv, roc_upset = {}, rwnx_rx_chan_switch_ind_roc PROVE RocIInv'
<1>1. roc_elem # None /\ roc_elem \in Elements /\ roc_op[1] # "roc"
  BY DEF rwnx_rx_chan_switch_ind_roc, RocIInv, RocTypes, Stages
<1>2. \/ fw_roc = "on" /\ roc_msgs' = <<>>
      \/ fw_roc = "no" /\ roc_msgs' = <<"exp">>
  BY <1>1, Flights DEF rwnx_rx_chan_switch_ind_roc, RocIInv, Stages
<1>3. /\ roc_elem' \in Elements /\ roc_elem'.vif = roc_elem.vif /\ roc_elem'.on_chan = TRUE
      /\ roc_elem'.mgmt = roc_elem.mgmt
  BY <1>1 DEF rwnx_rx_chan_switch_ind_roc, Elements
<1>4. roc_elem' # None
  BY <1>3 DEF Distinct, Elements
<1>5. RocTypes'
  BY <1>1, <1>3 DEF rwnx_rx_chan_switch_ind_roc, RocIInv, RocTypes, RocOpShape
<1>6. Stages'
  BY <1>1, <1>2, <1>4 DEF rwnx_rx_chan_switch_ind_roc, Stages
<1>7. roc_elem.mgmt \in BOOLEAN
  BY <1>1 DEF Elements
<1>8. Told'
  BY <1>1, <1>3, <1>4, <1>7 DEF rwnx_rx_chan_switch_ind_roc, RocIInv, Told
<1> QED BY <1>5, <1>6, <1>8 DEF RocIInv, rwnx_rx_chan_switch_ind_roc

\* The time is over: rwnx_rx_remain_on_channel_exp_ind.
LEMMA ExpiryKeeps ==
    ASSUME Distinct, RocIInv, roc_upset = {}, rwnx_rx_remain_on_channel_exp_ind PROVE RocIInv'
<1>1. roc_elem # None /\ roc_elem \in Elements /\ roc_op[1] # "roc" /\ fw_roc = "no" /\ roc_msgs' = <<>>
  <2>1. roc_msgs # <<>> /\ Head(roc_msgs) = "exp" /\ roc_msgs' = Tail(roc_msgs)
    BY DEF rwnx_rx_remain_on_channel_exp_ind
  <2>2. roc_elem # None /\ roc_elem \in Elements
    BY <2>1 DEF RocIInv, RocTypes, Stages
  <2>3. roc_msgs # <<"switch">> /\ roc_msgs # <<"switch", "exp">>
    BY <2>1, Flights
  <2>4. roc_op[1] # "roc" /\ fw_roc = "no" /\ roc_msgs = <<"exp">>
    BY <2>1, <2>2, <2>3 DEF RocIInv, Stages
  <2>5. Tail(roc_msgs) = <<>>
    BY <2>4, Flights
  <2> QED BY <2>1, <2>2, <2>4, <2>5
<1>2. roc_elem.mgmt \in BOOLEAN /\ roc_elem.on_chan \in BOOLEAN
  BY <1>1 DEF Elements
<1>3. roc_elem' = None /\ roc_ready' = None /\ offchan' = {} /\ offchan_on' = FALSE
  BY <1>1, <1>2 DEF rwnx_rx_remain_on_channel_exp_ind, TellsExpired, RocIInv, Told
<1>4. roc_cookie_cnt' \in Nat
  BY <1>1 DEF rwnx_rx_remain_on_channel_exp_ind, NextCookie, RocIInv, RocTypes
<1>5. RocTypes'
  BY <1>3, <1>4 DEF rwnx_rx_remain_on_channel_exp_ind, RocIInv, RocTypes, RocOpShape
<1>6. Stages'
  BY <1>1, <1>3 DEF rwnx_rx_remain_on_channel_exp_ind, Stages
<1>7. Told'
  BY <1>3 DEF rwnx_rx_remain_on_channel_exp_ind, RocIInv, Told
<1> QED BY <1>5, <1>6, <1>7 DEF RocIInv

\* The firmware reaches and leaves the channel.
LEMMA FwKeeps ==
    ASSUME Distinct, RocIInv, roc_upset = {}, FwRoc PROVE RocIInv'
<1>1. roc_elem # None /\ roc_op[1] # "roc"
  BY DEF FwRoc, RocIInv, Stages
<1>2. \/ fw_roc' = "on" /\ roc_msgs' = <<"switch">>
      \/ fw_roc' = "no" /\ (roc_msgs' = <<"exp">> \/ roc_msgs' = <<"switch", "exp">>)
  BY Flights DEF FwRoc, RocIInv, Stages
<1>3. RocTypes'
  BY DEF FwRoc, RocIInv, RocTypes, RocOpShape
<1>4. Stages'
  BY <1>1, <1>2 DEF FwRoc, Stages
<1>5. Told'
  BY DEF FwRoc, RocIInv, Told
<1> QED BY <1>3, <1>4, <1>5 DEF RocIInv

\* The keys and stays off channel do not touch each other.
LEMMA RocUntouched ==
    ASSUME RocIInv, roc_upset = {},
           UNCHANGED <<roc_elem, roc_cookie_cnt, offchan, offchan_on, roc_op, roc_ready, roc_given, fw_roc, roc_msgs>>
    PROVE  RocIInv'
  BY DEF RocIInv, RocTypes, RocOpShape, Stages, Told

\* The firmware's number of a new key is stored.
LEMMA AddKeyKeeps ==
    ASSUME KeyIInv, roc_upset = {}, NEW k \in KeySlots, rwnx_cfg80211_add_key(k) PROVE KeyIInv'
<1>1. PICK h \in HwKeys : fw_keys[h] = None /\ fw_keys' = [fw_keys EXCEPT ![h] = k] /\ key_hw' = [key_hw EXCEPT ![k] = h]
  BY DEF rwnx_cfg80211_add_key, StoreKey
<1>2. KeyTypes'
  BY <1>1 DEF KeyIInv, KeyTypes
<1>3. CASE \E g \in HwKeys : fw_keys[g] = k
  BY <1>2, <1>3 DEF rwnx_cfg80211_add_key, Broken, KeyIInv, KeysAgree
<1>4. CASE ~\E g \in HwKeys : fw_keys[g] = k
  <2>1. ASSUME NEW g \in HwKeys, fw_keys'[g] # None PROVE key_hw'[fw_keys'[g]] = g
    BY <1>1, <1>4, <2>1 DEF KeyIInv, KeyTypes, KeysAgree
  <2> QED BY <1>2, <2>1 DEF KeyIInv, KeysAgree
<1> QED BY <1>3, <1>4

\* A key is deleted under the number stored.
LEMMA DelKeyKeeps ==
    ASSUME KeyIInv, roc_upset = {}, NEW k \in KeySlots, rwnx_cfg80211_del_key(k) PROVE KeyIInv'
<1>1. /\ fw_keys' = [fw_keys EXCEPT ![key_hw[k]] = None] /\ key_hw' = [key_hw EXCEPT ![k] = 0]
  BY DEF rwnx_cfg80211_del_key, ForgetKey
<1>2. KeyTypes'
  BY <1>1 DEF KeyIInv, KeyTypes
<1>3. ASSUME NEW g \in HwKeys, fw_keys'[g] # None PROVE key_hw'[fw_keys'[g]] = g
  BY <1>1, <1>3 DEF KeyIInv, KeyTypes, KeysAgree
<1> QED BY <1>2, <1>3 DEF KeyIInv, KeysAgree

\* What does not touch the keys keeps them.
LEMMA KeysUntouched ==
    ASSUME KeyIInv, roc_upset = {}, UNCHANGED <<key_hw, fw_keys>> PROVE KeyIInv'
  BY DEF KeyIInv, KeyTypes, KeysAgree

-----------------------------------------------------------------------------

\* Every step keeps both invariants.
LEMMA RocStep == ASSUME Distinct, RocIInv, KeyIInv, [RocNext]_rocVars PROVE RocIInv' /\ KeyIInv'
<1>1. CASE UNCHANGED rocVars
  BY <1>1 DEF rocVars, keyVars, RocIInv, RocTypes, RocOpShape, Stages, Told, KeyIInv, KeyTypes, KeysAgree
<1>2. CASE RocNext
  <2>1. roc_upset = {}
    BY <1>2 DEF RocNext
  <2>2. ASSUME NEW v \in RocVifs, NEW c \in RocChans, NEW g \in BOOLEAN, rwnx_cfg80211_remain_on_channel_(v, c, g)
        PROVE  RocIInv' /\ KeyIInv'
    BY <2>1, <2>2, RemainKeeps, KeysUntouched DEF rwnx_cfg80211_remain_on_channel_, keyVars
  <2>3. ASSUME NEW v \in RocVifs, NEW c \in RocChans, rwnx_cfg80211_mgmt_tx(v, c)
        PROVE  RocIInv' /\ KeyIInv'
    <3>1. CASE roc_elem = None
      BY <2>2, <2>3, <3>1 DEF rwnx_cfg80211_mgmt_tx
    <3>2. CASE roc_elem # None
      BY <2>1, <2>3, <3>2, RocUntouched, KeysUntouched DEF rwnx_cfg80211_mgmt_tx, rocVars, keyVars
    <3> QED BY <3>1, <3>2
  <2>4. CASE RocConfirmed
    BY <2>1, <2>4, ConfirmedKeeps, KeysUntouched DEF RocConfirmed, keyVars
  <2>5. CASE ReadRocCookie
    BY <2>1, <2>5, ReadCookieKeeps, KeysUntouched DEF ReadRocCookie, keyVars
  <2>6. CASE rwnx_cfg80211_cancel_remain_on_channel
    BY <2>1, <2>6, CancelKeeps, KeysUntouched DEF rwnx_cfg80211_cancel_remain_on_channel, keyVars
  <2>7. CASE CloseForgets
    <3>1. RocIInv'
      BY <2>7 DEF CloseForgets, Broken, RocIInv
    <3> QED BY <2>1, <2>7, <3>1, KeysUntouched DEF CloseForgets, keyVars
  <2>8. CASE rwnx_rx_chan_switch_ind_roc
    BY <2>1, <2>8, SwitchKeeps, KeysUntouched DEF rwnx_rx_chan_switch_ind_roc, keyVars
  <2>9. CASE rwnx_rx_remain_on_channel_exp_ind
    BY <2>1, <2>9, ExpiryKeeps, KeysUntouched DEF rwnx_rx_remain_on_channel_exp_ind, keyVars
  <2>10. CASE FwRoc
    BY <2>1, <2>10, FwKeeps, KeysUntouched DEF FwRoc, keyVars
  <2>11. ASSUME NEW k \in KeySlots, rwnx_cfg80211_add_key(k) PROVE RocIInv' /\ KeyIInv'
    BY <2>1, <2>11, AddKeyKeeps, RocUntouched DEF rwnx_cfg80211_add_key
  <2>12. ASSUME NEW k \in KeySlots, rwnx_cfg80211_del_key(k) PROVE RocIInv' /\ KeyIInv'
    BY <2>1, <2>12, DelKeyKeeps, RocUntouched DEF rwnx_cfg80211_del_key
  <2>13. CASE DisconnectLetsKeysGo
    BY <2>1, <2>13, RocUntouched, KeysUntouched DEF DisconnectLetsKeysGo
  <2> QED
    BY <1>2, <2>2, <2>3, <2>4, <2>5, <2>6, <2>7, <2>8, <2>9, <2>10, <2>11, <2>12, <2>13 DEF RocNext
<1> QED BY <1>1, <1>2

\* In every reachable state the off-channel queue, the two indications to cfg80211 and
\* the cookie belong to one and the same stay, and the driver's key numbers are the
\* firmware's (rwnx_cfg80211_remain_on_channel, rwnx_rx_remain_on_channel_exp_ind,
\* rwnx_cfg80211_add_key, rwnx_cfg80211_del_key).
THEOREM RocIsSound == ASSUME Distinct PROVE RocSpec => []RocSound
<1>1. RocInit => RocIInv /\ KeyIInv
  <2>1. RocInit => KeyIInv
    BY DEF RocInit, KeyIInv, KeyTypes, KeysAgree
  <2> QED BY <2>1, InitRoc
<1>2. RocIInv /\ KeyIInv /\ [RocNext]_rocVars => (RocIInv /\ KeyIInv)'
  BY RocStep
<1>3. RocIInv /\ KeyIInv => RocSound
  BY DEF RocIInv, Told, KeyIInv, RocSound, RocPaired
<1> QED BY <1>1, <1>2, <1>3, PTL DEF RocSpec

-----------------------------------------------------------------------------
(* The loader's bus                                                        *)

\* Nothing the device has answered is still on its way.
Clean == answers = {} /\ \A i \in 1 .. Len(rxq) : rxq[i] = 0

\* At most one answer is on its way, and it is the last command's.
OnlyItsOwn ==
    /\ answers \subseteq {cmd}
    /\ \A i \in 1 .. Len(rxq) : rxq[i] \in {0, cmd} /\ (rxq[i] # 0 => answers = {})
    /\ \A i, j \in 1 .. Len(rxq) : rxq[i] # 0 /\ rxq[j] # 0 => i = j

BusTypes ==
    /\ up \in BOOLEAN /\ app_cmp \in BOOLEAN /\ crashed \in BOOLEAN
    /\ rxbuf \in [RxBufs -> {"free", "work", "flying", "lost"}]
    /\ work \in {"idle", "queued", "loop"} /\ rxq \in Seq(Nat) /\ answers \subseteq Nat /\ cmd \in Nat
    /\ rxthread \in {"wait", "work", "left", "gone"}
    /\ caller \in {"idle", "send", "sent", "wait", "down"}
    /\ down \in {"no", "state", "killed", "drained", "flushed", "stopped", "gone"}

\* Who waits for which answer.
Asked ==
    /\ caller \in {"send", "sent", "wait"} => cmd # 0 /\ ~crashed
    /\ caller \in {"idle", "down"} => listed = {}
    /\ listed \subseteq {cmd} /\ 0 \notin answers
    /\ msg_urb # NULL => caller = "sent" /\ msg_urb = cmd
    /\ OnlyItsOwn
    /\ got # NULL => got[1] = got[2] /\ listed = {}
    /\ caller \in {"send", "sent"} => got = NULL
    /\ got # NULL \/ caller \in {"send", "sent"} \/ (caller = "idle" /\ ~crashed) => Clean

\* How far the teardown is.
Stage ==
    /\ up <=> down = "no"
    /\ caller = "down" <=> down # "no"
    /\ work # "loop" => In("work") = {}
    /\ \A b, c \in In("work") : b = c
    /\ lbus_upset = {} /\ down \notin {"no", "state"} => In("flying") = {}
    /\ down \in {"stopped", "gone"} => rxthread = "gone"
    /\ down = "gone" => work = "idle"

BusIInv == BusTypes /\ Asked /\ Stage /\ LoadNotStarved

\* A step keeps the parts of the bus in their ranges.
LEMMA BusTypesKept ==
    ASSUME BusIInv, BusNext
    PROVE  BusTypes'
<1> USE DEF BusIInv
<1>0. lbus_upset = {} BY DEF BusNext
<1>1. CASE Queue
  BY <1>0, <1>1 DEF Queue, BusTypes, In
<1>2. CASE Submit
  BY <1>0, <1>2 DEF Submit, BusTypes, In
<1>3. CASE MsgComplete
  <2>1. msg_urb \in Nat
    BY <1>3 DEF MsgComplete, Asked, BusTypes
  <2>2. QED BY <1>3, <2>1 DEF MsgComplete, BusTypes
<1>4. CASE MsgTimeout
  BY <1>0, <1>4 DEF MsgTimeout, KillMsgUrb, BusTypes, In
<1>5. CASE Return
  BY <1>0, <1>5 DEF Return, BusTypes, In
<1>6. CASE Timeout
  BY <1>0, <1>6 DEF Timeout, Crash, BusTypes, In
<1>7. CASE Killed
  BY <1>0, <1>7 DEF Killed, BusTypes, In
<1>8. CASE WorkStarts
  BY <1>0, <1>8 DEF WorkStarts, BusTypes, In
<1>9. CASE WorkGets
  BY <1>0, <1>9 DEF WorkGets, BusTypes, In
<1>10. CASE WorkSubmits
  BY <1>0, <1>10 DEF WorkSubmits, BusTypes, In
<1>11. CASE ThreadWakes
  BY <1>0, <1>11 DEF ThreadWakes, BusTypes, In
<1>12. CASE ThreadHandles
  BY <1>0, <1>12 DEF ThreadHandles, cmd_mgr_msgind, BusTypes, In
<1>13. CASE ThreadDone
  BY <1>0, <1>13 DEF ThreadDone, BusTypes, In
<1>14. CASE Loaded
  BY <1>0, <1>14 DEF Loaded, BusTypes, In
<1>15. CASE StopState
  BY <1>0, <1>15 DEF StopState, BusTypes, In
<1>16. CASE StopUrbs
  BY <1>0, <1>16 DEF StopUrbs, BusTypes, In
<1>17. CASE Drain
  BY <1>0, <1>17 DEF Drain, BusTypes, In
<1>18. CASE Flush
  BY <1>0, <1>18 DEF Flush, BusTypes, In
<1>19. CASE ThreadStops
  BY <1>0, <1>19 DEF ThreadStops, BusTypes, In
<1>20. CASE Deinit
  BY <1>0, <1>20 DEF Deinit, CancelWork, BusTypes, In
<1>21. ASSUME NEW b \in RxBufs, RxError(b) PROVE BusTypes'
  BY <1>0, <1>21 DEF RxError, PutAndResubmit, BusTypes, In
<1>22. ASSUME NEW b \in RxBufs, NEW a \in 0 .. MaxCmd, RxComplete(b, a) PROVE BusTypes'
  <2>1. a \in Nat
    BY <1>22 DEF RxComplete, BusTypes
  <2>2. QED BY <1>22, <2>1, SMTT(30) DEF RxComplete, PutAndResubmit, BusTypes
<1>23. QED BY <1>1, <1>2, <1>3, <1>4, <1>5, <1>6, <1>7, <1>8, <1>9, <1>10, <1>11, <1>12, <1>13, <1>14, <1>15, <1>16, <1>17, <1>18, <1>19, <1>20, <1>21, <1>22 DEF BusNext

\* A step keeps who waits for which answer.
LEMMA AskedKept ==
    ASSUME BusIInv, BusNext
    PROVE  Asked'
<1> USE DEF BusIInv
<1>0. lbus_upset = {} BY DEF BusNext
<1>1. CASE Queue
  <2>1. Clean /\ UNCHANGED <<answers, rxq>>
    BY <1>1 DEF Queue, Asked
  <2>2. Clean' /\ OnlyItsOwn'
    BY <2>1 DEF Clean, OnlyItsOwn
  <2>3. listed = {} /\ cmd \in Nat /\ msg_urb = NULL
    BY <1>1 DEF Queue, Asked, BusTypes
  <2>4. QED BY <1>1, <2>2, <2>3 DEF Queue, Asked, Clean
<1>2. CASE Submit
  BY <1>0, <1>2 DEF Submit, BusTypes, Asked, OnlyItsOwn, Clean
<1>3. CASE MsgComplete
  <2>1. msg_urb = cmd /\ cmd # 0 /\ Clean
    BY <1>3 DEF MsgComplete, Asked
  <2>2. answers' \subseteq {cmd} /\ 0 \notin answers' /\ UNCHANGED <<rxq, cmd, got, listed, crashed>>
    BY <1>3, <2>1 DEF MsgComplete, Clean
  <2>3. OnlyItsOwn'
    BY <2>1, <2>2 DEF OnlyItsOwn, Clean
  <2>4. QED BY <1>3, <2>1, <2>2, <2>3 DEF MsgComplete, Asked, Clean
<1>4. CASE MsgTimeout
  BY <1>0, <1>4 DEF MsgTimeout, KillMsgUrb, BusTypes, Asked, OnlyItsOwn, Clean
<1>5. CASE Return
  BY <1>0, <1>5 DEF Return, BusTypes, Asked, OnlyItsOwn, Clean
<1>6. CASE Timeout
  BY <1>0, <1>6 DEF Timeout, Crash, BusTypes, Asked, OnlyItsOwn, Clean
<1>7. CASE Killed
  BY <1>0, <1>7 DEF Killed, BusTypes, Asked, OnlyItsOwn, Clean
<1>8. CASE WorkStarts
  BY <1>0, <1>8 DEF WorkStarts, BusTypes, Asked, OnlyItsOwn, Clean
<1>9. CASE WorkGets
  BY <1>0, <1>9 DEF WorkGets, BusTypes, Asked, OnlyItsOwn, Clean
<1>10. CASE WorkSubmits
  BY <1>0, <1>10 DEF WorkSubmits, BusTypes, Asked, OnlyItsOwn, Clean
<1>11. CASE ThreadWakes
  BY <1>0, <1>11 DEF ThreadWakes, BusTypes, Asked, OnlyItsOwn, Clean
<1>12. CASE ThreadHandles
  <2> USE DEF ThreadHandles
  <2>1. rxq \in Seq(Nat) /\ rxq # <<>>
    BY <1>12 DEF BusTypes
  <2>2. /\ Len(rxq) \in Nat /\ Len(rxq) > 0 /\ rxq' = Tail(rxq) /\ Len(rxq') = Len(rxq) - 1
        /\ Head(rxq) = rxq[1] /\ \A i \in 1 .. Len(rxq') : rxq'[i] = rxq[i + 1]
    BY <1>12, <2>1, HeadTailProperties
  <2>3. OnlyItsOwn'
    BY <1>12, <2>2 DEF Asked, OnlyItsOwn
  <2>4. Clean => Clean'
    BY <1>12, <2>2 DEF Clean
  <2>5. CASE UNCHANGED <<listed, got>>
    BY <1>12, <2>3, <2>4, <2>5 DEF Asked
  <2>6. CASE got = NULL /\ listed # {} /\ Head(rxq) # 0 /\ listed' = listed \ {cmd} /\ got' = <<cmd, Head(rxq)>>
    <3>1. Head(rxq) = cmd /\ answers = {} /\ caller \notin {"send", "sent"}
      BY <2>2, <2>6 DEF Asked, OnlyItsOwn, Clean
    <3>2. Clean'
      BY <1>12, <2>2, <2>6, <3>1 DEF Asked, OnlyItsOwn, Clean
    <3>3. listed' = {} /\ got'[1] = got'[2]
      BY <2>6, <3>1 DEF Asked
    <3>4. UNCHANGED <<caller, cmd, crashed, msg_urb, answers>>
      BY <1>12
    <3>5. QED BY <2>3, <3>1, <3>2, <3>3, <3>4 DEF Asked
  <2>7. QED
    <3>1. \/ Head(rxq) # 0 /\ cmd_mgr_msgind(Head(rxq))
          \/ UNCHANGED <<listed, got>>
      BY <1>12
    <3>2. QED BY <2>5, <2>6, <3>1 DEF cmd_mgr_msgind
<1>13. CASE ThreadDone
  BY <1>0, <1>13 DEF ThreadDone, BusTypes, Asked, OnlyItsOwn, Clean
<1>14. CASE Loaded
  BY <1>0, <1>14 DEF Loaded, BusTypes, Asked, OnlyItsOwn, Clean
<1>15. CASE StopState
  BY <1>0, <1>15 DEF StopState, BusTypes, Asked, OnlyItsOwn, Clean
<1>16. CASE StopUrbs
  BY <1>0, <1>16 DEF StopUrbs, BusTypes, Asked, OnlyItsOwn, Clean
<1>17. CASE Drain
  BY <1>0, <1>17 DEF Drain, BusTypes, Asked, OnlyItsOwn, Clean
<1>18. CASE Flush
  BY <1>0, <1>18 DEF Flush, BusTypes, Asked, OnlyItsOwn, Clean
<1>19. CASE ThreadStops
  BY <1>0, <1>19 DEF ThreadStops, BusTypes, Asked, OnlyItsOwn, Clean
<1>20. CASE Deinit
  BY <1>0, <1>20 DEF Deinit, CancelWork, BusTypes, Asked, OnlyItsOwn, Clean
<1>21. ASSUME NEW b \in RxBufs, RxError(b) PROVE Asked'
  BY <1>0, <1>21 DEF RxError, PutAndResubmit, BusTypes, Asked, OnlyItsOwn, Clean
<1>22. ASSUME NEW b \in RxBufs, NEW a \in 0 .. MaxCmd, RxComplete(b, a) PROVE Asked'
  <2> USE DEF RxComplete
  <2>1. /\ a \in answers \cup {0} /\ answers' = answers \ {a}
        /\ UNCHANGED <<caller, cmd, listed, crashed, got, msg_urb>>
    BY <1>22
  <2>2. CASE UNCHANGED rxq
    BY <2>1, <2>2 DEF Asked, OnlyItsOwn, Clean
  <2>3. CASE rxq' = Append(rxq, a)
    <3>1. /\ Len(rxq) \in Nat /\ Len(rxq') = Len(rxq) + 1 /\ rxq'[Len(rxq) + 1] = a
          /\ \A i \in 1 .. Len(rxq) : rxq'[i] = rxq[i]
      BY <2>1, <2>3 DEF BusTypes
    <3>2. Clean => a = 0 /\ Clean'
      BY <2>1, <3>1 DEF Clean
    <3>3. a # 0 => a = cmd /\ answers' = {} /\ \A i \in 1 .. Len(rxq) : rxq[i] = 0
      BY <2>1 DEF Asked, OnlyItsOwn
    <3>4. answers' \subseteq {cmd} /\ 0 \notin answers' /\ (answers = {} => answers' = {})
      BY <2>1 DEF Asked, OnlyItsOwn
    <3>5. \A i \in 1 .. Len(rxq') : rxq'[i] \in {0, cmd} /\ (rxq'[i] # 0 => answers' = {})
      BY <3>1, <3>3, <3>4 DEF Asked, OnlyItsOwn
    <3>6. \A i, j \in 1 .. Len(rxq') : rxq'[i] # 0 /\ rxq'[j] # 0 => i = j
      BY <3>1, <3>3 DEF Asked, OnlyItsOwn
    <3>7. OnlyItsOwn'
      BY <2>1, <3>4, <3>5, <3>6 DEF OnlyItsOwn
    <3>8. QED BY <2>1, <3>2, <3>4, <3>7 DEF Asked
  <2>4. QED BY <1>22, <2>2, <2>3
<1>23. QED BY <1>1, <1>2, <1>3, <1>4, <1>5, <1>6, <1>7, <1>8, <1>9, <1>10, <1>11, <1>12, <1>13, <1>14, <1>15, <1>16, <1>17, <1>18, <1>19, <1>20, <1>21, <1>22 DEF BusNext

\* A step keeps how far the teardown is.
LEMMA StageKept ==
    ASSUME BusIInv, BusNext
    PROVE  Stage'
<1> USE DEF BusIInv
<1>0. lbus_upset = {} BY DEF BusNext
<1>1. CASE Queue
  BY <1>0, <1>1 DEF Queue, BusTypes, Stage, In
<1>2. CASE Submit
  BY <1>0, <1>2 DEF Submit, BusTypes, Stage, In
<1>3. CASE MsgComplete
  BY <1>0, <1>3 DEF MsgComplete, BusTypes, Stage, In
<1>4. CASE MsgTimeout
  BY <1>0, <1>4 DEF MsgTimeout, KillMsgUrb, BusTypes, Stage, In
<1>5. CASE Return
  BY <1>0, <1>5 DEF Return, BusTypes, Stage, In
<1>6. CASE Timeout
  BY <1>0, <1>6 DEF Timeout, Crash, BusTypes, Stage, In
<1>7. CASE Killed
  BY <1>0, <1>7 DEF Killed, BusTypes, Stage, In
<1>8. CASE WorkStarts
  BY <1>0, <1>8 DEF WorkStarts, BusTypes, Stage, In
<1>9. CASE WorkGets
  BY <1>0, <1>9 DEF WorkGets, BusTypes, Stage, In
<1>10. CASE WorkSubmits
  <2>1. PICK b \in In("work") :
           \/ /\ rxbuf' = [rxbuf EXCEPT ![b] = "flying"] /\ UNCHANGED work
              /\ lbus_upset' = IF down \in {"no", "state"} THEN {} ELSE {"crossed"}
           \/ rxbuf' = [rxbuf EXCEPT ![b] = "free"] /\ work' = "idle"
    BY <1>10 DEF WorkSubmits
  <2>2. UNCHANGED <<up, rxthread, caller, down>> /\ work = "loop"
    BY <1>10 DEF WorkSubmits
  <2>3. QED BY <1>0, <2>1, <2>2 DEF BusTypes, Stage, In
<1>11. CASE ThreadWakes
  BY <1>0, <1>11 DEF ThreadWakes, BusTypes, Stage, In
<1>12. CASE ThreadHandles
  BY <1>0, <1>12 DEF ThreadHandles, cmd_mgr_msgind, BusTypes, Stage, In
<1>13. CASE ThreadDone
  BY <1>0, <1>13 DEF ThreadDone, BusTypes, Stage, In
<1>14. CASE Loaded
  BY <1>0, <1>14 DEF Loaded, BusTypes, Stage, In
<1>15. CASE StopState
  BY <1>0, <1>15 DEF StopState, BusTypes, Stage, In
<1>16. CASE StopUrbs
  BY <1>0, <1>16 DEF StopUrbs, BusTypes, Stage, In
<1>17. CASE Drain
  BY <1>0, <1>17 DEF Drain, BusTypes, Stage, In
<1>18. CASE Flush
  BY <1>0, <1>18 DEF Flush, BusTypes, Stage, In
<1>19. CASE ThreadStops
  BY <1>0, <1>19 DEF ThreadStops, BusTypes, Stage, In
<1>20. CASE Deinit
  BY <1>0, <1>20 DEF Deinit, CancelWork, BusTypes, Stage, In
<1>21. ASSUME NEW b \in RxBufs, RxError(b) PROVE Stage'
  BY <1>0, <1>21 DEF RxError, PutAndResubmit, BusTypes, Stage, In
<1>22. ASSUME NEW b \in RxBufs, NEW a \in 0 .. MaxCmd, RxComplete(b, a) PROVE Stage'
  BY <1>0, <1>22 DEF RxComplete, PutAndResubmit, BusTypes, Stage, In
<1>23. QED BY <1>1, <1>2, <1>3, <1>4, <1>5, <1>6, <1>7, <1>8, <1>9, <1>10, <1>11, <1>12, <1>13, <1>14, <1>15, <1>16, <1>17, <1>18, <1>19, <1>20, <1>21, <1>22 DEF BusNext

\* A step leaves a buffer to receive with, as long as the bus is up.
LEMMA StarvedKept ==
    ASSUME BusIInv, BusNext
    PROVE  LoadNotStarved'
<1> USE DEF BusIInv
<1>0. lbus_upset = {} BY DEF BusNext
<1>1. CASE Queue
  BY <1>0, <1>1 DEF Queue, BusTypes, Stage, LoadNotStarved, In
<1>2. CASE Submit
  BY <1>0, <1>2 DEF Submit, BusTypes, Stage, LoadNotStarved, In
<1>3. CASE MsgComplete
  BY <1>0, <1>3 DEF MsgComplete, BusTypes, Stage, LoadNotStarved, In
<1>4. CASE MsgTimeout
  BY <1>0, <1>4 DEF MsgTimeout, KillMsgUrb, BusTypes, Stage, LoadNotStarved, In
<1>5. CASE Return
  BY <1>0, <1>5 DEF Return, BusTypes, Stage, LoadNotStarved, In
<1>6. CASE Timeout
  BY <1>0, <1>6 DEF Timeout, Crash, BusTypes, Stage, LoadNotStarved, In
<1>7. CASE Killed
  BY <1>0, <1>7 DEF Killed, BusTypes, Stage, LoadNotStarved, In
<1>8. CASE WorkStarts
  BY <1>0, <1>8 DEF WorkStarts, BusTypes, Stage, LoadNotStarved, In
<1>9. CASE WorkGets
  BY <1>0, <1>9 DEF WorkGets, BusTypes, Stage, LoadNotStarved, In
<1>10. CASE WorkSubmits
  BY <1>0, <1>10 DEF WorkSubmits, BusTypes, Stage, LoadNotStarved, In
<1>11. CASE ThreadWakes
  BY <1>0, <1>11 DEF ThreadWakes, BusTypes, Stage, LoadNotStarved, In
<1>12. CASE ThreadHandles
  BY <1>0, <1>12 DEF ThreadHandles, cmd_mgr_msgind, BusTypes, Stage, LoadNotStarved, In
<1>13. CASE ThreadDone
  BY <1>0, <1>13 DEF ThreadDone, BusTypes, Stage, LoadNotStarved, In
<1>14. CASE Loaded
  BY <1>0, <1>14 DEF Loaded, BusTypes, Stage, LoadNotStarved, In
<1>15. CASE StopState
  BY <1>0, <1>15 DEF StopState, BusTypes, Stage, LoadNotStarved, In
<1>16. CASE StopUrbs
  BY <1>0, <1>16 DEF StopUrbs, BusTypes, Stage, LoadNotStarved, In
<1>17. CASE Drain
  BY <1>0, <1>17 DEF Drain, BusTypes, Stage, LoadNotStarved, In
<1>18. CASE Flush
  BY <1>0, <1>18 DEF Flush, BusTypes, Stage, LoadNotStarved, In
<1>19. CASE ThreadStops
  BY <1>0, <1>19 DEF ThreadStops, BusTypes, Stage, LoadNotStarved, In
<1>20. CASE Deinit
  BY <1>0, <1>20 DEF Deinit, CancelWork, BusTypes, Stage, LoadNotStarved, In
<1>21. ASSUME NEW b \in RxBufs, RxError(b) PROVE LoadNotStarved'
  BY <1>0, <1>21 DEF RxError, PutAndResubmit, BusTypes, Stage, LoadNotStarved, In
<1>22. ASSUME NEW b \in RxBufs, NEW a \in 0 .. MaxCmd, RxComplete(b, a) PROVE LoadNotStarved'
  BY <1>0, <1>22 DEF RxComplete, PutAndResubmit, BusTypes, Stage, LoadNotStarved, In
<1>23. QED BY <1>1, <1>2, <1>3, <1>4, <1>5, <1>6, <1>7, <1>8, <1>9, <1>10, <1>11, <1>12, <1>13, <1>14, <1>15, <1>16, <1>17, <1>18, <1>19, <1>20, <1>21, <1>22 DEF BusNext

\* In every reachable state of the loader's bus an answer is its command's own, the urb of
\* a message is free when it is taken, a buffer is left to receive with, and nothing runs
\* once the bus is torn down (cmd_mgr_queue, usb_tx_msg, aicwf_usb_rx_prepare_work,
\* aicwf_bus_deinit).
THEOREM LoadBusIsSound == BusSpec => []LoadBusSound
<1>1. ASSUME BusInit PROVE BusIInv
  <2>1. \A b \in RxBufs : rxbuf[b] \in {"free", "flying"}
    BY <1>1 DEF BusInit
  <2>2. In("flying") # {} /\ In("work") = {}
    BY <1>1, <2>1 DEF BusInit, In
  <2>3. BusTypes
    <3>1. rxbuf \in [RxBufs -> {"free", "work", "flying", "lost"}]
      BY <1>1 DEF BusInit
    <3>2. rxq \in Seq(Nat) /\ answers \subseteq Nat /\ cmd \in Nat
      BY <1>1 DEF BusInit
    <3>3. up \in BOOLEAN /\ app_cmp \in BOOLEAN /\ crashed \in BOOLEAN
      BY <1>1 DEF BusInit
    <3>4. work = "idle" /\ rxthread = "wait" /\ caller = "idle" /\ down = "no"
      BY <1>1 DEF BusInit
    <3>5. QED BY <3>1, <3>2, <3>3, <3>4 DEF BusTypes
  <2>4. Asked
    BY <1>1 DEF BusInit, Asked, OnlyItsOwn, Clean
  <2>5. Stage
    BY <1>1, <2>2 DEF BusInit, Stage
  <2>6. QED BY <2>2, <2>3, <2>4, <2>5 DEF BusIInv, LoadNotStarved
<1>2. BusIInv /\ [BusNext]_busVars => BusIInv'
  <2>1. ASSUME BusIInv, BusNext PROVE BusIInv'
    <3>1. BusTypes' BY <2>1, BusTypesKept
    <3>2. Asked' BY <2>1, AskedKept
    <3>3. Stage' BY <2>1, StageKept
    <3>4. LoadNotStarved' BY <2>1, StarvedKept
    <3>5. QED BY <3>1, <3>2, <3>3, <3>4 DEF BusIInv
  <2>2. ASSUME BusIInv, UNCHANGED busVars PROVE BusIInv'
    BY <2>2 DEF busVars, BusIInv, BusTypes, Asked, OnlyItsOwn, Clean, Stage, LoadNotStarved, In
  <2>3. QED BY <2>1, <2>2
<1>3. BusIInv => LoadBusSound
  BY DEF BusIInv, BusTypes, Asked, Stage, LoadBusSound, LoadAnswerIsOwn, MsgUrbIsFree, TornDown, In
<1>4. QED BY <1>1, <1>2, <1>3, PTL DEF BusSpec

-----------------------------------------------------------------------------
(* Virtual interfaces                                                      *)

\* What the constants are: the firmware's numbers fit in vif_started (a u8), and NULL is
\* no number and no interface.
Records == [type : Types, up : BOOLEAN, idx : Slots, run : BOOLEAN]
VifConstants ==
    /\ NX_VIRT_DEV_MAX \in Nat \ {0} /\ NX_VLAN \in Nat /\ NX_VIRT_DEV_MAX + NX_VLAN < 256
    /\ NULL \notin Records /\ NULL \notin Slots

UpVifs == {s \in Slots : Exists(s) /\ vif[s].up}

VifNumbers ==
    /\ vif_table \in [Slots -> Slots \cup {NULL}]
    /\ vif_started \in 0 .. 255 /\ fw_vifs \subseteq Regular
    /\ fw_on \in BOOLEAN /\ is_p2p_alive \in BOOLEAN /\ alive_timer \in BOOLEAN
    /\ p2p_dev_vif \in Slots \cup {NULL} /\ alive_cb \in {"idle", "down"}
VifOpShape ==
    /\ vif_op \in [is : {"idle", "open_p2p", "open_add", "close_down", "close_count", "change_add", "stop_down"},
                   v : Slots \cup {NULL}]
    /\ At("idle") <=> vif_op.v = NULL
    /\ ~At("idle") => Exists(vif_op.v)

VifShape == vif \in [Slots -> Records \cup {NULL}] /\ VifNumbers /\ VifOpShape

\* Where an interface stands outside the calm: in no operation.
Ops ==
    /\ ~At("idle") => alive_cb = "idle"
    /\ \A s \in Slots : Exists(s) =>
          /\ vif[s].type = "VLAN" <=> s \in Vlan
          /\ vif[s].type = "VLAN" /\ vif[s].up => vif[s].idx = s
          /\ vif[s].type # "VLAN" /\ vif[s].up => vif[s].idx \in Regular
          /\ vif[s].type = "P2PDEV" => s = p2p_dev_vif /\ (vif[s].up => vif[s].run)
          /\ vif[s].type # "P2PDEV" => (vif[s].up <=> vif[s].run /\ ~(At("close_count") /\ vif_op.v = s))
    /\ At("open_p2p") \/ At("open_add") => ~vif[vif_op.v].run /\ vif[vif_op.v].type # "P2PDEV" /\ fw_on
    /\ At("open_p2p") => DevExists /\ vif[p2p_dev_vif].run
    /\ At("close_down") \/ At("close_count") \/ At("change_add") =>
          vif[vif_op.v].run /\ vif[vif_op.v].type # "P2PDEV"
    /\ At("change_add") => vif[vif_op.v].type # "VLAN"
    /\ At("stop_down") => vif[vif_op.v].type = "P2PDEV" /\ vif[vif_op.v].up

\* The P2P device while it is kept alive, and while its timer takes it down.
Device ==
    /\ alive_timer => is_p2p_alive
    /\ is_p2p_alive => DevExists /\ vif[p2p_dev_vif].up
    /\ alive_cb = "down" => DevExists /\ vif[p2p_dev_vif].up
    /\ At("stop_down") \/ alive_cb = "down" => ~is_p2p_alive
    /\ ~p2p_stale

\* The interface that has left the firmware, and not the table yet.
Leaving ==
    {s \in Slots : \/ (At("close_down") \/ At("stop_down")) /\ vif_op.v = s
                   \/ alive_cb = "down" /\ p2p_dev_vif = s}
\* The interface that is out of both while its type is changed.
Out == {s \in Slots : At("change_add") /\ vif_op.v = s}

Table ==
    /\ \A i \in Slots : vif_table[i] # NULL => vif_table[i] \in UpVifs \ Out /\ vif[vif_table[i]].idx = i
    /\ \A s \in UpVifs \ Out : vif_table[vif[s].idx] = s
    /\ fw_vifs = {i \in Regular : vif_table[i] # NULL /\ vif_table[i] \notin Leaving}

Count ==
    /\ vif_started = Cardinality(UpVifs) + IF At("close_count") THEN 1 ELSE 0
    /\ UpVifs # {} => fw_on

VifIInv ==
    /\ VifShape
    /\ vif_upset = {} => Ops /\ Device /\ Table /\ Count
    /\ vif_upset # {} /\ vif_upset \subseteq {"cancel", "change"} => Idle /\ alive_cb = "idle" /\ ~p2p_stale
\* Only v changes, and has become an interface with these parts.
Becomes(v, t, u, i, r) ==
    /\ v \in Slots /\ vif' \in [Slots -> Records \cup {NULL}]
    /\ vif'[v] \in Records /\ vif'[v].type = t /\ vif'[v].up = u /\ vif'[v].idx = i /\ vif'[v].run = r
    /\ \A s \in Slots \ {v} : vif'[s] = vif[s]

-----------------------------------------------------------------------------
\* The parts of an interface, and the slots.

\* There are finitely many slots, fewer than vif_started counts; the first is the firmware's.
LEMMA SlotsFinite ==
    ASSUME VifConstants
    PROVE  /\ IsFiniteSet(Slots) /\ Cardinality(Slots) \in 0 .. 255
           /\ 0 \in Regular /\ Regular \subseteq Slots /\ Vlan \subseteq Slots /\ Regular \cap Vlan = {}
<1> USE DEF VifConstants
<1>1. Slots \subseteq 0 .. 254 /\ 0 \in Regular /\ Regular \subseteq Slots /\ Vlan \subseteq Slots /\ Regular \cap Vlan = {}
  BY DEF Slots, Regular, Vlan
<1>2. \A a, b \in Int : IsFiniteSet(a .. b) /\ Cardinality(a .. b) = IF a > b THEN 0 ELSE b - a + 1
  BY FS_Interval
<1>3. IsFiniteSet(0 .. 254) /\ Cardinality(0 .. 254) = 255
  <2>1. 0 \in Int /\ 254 \in Int
    OBVIOUS
  <2>2. IsFiniteSet(0 .. 254) /\ Cardinality(0 .. 254) = IF 0 > 254 THEN 0 ELSE 254 - 0 + 1
    BY <1>2, <2>1, Zenon
  <2>3. QED BY <2>2
<1>4. IsFiniteSet(Slots) /\ Cardinality(Slots) <= 255
  <2>1. Slots \in SUBSET (0 .. 254)
    BY <1>1
  <2>2. IsFiniteSet(Slots) /\ Cardinality(Slots) <= Cardinality(0 .. 254)
    BY <1>3, <2>1, FS_Subset, Zenon
  <2> QED BY <1>3, <2>2
<1>5. Cardinality(Slots) \in Nat
  BY <1>4, FS_CardinalityType
<1>6. QED BY <1>1, <1>4, <1>5

\* An interface exists, and has its parts.
LEMMA Parts ==
    ASSUME VifConstants, VifShape, NEW s \in Slots, Exists(s)
    PROVE  vif[s] \in Records /\ vif[s].type \in Types /\ vif[s].up \in BOOLEAN /\ vif[s].idx \in Slots /\ vif[s].run \in BOOLEAN
BY DEF VifConstants, VifShape, Exists, Records

\* The edits of an interface.
LEMMA Edits ==
    ASSUME VifConstants, VifShape, NEW v \in Slots, Exists(v)
    PROVE  /\ \A b \in BOOLEAN : vif' = [vif EXCEPT ![v].run = b] => Becomes(v, vif[v].type, vif[v].up, vif[v].idx, b)
           /\ \A b \in BOOLEAN : vif' = [vif EXCEPT ![v].up = b] => Becomes(v, vif[v].type, b, vif[v].idx, vif[v].run)
           /\ \A t \in Types : vif' = [vif EXCEPT ![v].type = t] => Becomes(v, t, vif[v].up, vif[v].idx, vif[v].run)
           /\ \A i \in Slots : vif' = [vif EXCEPT ![v].idx = i] => Becomes(v, vif[v].type, vif[v].up, i, vif[v].run)
           /\ \A i \in Slots : vif' = [vif EXCEPT ![v].up = TRUE, ![v].idx = i] => Becomes(v, vif[v].type, TRUE, i, vif[v].run)
           /\ \A i \in Slots : vif' = [vif EXCEPT ![v].up = TRUE, ![v].idx = i, ![v].run = TRUE] => Becomes(v, vif[v].type, TRUE, i, TRUE)
           /\ vif' = [vif EXCEPT ![v].up = FALSE, ![v].run = FALSE] => Becomes(v, vif[v].type, FALSE, vif[v].idx, FALSE)
<1>1. vif[v] \in Records /\ vif \in [Slots -> Records \cup {NULL}]
  BY Parts DEF VifShape
<1>2. ASSUME NEW r \in Records, vif' = [vif EXCEPT ![v] = r]
      PROVE  /\ vif' \in [Slots -> Records \cup {NULL}] /\ vif'[v] = r
             /\ \A s \in Slots \ {v} : vif'[s] = vif[s]
  BY <1>1, <1>2
<1>3. ASSUME NEW b \in BOOLEAN, vif' = [vif EXCEPT ![v].run = b] PROVE Becomes(v, vif[v].type, vif[v].up, vif[v].idx, b)
  <2>1. /\ [vif[v] EXCEPT !.run = b] \in Records
        /\ [vif[v] EXCEPT !.run = b].type = vif[v].type /\ [vif[v] EXCEPT !.run = b].up = vif[v].up
        /\ [vif[v] EXCEPT !.run = b].idx = vif[v].idx /\ [vif[v] EXCEPT !.run = b].run = b
    BY <1>1 DEF Records
  <2>2. vif' = [vif EXCEPT ![v] = [vif[v] EXCEPT !.run = b]]
    BY <1>1, <1>3
  <2>3. QED BY <1>2, <2>1, <2>2 DEF Becomes
<1>4. ASSUME NEW b \in BOOLEAN, vif' = [vif EXCEPT ![v].up = b] PROVE Becomes(v, vif[v].type, b, vif[v].idx, vif[v].run)
  <2>1. /\ [vif[v] EXCEPT !.up = b] \in Records
        /\ [vif[v] EXCEPT !.up = b].type = vif[v].type /\ [vif[v] EXCEPT !.up = b].up = b
        /\ [vif[v] EXCEPT !.up = b].idx = vif[v].idx /\ [vif[v] EXCEPT !.up = b].run = vif[v].run
    BY <1>1 DEF Records
  <2>2. vif' = [vif EXCEPT ![v] = [vif[v] EXCEPT !.up = b]]
    BY <1>1, <1>4
  <2>3. QED BY <1>2, <2>1, <2>2 DEF Becomes
<1>5. ASSUME NEW t \in Types, vif' = [vif EXCEPT ![v].type = t] PROVE Becomes(v, t, vif[v].up, vif[v].idx, vif[v].run)
  <2>1. /\ [vif[v] EXCEPT !.type = t] \in Records
        /\ [vif[v] EXCEPT !.type = t].type = t /\ [vif[v] EXCEPT !.type = t].up = vif[v].up
        /\ [vif[v] EXCEPT !.type = t].idx = vif[v].idx /\ [vif[v] EXCEPT !.type = t].run = vif[v].run
    BY <1>1 DEF Records
  <2>2. vif' = [vif EXCEPT ![v] = [vif[v] EXCEPT !.type = t]]
    BY <1>1, <1>5
  <2>3. QED BY <1>2, <2>1, <2>2 DEF Becomes
<1>6. ASSUME NEW i \in Slots, vif' = [vif EXCEPT ![v].idx = i] PROVE Becomes(v, vif[v].type, vif[v].up, i, vif[v].run)
  <2>1. /\ [vif[v] EXCEPT !.idx = i] \in Records
        /\ [vif[v] EXCEPT !.idx = i].type = vif[v].type /\ [vif[v] EXCEPT !.idx = i].up = vif[v].up
        /\ [vif[v] EXCEPT !.idx = i].idx = i /\ [vif[v] EXCEPT !.idx = i].run = vif[v].run
    BY <1>1 DEF Records
  <2>2. vif' = [vif EXCEPT ![v] = [vif[v] EXCEPT !.idx = i]]
    BY <1>1, <1>6
  <2>3. QED BY <1>2, <2>1, <2>2 DEF Becomes
<1>7. ASSUME NEW i \in Slots, vif' = [vif EXCEPT ![v].up = TRUE, ![v].idx = i] PROVE Becomes(v, vif[v].type, TRUE, i, vif[v].run)
  <2>1. /\ [vif[v] EXCEPT !.up = TRUE, !.idx = i] \in Records
        /\ [vif[v] EXCEPT !.up = TRUE, !.idx = i].type = vif[v].type /\ [vif[v] EXCEPT !.up = TRUE, !.idx = i].up = TRUE
        /\ [vif[v] EXCEPT !.up = TRUE, !.idx = i].idx = i /\ [vif[v] EXCEPT !.up = TRUE, !.idx = i].run = vif[v].run
    BY <1>1 DEF Records
  <2>2. vif' = [vif EXCEPT ![v] = [vif[v] EXCEPT !.up = TRUE, !.idx = i]]
    BY <1>1, <1>7
  <2>3. QED BY <1>2, <2>1, <2>2 DEF Becomes
<1>8. ASSUME NEW i \in Slots, vif' = [vif EXCEPT ![v].up = TRUE, ![v].idx = i, ![v].run = TRUE] PROVE Becomes(v, vif[v].type, TRUE, i, TRUE)
  <2>1. /\ [vif[v] EXCEPT !.up = TRUE, !.idx = i, !.run = TRUE] \in Records
        /\ [vif[v] EXCEPT !.up = TRUE, !.idx = i, !.run = TRUE].type = vif[v].type /\ [vif[v] EXCEPT !.up = TRUE, !.idx = i, !.run = TRUE].up = TRUE
        /\ [vif[v] EXCEPT !.up = TRUE, !.idx = i, !.run = TRUE].idx = i /\ [vif[v] EXCEPT !.up = TRUE, !.idx = i, !.run = TRUE].run = TRUE
    BY <1>1 DEF Records
  <2>2. vif' = [vif EXCEPT ![v] = [vif[v] EXCEPT !.up = TRUE, !.idx = i, !.run = TRUE]]
    BY <1>1, <1>8
  <2>3. QED BY <1>2, <2>1, <2>2 DEF Becomes
<1>9. ASSUME vif' = [vif EXCEPT ![v].up = FALSE, ![v].run = FALSE] PROVE Becomes(v, vif[v].type, FALSE, vif[v].idx, FALSE)
  <2>1. /\ [vif[v] EXCEPT !.up = FALSE, !.run = FALSE] \in Records
        /\ [vif[v] EXCEPT !.up = FALSE, !.run = FALSE].type = vif[v].type /\ [vif[v] EXCEPT !.up = FALSE, !.run = FALSE].up = FALSE
        /\ [vif[v] EXCEPT !.up = FALSE, !.run = FALSE].idx = vif[v].idx /\ [vif[v] EXCEPT !.up = FALSE, !.run = FALSE].run = FALSE
    BY <1>1 DEF Records
  <2>2. vif' = [vif EXCEPT ![v] = [vif[v] EXCEPT !.up = FALSE, !.run = FALSE]]
    BY <1>1, <1>9
  <2>3. QED BY <1>2, <2>1, <2>2 DEF Becomes
<1>10. QED BY <1>3, <1>4, <1>5, <1>6, <1>7, <1>8, <1>9

-----------------------------------------------------------------------------
\* How the table and the firmware move together.

\* Nothing moves.
LEMMA TableStays ==
    ASSUME VifConstants, VifShape, Table, UNCHANGED <<vif_table, fw_vifs>>, UpVifs' = UpVifs,
           \A s \in UpVifs : vif'[s].idx = vif[s].idx,
           Leaving' \cap UpVifs = Leaving \cap UpVifs, Out' \cap UpVifs = Out \cap UpVifs
    PROVE  Table'
<1>1. \A i \in Slots : vif_table[i] # NULL => vif_table[i] \in UpVifs
  BY DEF Table
<1>2. \A i \in Slots : vif_table'[i] # NULL => vif_table'[i] \in UpVifs' \ Out' /\ vif'[vif_table'[i]].idx = i
  BY <1>1 DEF Table
<1>3. \A s \in UpVifs' \ Out' : vif_table'[vif'[s].idx] = s
  BY DEF Table
<1>4. fw_vifs' = {i \in Regular : vif_table'[i] # NULL /\ vif_table'[i] \notin Leaving'}
  BY <1>1, SlotsFinite DEF Table
<1>5. QED BY <1>2, <1>3, <1>4 DEF Table

\* An interface is added, to the firmware as well if the number is one of its own.
LEMMA TableAdds ==
    ASSUME VifConstants, VifShape, Table, Leaving = {}, Out = {}, Leaving' = {}, Out' = {}, NEW v \in Slots, NEW i \in Slots,
           v \notin UpVifs, vif_table[i] = NULL, UpVifs' = UpVifs \cup {v}, vif'[v].idx = i,
           \A s \in Slots \ {v} : vif'[s] = vif[s],
           vif_table' = [vif_table EXCEPT ![i] = v], fw_vifs' = fw_vifs \cup ({i} \cap Regular)
    PROVE  Table'
<1>1. UpVifs \subseteq Slots /\ v # NULL /\ vif_table \in [Slots -> Slots \cup {NULL}]
  BY DEF UpVifs, VifConstants, VifShape, VifNumbers
<1>2. vif_table'[i] = v /\ \A j \in Slots \ {i} : vif_table'[j] = vif_table[j]
  BY <1>1
<1>3. \A j \in Slots : vif_table'[j] # NULL => vif_table'[j] \in UpVifs' /\ vif'[vif_table'[j]].idx = j
  <2>1. ASSUME NEW j \in Slots \ {i}, vif_table'[j] # NULL PROVE vif_table'[j] \in UpVifs' /\ vif'[vif_table'[j]].idx = j
    <3>1. vif_table[j] \in UpVifs /\ vif[vif_table[j]].idx = j /\ vif_table'[j] = vif_table[j]
      BY <1>2, <2>1 DEF Table
    <3>2. QED BY <1>1, <3>1
  <2>2. QED BY <1>2, <2>1
<1>4. \A s \in UpVifs' : vif_table'[vif'[s].idx] = s
  <2>1. ASSUME NEW s \in UpVifs PROVE vif_table'[vif'[s].idx] = s
    <3>1. vif_table[vif[s].idx] = s /\ s # NULL /\ s # v /\ vif'[s] = vif[s] /\ vif[s].idx \in Slots
      BY <1>1, Parts DEF Table, UpVifs, VifConstants
    <3>2. QED BY <1>2, <3>1
  <2>2. QED BY <1>2, <2>1
<1>5. fw_vifs' = {j \in Regular : vif_table'[j] # NULL}
  <2>1. fw_vifs = {j \in Regular : vif_table[j] # NULL}
    BY DEF Table
  <2>2. QED BY <1>1, <1>2, <2>1, SlotsFinite
<1>6. QED BY <1>3, <1>4, <1>5 DEF Table

\* An interface leaves the firmware.
LEMMA TableLeaves ==
    ASSUME VifConstants, VifShape, Table, Leaving = {}, Out = {}, NEW v \in UpVifs, Leaving' = {v}, Out' = {},
           UNCHANGED <<vif, vif_table>>, UpVifs' = UpVifs, fw_vifs' = fw_vifs \ {vif[v].idx}
    PROVE  Table'
<1>1. \A j \in Slots : vif_table[j] # NULL => vif_table[j] \in UpVifs /\ vif[vif_table[j]].idx = j
  BY DEF Table
<1>2. vif_table[vif[v].idx] = v
  BY DEF Table
<1>3. fw_vifs' = {j \in Regular : vif_table'[j] # NULL /\ vif_table'[j] \notin Leaving'}
  <2>1. fw_vifs = {j \in Regular : vif_table[j] # NULL}
    BY DEF Table
  <2>2. \A j \in Regular : vif_table[j] # NULL => (vif_table[j] = v <=> j = vif[v].idx)
    BY <1>1, <1>2, SlotsFinite
  <2>3. QED BY <2>1, <2>2
<1>4. \A j \in Slots : vif_table'[j] # NULL => vif_table'[j] \in UpVifs' /\ vif'[vif_table'[j]].idx = j
  BY <1>1
<1>5. \A s \in UpVifs' : vif_table'[vif'[s].idx] = s
  BY DEF Table
<1>6. QED BY <1>3, <1>4, <1>5 DEF Table

\* The interface that has left the firmware, or leaves both at once (out), leaves the table.
LEMMA TableDrops ==
    ASSUME VifConstants, VifShape, Table, NEW v \in UpVifs, Out = {},
           \A s \in Slots \ {v} : vif'[s] = vif[s], Leaving' = {},
           vif_table' = [vif_table EXCEPT ![vif[v].idx] = NULL],
           UpVifs' \ Out' = UpVifs \ {v},
           \/ Leaving = {v} /\ UNCHANGED fw_vifs
           \/ Leaving = {} /\ fw_vifs' = fw_vifs \ {vif[v].idx}
    PROVE  Table'
<1>1. UpVifs \subseteq Slots /\ vif[v].idx \in Slots /\ vif_table \in [Slots -> Slots \cup {NULL}]
  BY Parts DEF UpVifs, VifShape, VifNumbers
<1>2. /\ vif_table[vif[v].idx] = v /\ vif_table'[vif[v].idx] = NULL
      /\ \A j \in Slots \ {vif[v].idx} : vif_table'[j] = vif_table[j]
  BY <1>1 DEF Table
<1>3. \A j \in Slots : vif_table[j] # NULL => vif_table[j] \in UpVifs /\ vif[vif_table[j]].idx = j
  BY DEF Table
<1>4. \A j \in Slots : vif_table'[j] # NULL =>
          /\ vif_table'[j] = vif_table[j] /\ vif_table[j] \in UpVifs \ {v} /\ j # vif[v].idx
          /\ vif'[vif_table'[j]].idx = j
  <2>1. ASSUME NEW j \in Slots, vif_table'[j] # NULL
        PROVE  /\ vif_table'[j] = vif_table[j] /\ vif_table[j] \in UpVifs \ {v} /\ j # vif[v].idx
               /\ vif'[vif_table'[j]].idx = j
    <3>1. j # vif[v].idx /\ vif_table'[j] = vif_table[j]
      BY <1>2, <2>1
    <3>2. vif_table[j] \in UpVifs \ {v} /\ vif[vif_table[j]].idx = j
      BY <1>3, <2>1, <3>1
    <3>3. QED BY <1>1, <3>1, <3>2
  <2>2. QED BY <2>1
<1>5. \A s \in UpVifs' \ Out' : vif_table'[vif'[s].idx] = s
  <2>1. ASSUME NEW s \in UpVifs, s # v PROVE vif_table'[vif'[s].idx] = s
    <3>1. vif_table[vif[s].idx] = s /\ vif'[s] = vif[s] /\ vif[s].idx \in Slots
      BY <1>1, <2>1, Parts DEF Table, UpVifs
    <3>2. QED BY <1>2, <2>1, <3>1
  <2>2. QED BY <2>1
<1>6. fw_vifs' = {j \in Regular : vif_table'[j] # NULL}
  <2>1. fw_vifs = {j \in Regular : vif_table[j] # NULL /\ vif_table[j] \notin Leaving}
    BY DEF Table
  <2>2. \A j \in Regular : vif_table'[j] # NULL <=> vif_table[j] # NULL /\ vif_table[j] # v
    BY <1>1, <1>2, <1>4, SlotsFinite
  <2>3. \A j \in Regular : vif_table[j] # NULL => (vif_table[j] = v <=> j = vif[v].idx)
    BY <1>2, <1>3, SlotsFinite
  <2>4. CASE Leaving = {v} /\ UNCHANGED fw_vifs
    BY <2>1, <2>2, <2>4
  <2>5. CASE Leaving = {} /\ fw_vifs' = fw_vifs \ {vif[v].idx}
    BY <2>1, <2>2, <2>3, <2>5
  <2>6. QED BY <2>4, <2>5
<1>7. QED BY <1>4, <1>5, <1>6 DEF Table

\* The interface whose type was changed is in both again.
LEMMA TableReturns ==
    ASSUME VifConstants, VifShape, Table, NEW v \in UpVifs, Out = {v}, Leaving = {}, Out' = {}, Leaving' = {},
           NEW i \in Regular \ fw_vifs, vif'[v].idx = i, \A s \in Slots \ {v} : vif'[s] = vif[s], UpVifs' = UpVifs,
           vif_table' = [vif_table EXCEPT ![i] = v], fw_vifs' = fw_vifs \cup {i}
    PROVE  Table'
<1>1. UpVifs \subseteq Slots /\ v # NULL /\ i \in Slots /\ vif_table \in [Slots -> Slots \cup {NULL}]
  BY SlotsFinite DEF UpVifs, VifConstants, VifShape, VifNumbers
<1>2. fw_vifs = {j \in Regular : vif_table[j] # NULL} /\ vif_table[i] = NULL
  BY DEF Table
<1>3. vif_table'[i] = v /\ \A j \in Slots \ {i} : vif_table'[j] = vif_table[j]
  BY <1>1
<1>4. \A j \in Slots : vif_table'[j] # NULL => vif_table'[j] \in UpVifs' /\ vif'[vif_table'[j]].idx = j
  <2>1. ASSUME NEW j \in Slots \ {i}, vif_table'[j] # NULL PROVE vif_table'[j] \in UpVifs' /\ vif'[vif_table'[j]].idx = j
    <3>1. vif_table[j] \in UpVifs \ {v} /\ vif[vif_table[j]].idx = j /\ vif_table'[j] = vif_table[j]
      BY <1>3, <2>1 DEF Table
    <3>2. QED BY <1>1, <3>1
  <2>2. QED BY <1>3, <2>1
<1>5. \A s \in UpVifs' : vif_table'[vif'[s].idx] = s
  <2>1. ASSUME NEW s \in UpVifs, s # v PROVE vif_table'[vif'[s].idx] = s
    <3>1. vif_table[vif[s].idx] = s /\ s # NULL /\ vif'[s] = vif[s] /\ vif[s].idx \in Slots
      BY <1>1, <2>1, Parts DEF Table, UpVifs, VifConstants
    <3>2. QED BY <1>2, <1>3, <3>1
  <2>2. QED BY <1>3, <2>1
<1>6. fw_vifs' = {j \in Regular : vif_table'[j] # NULL}
  BY <1>1, <1>2, <1>3, SlotsFinite
<1>7. QED BY <1>4, <1>5, <1>6 DEF Table

\* The count goes up and down with the interfaces that are up.
LEMMA CountUp ==
    ASSUME VifConstants, VifShape, vif_started = Cardinality(UpVifs), NEW v \in Slots, v \notin UpVifs,
           UpVifs' = UpVifs \cup {v}
    PROVE  Inc(vif_started) = Cardinality(UpVifs')
<1>1. UpVifs \in SUBSET Slots /\ UpVifs' \in SUBSET Slots /\ IsFiniteSet(Slots) /\ Cardinality(Slots) \in 0 .. 255
  BY SlotsFinite DEF UpVifs
<1>2. IsFiniteSet(UpVifs) /\ Cardinality(UpVifs') <= Cardinality(Slots)
  BY <1>1, FS_Subset
<1>3. Cardinality(UpVifs) \in Nat
  BY <1>2, FS_CardinalityType
<1>4. Cardinality(UpVifs') = Cardinality(UpVifs) + 1
  BY <1>2, FS_AddElement
<1>5. QED BY <1>1, <1>2, <1>3, <1>4 DEF Inc

\* One interface fewer is up, and the count goes with it.
LEMMA CountDown ==
    ASSUME VifConstants, VifShape, NEW v \in UpVifs, UpVifs' = UpVifs \ {v}, vif_started = Cardinality(UpVifs)
    PROVE  vif_started = Cardinality(UpVifs') + 1 /\ Cardinality(UpVifs') \in Nat /\ Dec(vif_started) = Cardinality(UpVifs')
<1>1. UpVifs \in SUBSET Slots /\ IsFiniteSet(Slots) /\ Cardinality(Slots) \in 0 .. 255
  BY SlotsFinite DEF UpVifs
<1>2. IsFiniteSet(UpVifs) /\ Cardinality(UpVifs) <= Cardinality(Slots)
  BY <1>1, FS_Subset
<1>3. Cardinality(UpVifs') = Cardinality(UpVifs) - 1 /\ IsFiniteSet(UpVifs')
  BY <1>2, FS_RemoveElement
<1>4. Cardinality(UpVifs) \in Nat /\ Cardinality(UpVifs') \in Nat
  BY <1>2, <1>3, FS_CardinalityType
<1>5. QED BY <1>1, <1>2, <1>3, <1>4 DEF Dec

-----------------------------------------------------------------------------
\* What the steps make of the interfaces.

\* A set of numbers has a least one.
LEMMA MinExists ==
    ASSUME NEW S, S \subseteq Nat, S # {}
    PROVE  \E x \in S : \A y \in S : x <= y
<1>1. PICK R : R = OpToRel(<, Nat)
  OBVIOUS
<1>2. IsWellFoundedOn(R, Nat)
  BY <1>1, NatLessThanWellFounded
<1>3. PICK x \in S : \A y \in S : <<y, x>> \notin R
  BY <1>2, WFMin
<1>4. \A y \in S : ~(y < x)
  BY <1>1, <1>3 DEF OpToRel
<1>5. QED BY <1>4

\* The lowest free slot of a type.
LEMMA NewIs ==
    ASSUME VifConstants, VifShape, NEW t \in Types, Avail(t) # {}
    PROVE  /\ LowestAvail(t) \in Slots /\ ~Exists(LowestAvail(t)) /\ (LowestAvail(t) \in Vlan <=> t = "VLAN")
           /\ vif' = [vif EXCEPT ![LowestAvail(t)] = New(t)] => Becomes(LowestAvail(t), t, FALSE, 0, FALSE)
           /\ vif' = [vif EXCEPT ![LowestAvail(t)] = [New(t) EXCEPT !.idx = LowestAvail(t)]] =>
                 Becomes(LowestAvail(t), t, FALSE, LowestAvail(t), FALSE)
<1>1. Avail(t) \subseteq Nat /\ Avail(t) \subseteq Slots
  BY DEF Avail, Slots, Regular, Vlan, VifConstants
<1>2. \E s \in Avail(t) : \A u \in Avail(t) : s <= u
  BY <1>1, MinExists
<1>3. LowestAvail(t) \in Avail(t)
  BY <1>2 DEF LowestAvail
<1>4. LowestAvail(t) \in Slots /\ ~Exists(LowestAvail(t)) /\ (LowestAvail(t) \in Vlan <=> t = "VLAN")
  BY <1>1, <1>3, SlotsFinite DEF Avail
<1>5. /\ New(t) \in Records /\ [New(t) EXCEPT !.idx = LowestAvail(t)] \in Records
      /\ New(t).type = t /\ New(t).up = FALSE /\ New(t).idx = 0 /\ New(t).run = FALSE
      /\ [New(t) EXCEPT !.idx = LowestAvail(t)].type = t /\ [New(t) EXCEPT !.idx = LowestAvail(t)].up = FALSE
      /\ [New(t) EXCEPT !.idx = LowestAvail(t)].idx = LowestAvail(t) /\ [New(t) EXCEPT !.idx = LowestAvail(t)].run = FALSE
  BY <1>4, SlotsFinite DEF New, Records
<1>6. ASSUME NEW r \in Records, vif' = [vif EXCEPT ![LowestAvail(t)] = r]
      PROVE  /\ vif' \in [Slots -> Records \cup {NULL}] /\ vif'[LowestAvail(t)] = r
             /\ \A s \in Slots \ {LowestAvail(t)} : vif'[s] = vif[s]
  BY <1>4, <1>6 DEF VifShape
<1>7. QED BY <1>4, <1>5, <1>6 DEF Becomes

\* What follows for the set of interfaces that exist, and of those that are up.
LEMMA BecomesIs ==
    ASSUME VifConstants, VifShape, NEW v \in Slots, NEW t, NEW u \in BOOLEAN, NEW i, NEW r, Becomes(v, t, u, i, r)
    PROVE  /\ \A s \in Slots : Exists(s)' <=> Exists(s) \/ s = v
           /\ UpVifs' = IF u THEN UpVifs \cup {v} ELSE UpVifs \ {v}
<1>1. vif'[v] # NULL /\ vif'[v].up = u /\ \A s \in Slots \ {v} : vif'[s] = vif[s]
  BY DEF Becomes, VifConstants
<1>2. UpVifs' = {s \in Slots : vif'[s] # NULL /\ vif'[s].up}
  BY DEF UpVifs, Exists
<1>3. UpVifs = {s \in Slots : vif[s] # NULL /\ vif[s].up}
  BY DEF UpVifs, Exists
<1>4. QED BY <1>1, <1>2, <1>3 DEF Exists

\* An operation under way has an interface.
LEMMA OpIs ==
    ASSUME VifConstants, VifShape, ~At("idle")
    PROVE  vif_op.v \in Slots /\ Exists(vif_op.v)
BY DEF VifShape, VifOpShape, At

\* An interface is added, closed.
LEMMA AddMoves ==
    ASSUME VifConstants, VifShape, NEW t \in Types, rwnx_interface_add(t)
    PROVE  \E s \in Slots : ~Exists(s) /\ (s \in Vlan <=> t = "VLAN") /\ t # "P2PDEV" /\ Becomes(s, t, FALSE, 0, FALSE)
BY NewIs DEF rwnx_interface_add

\* The P2P device is added, closed.
LEMMA VirtualAddMoves ==
    ASSUME VifConstants, VifShape, rwnx_virtual_interface_add
    PROVE  \E s \in Slots : /\ ~Exists(s) /\ s \notin Vlan /\ Becomes(s, "P2PDEV", FALSE, s, FALSE)
                            /\ p2p_dev_vif' = IF is_p2p_alive THEN p2p_dev_vif ELSE s
BY NewIs DEF rwnx_virtual_interface_add, Types

\* A close leaves the interfaces alone, but for one that it upsets.
LEMMA CloseMoves ==
    ASSUME VifConstants, VifShape, NEW v \in Slots, rwnx_close(v)
    PROVE  vif' = vif \/ (vif_upset' # {} /\ Idle' /\ Becomes(v, vif[v].type, vif[v].up, vif[v].idx, FALSE))
<1>1. \/ vif' = vif
      \/ vif_upset' # {} /\ Idle' /\ vif' = [vif EXCEPT ![v].run = FALSE]
  BY DEF rwnx_close, BeginsAlone, Happens, Idle
<1>2. QED BY <1>1, Edits DEF rwnx_close, Running

\* The P2P device runs.
LEMMA StartMoves ==
    ASSUME VifConstants, VifShape, NEW v \in Slots, rwnx_cfgp2p_start_p2p_device(v)
    PROVE  Becomes(v, vif[v].type, vif[v].up, vif[v].idx, TRUE)
<1>1. Exists(v) /\ vif' = [vif EXCEPT ![v].run = TRUE]
  BY DEF rwnx_cfgp2p_start_p2p_device
<1>2. QED BY <1>1, Edits

\* The P2P device stops at once, or is on its way down.
LEMMA StopMoves ==
    ASSUME VifConstants, VifShape, NEW v \in Slots, rwnx_cfgp2p_stop_p2p_device(v)
    PROVE  \/ /\ vif' = vif /\ v = p2p_dev_vif /\ vif[v].up
              /\ fw_vifs' = fw_vifs \ {vif[v].idx} /\ vif_op' = [is |-> "stop_down", v |-> v]
           \/ /\ Becomes(v, vif[v].type, vif[v].up, vif[v].idx, FALSE)
              /\ ~(v = p2p_dev_vif /\ vif[v].up) /\ UNCHANGED <<fw_vifs, vif_op>>
<1>1. Exists(v)
  BY DEF rwnx_cfgp2p_stop_p2p_device, Running
<1>2. CASE v = p2p_dev_vif /\ vif[v].up
  BY <1>2 DEF rwnx_cfgp2p_stop_p2p_device, RemoveIf, Goes
<1>3. CASE ~(v = p2p_dev_vif /\ vif[v].up)
  <2>1. vif' = [vif EXCEPT ![v].run = FALSE] /\ UNCHANGED <<fw_vifs, vif_op>>
    BY <1>3 DEF rwnx_cfgp2p_stop_p2p_device
  <2>2. QED BY <1>1, <1>3, <2>1, Edits
<1>4. QED BY <1>2, <1>3

\* The P2P device, or an interface that is opened, is added to the firmware.
Added(v, i, r) ==
    /\ i \in Regular \ fw_vifs /\ fw_vifs' = fw_vifs \cup {i}
    /\ Becomes(v, vif[v].type, TRUE, i, r)
    /\ vif_table' = [vif_table EXCEPT ![i] = v] /\ vif_started' = Inc(vif_started)

\* The P2P device that a stay on a channel wants is up, and kept alive, or comes up.
LEMMA RocMoves ==
    ASSUME VifConstants, VifShape, NEW v \in Slots, RocP2pDevice(v)
    PROVE  \/ is_p2p_alive /\ UNCHANGED <<books, fw_vifs, is_p2p_alive>>
           \/ ~is_p2p_alive /\ UNCHANGED <<books, fw_vifs, is_p2p_alive, alive_timer>>
           \/ ~is_p2p_alive /\ ArmAliveTimer /\ \E i \in Regular : Added(v, i, vif[v].run)
<1>1. Exists(v)
  BY DEF RocP2pDevice, Running
<1>2. CASE is_p2p_alive
  BY <1>2 DEF RocP2pDevice
<1>3. CASE ~is_p2p_alive
  <2>1. \/ UNCHANGED <<books, fw_vifs, is_p2p_alive, alive_timer>>
        \/ ArmAliveTimer /\ \E i \in Regular \ fw_vifs : fw_vifs' = fw_vifs \cup {i} /\ Attach(v, i)
    BY <1>3 DEF RocP2pDevice, AddIf
  <2>2. ASSUME NEW i \in Regular \ fw_vifs, fw_vifs' = fw_vifs \cup {i}, Attach(v, i) PROVE Added(v, i, vif[v].run)
    BY <1>1, <2>2, Edits, SlotsFinite DEF Attach, Added
  <2>3. QED BY <1>3, <2>1, <2>2
<1>4. QED BY <1>2, <1>3

\* The P2P device is taken down for the interface that opens, or is not there.
LEMMA OpenP2pMoves ==
    ASSUME VifConstants, VifShape, OpenP2pDevice
    PROVE  \/ /\ UNCHANGED <<books, fw_vifs>> /\ ArmAliveTimer /\ vif_op' = [is |-> "open_add", v |-> vif_op.v]
              /\ DevExists => vif[p2p_dev_vif].up
           \/ UNCHANGED <<books, fw_vifs, is_p2p_alive, alive_timer>> /\ Idle'
           \/ /\ ArmAliveTimer /\ vif_op' = [is |-> "open_add", v |-> vif_op.v] /\ p2p_dev_vif # NULL
              /\ DevExists => ~vif[p2p_dev_vif].up
              /\ \E i \in Regular \ fw_vifs : fw_vifs' = fw_vifs \cup {i} /\ Attach(p2p_dev_vif, i)
<1>1. PICK is_up \in IF p2p_dev_vif = NULL THEN {TRUE} ELSE IF DevExists THEN {vif[p2p_dev_vif].up} ELSE BOOLEAN :
          \/ is_up /\ ArmAliveTimer /\ Goes("open_add", vif_op.v) /\ UNCHANGED <<books, fw_vifs>>
          \/ ~is_up /\ Ends /\ UNCHANGED fw_vifs /\ UNCHANGED <<books, is_p2p_alive, alive_timer, alive_count>>
          \/ ~is_up /\ \E i \in Regular \ fw_vifs :
                fw_vifs' = fw_vifs \cup {i} /\ Attach(p2p_dev_vif, i) /\ ArmAliveTimer /\ Goes("open_add", vif_op.v)
  BY DEF OpenP2pDevice, AddIf
<1>2. (DevExists => is_up = vif[p2p_dev_vif].up) /\ (~is_up => p2p_dev_vif # NULL)
  BY <1>1 DEF DevExists
<1>3. QED BY <1>1, <1>2 DEF Goes, Ends, Idle

\* An interface that opens has a number, and comes up.
LEMMA AttachMoves ==
    ASSUME VifConstants, VifShape, NEW v \in Slots, NEW i \in Regular, Attach(v, i)
    PROVE  (vif' = vif /\ ~Exists(v)) \/ Becomes(v, vif[v].type, TRUE, i, vif[v].run)
BY Edits, SlotsFinite DEF Attach

\* An open that waited comes up.
LEMMA OpenAddMoves ==
    ASSUME VifConstants, VifShape, OpenAddIf
    PROVE  \/ UNCHANGED <<books, fw_vifs>>
           \/ \E i \in Slots : /\ i = vif_op.v /\ vif[vif_op.v].type = "VLAN" /\ UNCHANGED fw_vifs
                               /\ Becomes(vif_op.v, vif[vif_op.v].type, TRUE, i, TRUE)
                               /\ vif_table' = [vif_table EXCEPT ![i] = vif_op.v] /\ vif_started' = Inc(vif_started)
           \/ vif[vif_op.v].type # "VLAN" /\ \E i \in Regular : Added(vif_op.v, i, TRUE)
<1>1. vif_op.v \in Slots /\ Exists(vif_op.v)
  BY OpIs DEF OpenAddIf, At
<1> DEFINE v == vif_op.v
           Started(i) == /\ vif' = [vif EXCEPT ![v].up = TRUE, ![v].idx = i, ![v].run = TRUE]
                         /\ vif_table' = [vif_table EXCEPT ![i] = v] /\ vif_started' = Inc(vif_started)
<1>2. \/ UNCHANGED <<books, fw_vifs>>
      \/ vif[v].type = "VLAN" /\ Started(v) /\ UNCHANGED fw_vifs
      \/ vif[v].type # "VLAN" /\ \E i \in Regular \ fw_vifs : fw_vifs' = fw_vifs \cup {i} /\ Started(i)
  BY DEF OpenAddIf, AddIf
<1>3. \A i \in Slots : Started(i) => Becomes(v, vif[v].type, TRUE, i, TRUE)
  BY <1>1, Edits
<1>4. QED BY <1>1, <1>2, <1>3, SlotsFinite DEF Added

\* The interface whose type was changed comes back.
LEMMA ChangeAddMoves ==
    ASSUME VifConstants, VifShape, ChangeAddIf
    PROVE  \/ UNCHANGED <<vif, vif_table, fw_vifs>> /\ vif_upset' # {}
           \/ \E i \in Regular \ fw_vifs :
                 /\ fw_vifs' = fw_vifs \cup {i} /\ vif_table' = [vif_table EXCEPT ![i] = vif_op.v]
                 /\ Becomes(vif_op.v, vif[vif_op.v].type, vif[vif_op.v].up, i, vif[vif_op.v].run)
<1>1. vif_op.v \in Slots /\ Exists(vif_op.v)
  BY OpIs DEF ChangeAddIf, At
<1>2. \/ UNCHANGED <<vif, vif_table, fw_vifs>> /\ vif_upset' # {}
      \/ \E i \in Regular \ fw_vifs :
            /\ fw_vifs' = fw_vifs \cup {i} /\ vif_table' = [vif_table EXCEPT ![i] = vif_op.v]
            /\ vif' = [vif EXCEPT ![vif_op.v].idx = i]
  BY DEF ChangeAddIf, AddIf, Happens
<1>3. QED BY <1>1, <1>2, Edits, SlotsFinite

\* A change of type takes effect at once, or takes the interface out.
LEMMA ChangeMoves ==
    ASSUME VifConstants, VifShape, NEW v \in Slots, NEW t \in Types, rwnx_cfg80211_change_iface(v, t)
    PROVE  Exists(v) /\ Becomes(v, t, vif[v].up, vif[v].idx, vif[v].run)
<1>1. Exists(v) /\ vif' = [vif EXCEPT ![v].type = t]
  BY DEF rwnx_cfg80211_change_iface
<1>2. QED BY <1>1, Edits

\* An interface that has left the firmware leaves the table.
LEMMA DownMoves ==
    ASSUME VifConstants, VifShape
    PROVE  /\ CloseDown => Becomes(vif_op.v, vif[vif_op.v].type, FALSE, vif[vif_op.v].idx, vif[vif_op.v].run)
           /\ CloseCount => Becomes(vif_op.v, vif[vif_op.v].type, vif[vif_op.v].up, vif[vif_op.v].idx, FALSE)
           /\ StopDown => Becomes(vif_op.v, vif[vif_op.v].type, FALSE, vif[vif_op.v].idx, FALSE)
<1>1. ASSUME CloseDown \/ CloseCount \/ StopDown PROVE vif_op.v \in Slots /\ Exists(vif_op.v)
  BY <1>1, OpIs DEF CloseDown, CloseCount, StopDown, At
<1>2. CloseDown => vif' = [vif EXCEPT ![vif_op.v].up = FALSE]
  BY DEF CloseDown
<1>3. CloseCount => vif' = [vif EXCEPT ![vif_op.v].run = FALSE]
  BY DEF CloseCount
<1>4. StopDown => vif' = [vif EXCEPT ![vif_op.v].up = FALSE, ![vif_op.v].run = FALSE]
  BY DEF StopDown
<1>5. QED BY <1>1, <1>2, <1>3, <1>4, Edits

\* The P2P device leaves the table when its timer has run out.
LEMMA AliveDownMoves ==
    ASSUME VifConstants, VifShape, AliveTimeoutDown
    PROVE  \/ ~DevExists /\ UNCHANGED books
           \/ /\ DevExists /\ p2p_dev_vif \in Slots /\ vif_started' = Dec(vif_started)
              /\ Becomes(p2p_dev_vif, vif[p2p_dev_vif].type, FALSE, vif[p2p_dev_vif].idx, vif[p2p_dev_vif].run)
              /\ vif_table' = [vif_table EXCEPT ![vif[p2p_dev_vif].idx] = NULL]
<1>1. CASE ~DevExists
  BY <1>1 DEF AliveTimeoutDown
<1>2. CASE DevExists
  <2>1. p2p_dev_vif \in Slots /\ Exists(p2p_dev_vif)
    BY <1>2 DEF DevExists, VifShape, VifNumbers
  <2>2. /\ vif' = [vif EXCEPT ![p2p_dev_vif].up = FALSE] /\ vif_started' = Dec(vif_started)
        /\ vif_table' = [vif_table EXCEPT ![vif[p2p_dev_vif].idx] = NULL]
    BY <1>2 DEF AliveTimeoutDown, Detach
  <2>3. QED BY <1>2, <2>1, <2>2, Edits
<1>3. QED BY <1>1, <1>2

-----------------------------------------------------------------------------
\* The shape of the books is kept.

\* A step keeps the interfaces in their ranges.
LEMMA VifKept ==
    ASSUME VifConstants, VifShape, VifNext
    PROVE  vif' \in [Slots -> Records \cup {NULL}]
<1>1. ASSUME NEW t \in Types, rwnx_interface_add(t) PROVE vif' \in [Slots -> Records \cup {NULL}]
  BY <1>1, AddMoves DEF rwnx_interface_add, Becomes, Added, VifShape, VifNumbers, books, Records
<1>2. ASSUME rwnx_virtual_interface_add PROVE vif' \in [Slots -> Records \cup {NULL}]
  BY <1>2, VirtualAddMoves DEF rwnx_virtual_interface_add, Becomes, Added, VifShape, VifNumbers, books, Records
<1>3. ASSUME NEW v \in Slots, rwnx_cfg80211_del_iface(v) PROVE vif' \in [Slots -> Records \cup {NULL}]
  BY <1>3 DEF rwnx_cfg80211_del_iface, Exists, Idle, At, Calm, Happens, Begins, VifShape, VifNumbers, VifOpShape
<1>4. ASSUME NEW v \in Slots, rwnx_open(v) PROVE vif' \in [Slots -> Records \cup {NULL}]
  BY <1>4 DEF rwnx_open, DevExists, Exists, Idle, At, Goes, Calm, Happens, Begins, BeginsAlone, VifShape, VifNumbers, VifOpShape
<1>5. ASSUME NEW v \in Slots, rwnx_close(v) PROVE vif' \in [Slots -> Records \cup {NULL}]
  BY <1>5, CloseMoves DEF rwnx_close, Becomes, Added, VifShape, VifNumbers, books, Records
<1>6. ASSUME NEW v \in Slots, rwnx_cfgp2p_start_p2p_device(v) PROVE vif' \in [Slots -> Records \cup {NULL}]
  BY <1>6, StartMoves DEF rwnx_cfgp2p_start_p2p_device, Becomes, Added, VifShape, VifNumbers, books, Records
<1>7. ASSUME NEW v \in Slots, rwnx_cfgp2p_stop_p2p_device(v) PROVE vif' \in [Slots -> Records \cup {NULL}]
  BY <1>7, StopMoves DEF rwnx_cfgp2p_stop_p2p_device, Becomes, Added, VifShape, VifNumbers, books, Records
<1>8. ASSUME NEW v \in Slots, RocP2pDevice(v) PROVE vif' \in [Slots -> Records \cup {NULL}]
  BY <1>8, RocMoves DEF RocP2pDevice, Becomes, Added, VifShape, VifNumbers, books, Records
<1>9. ASSUME NEW v \in Slots, ScanEvent(v) PROVE vif' \in [Slots -> Records \cup {NULL}]
  BY <1>9 DEF ScanEvent, Exists, Running, Idle, At, Calm, Happens, Begins, books, VifShape, VifNumbers, VifOpShape
<1>10. ASSUME NEW v \in Slots, NEW t \in Types, rwnx_cfg80211_change_iface(v, t) PROVE vif' \in [Slots -> Records \cup {NULL}]
  BY <1>10, ChangeMoves DEF rwnx_cfg80211_change_iface, Becomes, Added, VifShape, VifNumbers, books, Records
<1>11. ASSUME OpenP2pDevice PROVE vif' \in [Slots -> Records \cup {NULL}]
  <2>1. p2p_dev_vif # NULL => p2p_dev_vif \in Slots
    BY DEF VifShape, VifNumbers
  <2>2. QED BY <1>11, <2>1, OpenP2pMoves, AttachMoves DEF Becomes, VifShape, books
<1>12. ASSUME OpenAddIf PROVE vif' \in [Slots -> Records \cup {NULL}]
  BY <1>12, OpenAddMoves DEF OpenAddIf, Becomes, Added, VifShape, VifNumbers, books, Records
<1>13. ASSUME CloseDown PROVE vif' \in [Slots -> Records \cup {NULL}]
  BY <1>13, DownMoves DEF CloseDown, Becomes, Added, VifShape, VifNumbers, books, Records
<1>14. ASSUME CloseCount PROVE vif' \in [Slots -> Records \cup {NULL}]
  BY <1>14, DownMoves DEF CloseCount, Becomes, Added, VifShape, VifNumbers, books, Records
<1>15. ASSUME ChangeAddIf PROVE vif' \in [Slots -> Records \cup {NULL}]
  BY <1>15, ChangeAddMoves DEF ChangeAddIf, Becomes, Added, VifShape, VifNumbers, books, Records
<1>16. ASSUME StopDown PROVE vif' \in [Slots -> Records \cup {NULL}]
  BY <1>16, DownMoves DEF StopDown, Becomes, Added, VifShape, VifNumbers, books, Records
<1>17. ASSUME aicwf_p2p_alive_timeout PROVE vif' \in [Slots -> Records \cup {NULL}]
  BY <1>17 DEF aicwf_p2p_alive_timeout, P2pInterfaces, DevExists, RemoveIf, Exists, Idle, At, Calm, Happens, books, VifShape, VifNumbers, VifOpShape
<1>18. ASSUME AliveTimeoutDown PROVE vif' \in [Slots -> Records \cup {NULL}]
  BY <1>18, AliveDownMoves DEF AliveTimeoutDown, Becomes, Added, VifShape, VifNumbers, books, Records
<1>19. QED BY <1>1, <1>2, <1>3, <1>4, <1>5, <1>6, <1>7, <1>8, <1>9, <1>10, <1>11, <1>12, <1>13, <1>14, <1>15, <1>16, <1>17, <1>18 DEF VifNext, KernelBegins, KernelGoesOn

\* An interface is entered in the table and in the count.
LEMMA AddedNumbers ==
    ASSUME VifConstants, VifShape, NEW v \in Slots, NEW i \in Slots, vif_table' = [vif_table EXCEPT ![i] = v],
           vif_started' = Inc(vif_started)
    PROVE  vif_table' \in [Slots -> Slots \cup {NULL}] /\ vif_started' \in 0 .. 255
BY DEF VifShape, VifNumbers, Inc

\* An operation that goes on has an interface.
LEMMA NewOp ==
    ASSUME VifConstants, NEW v \in Slots, Exists(v)', NEW op \in {"open_p2p", "open_add", "close_down", "close_count", "change_add", "stop_down"},
           vif_op' = [is |-> op, v |-> v]
    PROVE  VifOpShape'
<1>1. vif_op'.is = op /\ vif_op'.v = v /\ op # "idle" /\ v # NULL
  BY DEF VifConstants
<1>2. QED BY <1>1 DEF VifOpShape, At

\* A step keeps the table, the count and the firmware's numbers in their ranges.
LEMMA NumbersKept ==
    ASSUME VifConstants, VifShape, VifNext
    PROVE  VifNumbers'
<1>1. ASSUME NEW t \in Types, rwnx_interface_add(t) PROVE VifNumbers'
  BY <1>1 DEF rwnx_interface_add, New, NoMonitorClash, Exists, Idle, At, Calm, Happens, Begins, p2pVars, Records, VifShape, VifConstants, VifNumbers, VifOpShape
<1>2. ASSUME rwnx_virtual_interface_add PROVE VifNumbers'
  BY <1>2, VirtualAddMoves DEF rwnx_virtual_interface_add, VifShape, VifNumbers
<1>3. ASSUME NEW v \in Slots, rwnx_cfg80211_del_iface(v) PROVE VifNumbers'
  BY <1>3 DEF rwnx_cfg80211_del_iface, Exists, Idle, At, Calm, Happens, Begins, p2pVars, Records, VifShape, VifConstants, VifNumbers, VifOpShape
<1>4. ASSUME NEW v \in Slots, rwnx_open(v) PROVE VifNumbers'
  BY <1>4 DEF rwnx_open, DevExists, Exists, Idle, At, Goes, Calm, Happens, Begins, BeginsAlone, p2pVars, Records, VifShape, VifConstants, Inc, VifNumbers, VifOpShape
<1>5. ASSUME NEW v \in Slots, rwnx_close(v) PROVE VifNumbers'
  BY <1>5 DEF rwnx_close, RemoveIf, Exists, Running, Idle, At, Goes, Calm, Happens, Begins, BeginsAlone, p2pVars, Records, VifShape, VifConstants, VifNumbers, VifOpShape
<1>6. ASSUME NEW v \in Slots, rwnx_cfgp2p_start_p2p_device(v) PROVE VifNumbers'
  BY <1>6 DEF rwnx_cfgp2p_start_p2p_device, Exists, Idle, At, Calm, Happens, Begins, p2pVars, Records, VifShape, VifConstants, VifNumbers, VifOpShape
<1>7. ASSUME NEW v \in Slots, rwnx_cfgp2p_stop_p2p_device(v) PROVE VifNumbers'
  BY <1>7 DEF rwnx_cfgp2p_stop_p2p_device, RemoveIf, DeleteAliveTimer, Exists, Running, Idle, At, Goes, Calm, Happens, Begins, VifShape, VifNumbers, VifOpShape
<1>8. ASSUME NEW v \in Slots, RocP2pDevice(v) PROVE VifNumbers'
  <2>1. UNCHANGED <<fw_on, p2p_dev_vif, alive_cb>> /\ (is_p2p_alive' \in BOOLEAN /\ alive_timer' \in BOOLEAN)
    BY <1>8 DEF RocP2pDevice, ArmAliveTimer, AddIf, VifShape, VifNumbers
  <2>2. CASE UNCHANGED <<books, fw_vifs>>
    BY <2>1, <2>2 DEF books, VifShape, VifNumbers
  <2>3. CASE \E i \in Regular : Added(v, i, vif[v].run)
    BY <2>1, <2>3, AddedNumbers, SlotsFinite DEF Added, VifShape, VifNumbers
  <2>4. QED BY <1>8, <2>2, <2>3, RocMoves
<1>9. ASSUME NEW v \in Slots, ScanEvent(v) PROVE VifNumbers'
  BY <1>9 DEF ScanEvent, Exists, Running, Idle, At, Calm, Happens, Begins, books, p2pVars, Records, VifShape, VifConstants, VifNumbers, VifOpShape
<1>10. ASSUME NEW v \in Slots, NEW t \in Types, rwnx_cfg80211_change_iface(v, t) PROVE VifNumbers'
  BY <1>10 DEF rwnx_cfg80211_change_iface, RemoveIf, ForgetIndex, Detach, Exists, Idle, At, Goes, Calm, Happens, Begins, BeginsAlone, p2pVars, Records, VifShape, VifConstants, VifNumbers, VifOpShape
<1>11. ASSUME OpenP2pDevice PROVE VifNumbers'
  <2>1. UNCHANGED <<fw_on, p2p_dev_vif, alive_cb>> /\ is_p2p_alive' \in BOOLEAN /\ alive_timer' \in BOOLEAN
    BY <1>11, OpenP2pMoves DEF OpenP2pDevice, ArmAliveTimer, VifShape, VifNumbers
  <2>2. CASE UNCHANGED <<books, fw_vifs>>
    BY <2>1, <2>2 DEF books, VifShape, VifNumbers
  <2>3. CASE p2p_dev_vif # NULL /\ \E i \in Regular \ fw_vifs : fw_vifs' = fw_vifs \cup {i} /\ Attach(p2p_dev_vif, i)
    BY <2>1, <2>3, AddedNumbers, SlotsFinite DEF Attach, VifShape, VifNumbers
  <2>4. QED BY <1>11, <2>2, <2>3, OpenP2pMoves
<1>12. ASSUME OpenAddIf PROVE VifNumbers'
  <2>1. vif_op.v \in Slots /\ UNCHANGED <<fw_on, p2p_dev_vif, is_p2p_alive, alive_timer, alive_cb>>
    BY <1>12, OpIs DEF OpenAddIf, At, p2pVars
  <2>2. CASE UNCHANGED <<books, fw_vifs>>
    BY <2>1, <2>2 DEF books, VifShape, VifNumbers
  <2>3. CASE \E i \in Slots : /\ vif_table' = [vif_table EXCEPT ![i] = vif_op.v] /\ vif_started' = Inc(vif_started)
                           /\ fw_vifs' = fw_vifs
    <3>1. PICK i \in Slots : vif_table' = [vif_table EXCEPT ![i] = vif_op.v] /\ vif_started' = Inc(vif_started) /\ fw_vifs' = fw_vifs
      BY <2>3
    <3>2. vif_table' \in [Slots -> Slots \cup {NULL}] /\ vif_started' \in 0 .. 255
      BY <2>1, <3>1, AddedNumbers
    <3>3. QED BY <2>1, <3>1, <3>2 DEF VifShape, VifNumbers
  <2>4. CASE \E i \in Regular : Added(vif_op.v, i, TRUE)
    <3>1. PICK i \in Regular : Added(vif_op.v, i, TRUE)
      BY <2>4
    <3>2. i \in Slots /\ vif_table' = [vif_table EXCEPT ![i] = vif_op.v] /\ vif_started' = Inc(vif_started) /\ fw_vifs' = fw_vifs \cup {i}
      BY <3>1, SlotsFinite DEF Added
    <3>3. vif_table' \in [Slots -> Slots \cup {NULL}] /\ vif_started' \in 0 .. 255
      BY <2>1, <3>2, AddedNumbers
    <3>4. QED BY <2>1, <3>2, <3>3 DEF VifShape, VifNumbers
  <2>5. QED BY <1>12, <2>2, <2>3, <2>4, OpenAddMoves
<1>13. ASSUME CloseDown PROVE VifNumbers'
  BY <1>13 DEF CloseDown, Detach, Exists, At, Goes, Calm, p2pVars, Records, VifShape, VifConstants, VifNumbers, VifOpShape
<1>14. ASSUME CloseCount PROVE VifNumbers'
  BY <1>14 DEF CloseCount, LastClosed, Exists, At, Ends, Calm, p2pVars, Records, VifShape, VifConstants, Dec, VifNumbers, VifOpShape
<1>15. ASSUME ChangeAddIf PROVE VifNumbers'
  BY <1>15 DEF ChangeAddIf, AddIf, Exists, At, Ends, Calm, Happens, p2pVars, Records, VifShape, VifConstants, VifNumbers, VifOpShape
<1>16. ASSUME StopDown PROVE VifNumbers'
  BY <1>16 DEF StopDown, Detach, Exists, At, Ends, Calm, p2pVars, Records, VifShape, VifConstants, Dec, VifNumbers, VifOpShape
<1>17. ASSUME aicwf_p2p_alive_timeout PROVE VifNumbers'
  BY <1>17 DEF aicwf_p2p_alive_timeout, P2pInterfaces, DevExists, RemoveIf, Exists, Idle, At, Calm, Happens, books, VifShape, VifNumbers, VifOpShape
<1>18. ASSUME AliveTimeoutDown PROVE VifNumbers'
  BY <1>18 DEF AliveTimeoutDown, DevExists, Detach, Exists, Idle, At, Calm, Happens, books, VifShape, Dec, VifNumbers, VifOpShape
<1>19. QED BY <1>1, <1>2, <1>3, <1>4, <1>5, <1>6, <1>7, <1>8, <1>9, <1>10, <1>11, <1>12, <1>13, <1>14, <1>15, <1>16, <1>17, <1>18 DEF VifNext, KernelBegins, KernelGoesOn

\* A step keeps the operation under way one that has an interface.
LEMMA OpShapeKept ==
    ASSUME VifConstants, VifShape, VifNext
    PROVE  VifOpShape'
<1>1. ASSUME NEW t \in Types, rwnx_interface_add(t) PROVE VifOpShape'
  BY <1>1 DEF rwnx_interface_add, New, NoMonitorClash, Exists, Idle, At, Calm, Happens, Begins, VifShape, VifNumbers, VifOpShape
<1>2. ASSUME rwnx_virtual_interface_add PROVE VifOpShape'
  BY <1>2 DEF rwnx_virtual_interface_add, New, Exists, Idle, At, Calm, Happens, Begins, VifShape, VifNumbers, VifOpShape
<1>3. ASSUME NEW v \in Slots, rwnx_cfg80211_del_iface(v) PROVE VifOpShape'
  BY <1>3 DEF rwnx_cfg80211_del_iface, Exists, Idle, At, Calm, Happens, Begins, VifShape, VifNumbers, VifOpShape
<1>4. ASSUME NEW v \in Slots, rwnx_open(v) PROVE VifOpShape'
  <2>1. CASE UNCHANGED <<vif, vif_op>>
    BY <2>1 DEF VifShape, VifOpShape, At, Exists
  <2>2. CASE vif' = vif /\ \E op \in {"open_p2p", "open_add"} : vif_op' = [is |-> op, v |-> v]
    <3>1. Exists(v)'
      BY <1>4, <2>2 DEF rwnx_open, Exists
    <3>2. QED BY <2>2, <3>1, NewOp
  <2>3. QED BY <1>4, <2>1, <2>2 DEF rwnx_open, Goes
<1>5. ASSUME NEW v \in Slots, rwnx_close(v) PROVE VifOpShape'
  BY <1>5 DEF rwnx_close, RemoveIf, Exists, Running, Idle, At, Goes, Calm, Happens, Begins, BeginsAlone, p2pVars, Records, VifShape, VifConstants, VifNumbers, VifOpShape
<1>6. ASSUME NEW v \in Slots, rwnx_cfgp2p_start_p2p_device(v) PROVE VifOpShape'
  BY <1>6 DEF rwnx_cfgp2p_start_p2p_device, Exists, Idle, At, Calm, Happens, Begins, VifShape, VifNumbers, VifOpShape
<1>7. ASSUME NEW v \in Slots, rwnx_cfgp2p_stop_p2p_device(v) PROVE VifOpShape'
  BY <1>7 DEF rwnx_cfgp2p_stop_p2p_device, RemoveIf, DeleteAliveTimer, Exists, Running, Idle, At, Goes, Calm, Happens, Begins, Records, VifShape, VifConstants, VifNumbers, VifOpShape
<1>8. ASSUME NEW v \in Slots, RocP2pDevice(v) PROVE VifOpShape'
  BY <1>8 DEF RocP2pDevice, AddIf, Attach, ArmAliveTimer, Exists, Running, Idle, At, Calm, Happens, Begins, BeginsAlone, books, VifShape, VifNumbers, VifOpShape
<1>9. ASSUME NEW v \in Slots, ScanEvent(v) PROVE VifOpShape'
  BY <1>9 DEF ScanEvent, Exists, Running, Idle, At, Calm, Happens, Begins, books, VifShape, VifNumbers, VifOpShape
<1>10. ASSUME NEW v \in Slots, NEW t \in Types, rwnx_cfg80211_change_iface(v, t) PROVE VifOpShape'
  BY <1>10 DEF rwnx_cfg80211_change_iface, RemoveIf, ForgetIndex, Detach, Exists, Idle, At, Goes, Calm, Happens, Begins, BeginsAlone, p2pVars, Records, VifShape, VifConstants, VifNumbers, VifOpShape
<1>11. ASSUME OpenP2pDevice PROVE VifOpShape'
  <2>1. vif_op.v \in Slots /\ Exists(vif_op.v)
    BY <1>11, OpIs DEF OpenP2pDevice, At
  <2>2. vif'[vif_op.v] # NULL
    <3>1. vif' = vif \/ (p2p_dev_vif \in Slots /\ \E i \in Regular : Attach(p2p_dev_vif, i))
      BY <1>11, OpenP2pMoves DEF books, VifShape, VifNumbers
    <3>2. CASE vif' = vif
      BY <2>1, <3>2 DEF Exists
    <3>3. ASSUME p2p_dev_vif \in Slots, NEW i \in Regular,
                 Becomes(p2p_dev_vif, vif[p2p_dev_vif].type, TRUE, i, vif[p2p_dev_vif].run)
          PROVE  vif'[vif_op.v] # NULL
      BY <2>1, <3>3 DEF Becomes, VifConstants, Exists
    <3>4. QED BY <3>1, <3>2, <3>3, AttachMoves
  <2>3. Idle' \/ vif_op' = [is |-> "open_add", v |-> vif_op.v]
    BY <1>11, OpenP2pMoves
  <2>4. CASE Idle'
    BY <2>4 DEF Idle, VifOpShape, At
  <2>5. CASE vif_op' = [is |-> "open_add", v |-> vif_op.v]
    <3>1. PICK w \in Slots : w = vif_op.v
      BY <2>1
    <3>2. Exists(w)' /\ vif_op' = [is |-> "open_add", v |-> w]
      BY <2>2, <2>5, <3>1 DEF Exists
    <3>3. QED BY <3>2, NewOp
  <2>6. QED BY <2>3, <2>4, <2>5
<1>12. ASSUME OpenAddIf PROVE VifOpShape'
  BY <1>12 DEF OpenAddIf, AddIf, Exists, At, Ends, Calm, books, VifShape, VifNumbers, VifOpShape
<1>13. ASSUME CloseDown PROVE VifOpShape'
  <2>1. vif_op.v \in Slots /\ Exists(vif_op.v)
    BY <1>13, OpIs DEF CloseDown, At
  <2>2. Exists(vif_op.v)' /\ vif_op' = [is |-> "close_count", v |-> vif_op.v]
    BY <1>13, <2>1, DownMoves, BecomesIs DEF CloseDown, Goes
  <2>3. QED BY <2>1, <2>2, NewOp
<1>14. ASSUME CloseCount PROVE VifOpShape'
  BY <1>14 DEF CloseCount, LastClosed, Exists, At, Ends, Calm, VifShape, VifNumbers, VifOpShape
<1>15. ASSUME ChangeAddIf PROVE VifOpShape'
  BY <1>15 DEF ChangeAddIf, AddIf, Exists, At, Ends, Calm, Happens, VifShape, VifNumbers, VifOpShape
<1>16. ASSUME StopDown PROVE VifOpShape'
  BY <1>16 DEF StopDown, Detach, Exists, At, Ends, Calm, VifShape, VifNumbers, VifOpShape
<1>17. ASSUME aicwf_p2p_alive_timeout PROVE VifOpShape'
  BY <1>17 DEF aicwf_p2p_alive_timeout, P2pInterfaces, DevExists, RemoveIf, Exists, Idle, At, Calm, Happens, books, VifShape, VifNumbers, VifOpShape
<1>18. ASSUME AliveTimeoutDown PROVE VifOpShape'
  <2>1. vif_op' = vif_op
    BY <1>18 DEF AliveTimeoutDown
  <2>2. ASSUME ~At("idle") PROVE vif'[vif_op.v] # NULL
    <3>1. vif' = vif \/ (p2p_dev_vif \in Slots /\ Becomes(p2p_dev_vif, vif[p2p_dev_vif].type, FALSE, vif[p2p_dev_vif].idx, vif[p2p_dev_vif].run))
      BY <1>18, AliveDownMoves DEF books
    <3>2. vif_op.v \in Slots /\ vif[vif_op.v] # NULL
      BY <2>2, OpIs DEF Exists
    <3>3. QED BY <3>1, <3>2 DEF Becomes, VifConstants
  <2>3. QED BY <2>1, <2>2 DEF At, VifShape, VifOpShape, Exists
<1>19. QED BY <1>1, <1>2, <1>3, <1>4, <1>5, <1>6, <1>7, <1>8, <1>9, <1>10, <1>11, <1>12, <1>13, <1>14, <1>15, <1>16, <1>17, <1>18 DEF VifNext, KernelBegins, KernelGoesOn

\* A step keeps all of them.
LEMMA ShapeKept ==
    ASSUME VifConstants, VifShape, VifNext
    PROVE  VifShape'
BY VifKept, NumbersKept, OpShapeKept DEF VifShape

-----------------------------------------------------------------------------
\* The operations and the P2P device, while nothing upsets the books.

\* The firmware is on while an interface is counted.
LEMMA Started ==
    ASSUME VifConstants, VifShape, Count, Idle, vif_started # 0
    PROVE  fw_on
<1>1. CASE UpVifs = {}
  <2>1. Cardinality(UpVifs) = 0 /\ ~At("close_count")
    BY <1>1, FS_EmptySet DEF Idle, At
  <2>2. QED BY <2>1 DEF Count
<1>2. QED BY <1>1 DEF Count

\* A step without upset keeps the interfaces as the operations take them.
LEMMA OpsKept ==
    ASSUME VifConstants, VifShape, Ops, Device, Table, Count, vif_upset = {}, vif_upset' = {}, VifNext
    PROVE  Ops'
<1>1. ASSUME NEW t \in Types, rwnx_interface_add(t) PROVE Ops'
  <2>1. PICK s \in Slots : ~Exists(s) /\ (s \in Vlan <=> t = "VLAN") /\ t # "P2PDEV" /\ Becomes(s, t, FALSE, 0, FALSE)
    BY <1>1, AddMoves
  <2>2. Idle /\ UNCHANGED <<vif_op, alive_cb, p2p_dev_vif>>
    BY <1>1 DEF rwnx_interface_add, Begins, p2pVars
  <2>3. QED BY <2>1, <2>2 DEF Ops, At, Exists, Idle, Becomes, DevExists, VifConstants
<1>2. ASSUME rwnx_virtual_interface_add PROVE Ops'
  <2>1. PICK s \in Slots : /\ ~Exists(s) /\ s \notin Vlan /\ Becomes(s, "P2PDEV", FALSE, s, FALSE)
                         /\ p2p_dev_vif' = IF is_p2p_alive THEN p2p_dev_vif ELSE s
    BY <1>2, VirtualAddMoves
  <2>2. Idle /\ UNCHANGED <<vif_op, alive_cb>> /\ \A x \in Slots : Exists(x) => vif[x].type # "P2PDEV"
    BY <1>2 DEF rwnx_virtual_interface_add, Begins
  <2>3. ~is_p2p_alive
    BY <2>2 DEF Device, DevExists, VifShape, VifNumbers, VifConstants
  <2>4. QED BY <2>1, <2>2, <2>3 DEF Ops, At, Exists, Idle, Becomes, DevExists, VifConstants
<1>3. ASSUME NEW v \in Slots, rwnx_cfg80211_del_iface(v) PROVE Ops'
  BY <1>3 DEF rwnx_cfg80211_del_iface, Exists, Idle, At, Calm, Happens, Begins, p2pVars, Records, VifShape, VifConstants, Ops, Device, DevExists
<1>4. ASSUME NEW v \in Slots, rwnx_open(v) PROVE Ops'
  <2>1. Idle /\ UNCHANGED <<vif, alive_cb, p2p_dev_vif>> /\ Exists(v) /\ ~vif[v].run /\ vif[v].type # "P2PDEV"
    BY <1>4 DEF rwnx_open, Begins, BeginsAlone, p2pVars
  <2>2. vif[v].type # "P2PC" \/ (DevExists /\ vif[p2p_dev_vif].run)
    BY <1>4 DEF rwnx_open, Happens
  <2>3. alive_cb = "idle"
    BY <1>4 DEF rwnx_open, Begins, BeginsAlone, Happens
  <2>4. CASE UNCHANGED vif_op
    BY <2>1, <2>4 DEF Ops, At, Exists, Idle, Becomes, DevExists
  <2>5. CASE fw_on' = (fw_on \/ vif_started = 0) /\ Goes(IF vif[v].type = "P2PC" /\ ~is_p2p_alive THEN "open_p2p" ELSE "open_add", v)
    <3>1. fw_on'
      BY <2>1, <2>5, Started
    <3>2. vif_op'.v = v /\ vif_op'.is \in {"open_p2p", "open_add"} /\ (vif_op'.is = "open_p2p" => vif[v].type = "P2PC")
      BY <2>5 DEF Goes
    <3>3. QED BY <2>1, <2>2, <2>3, <3>1, <3>2 DEF Ops, At, Exists, Idle, Becomes, DevExists
  <2>6. QED BY <1>4, <2>4, <2>5 DEF rwnx_open
<1>5. ASSUME NEW v \in Slots, rwnx_close(v) PROVE Ops'
  BY <1>5 DEF rwnx_close, RemoveIf, Exists, Running, Idle, At, Goes, Calm, Happens, Begins, BeginsAlone, p2pVars, Records, VifShape, VifConstants, Ops, Device, DevExists
<1>6. ASSUME NEW v \in Slots, rwnx_cfgp2p_start_p2p_device(v) PROVE Ops'
  BY <1>6 DEF rwnx_cfgp2p_start_p2p_device, Exists, Idle, At, Calm, Happens, Begins, p2pVars, Records, VifShape, VifConstants, Ops, Device, DevExists
<1>7. ASSUME NEW v \in Slots, rwnx_cfgp2p_stop_p2p_device(v) PROVE Ops'
  BY <1>7 DEF rwnx_cfgp2p_stop_p2p_device, RemoveIf, DeleteAliveTimer, Exists, Running, Idle, At, Goes, Calm, Happens, Begins, Records, VifShape, VifConstants, Ops, Device, DevExists
<1>8. ASSUME NEW v \in Slots, RocP2pDevice(v) PROVE Ops'
  BY <1>8 DEF RocP2pDevice, AddIf, Attach, ArmAliveTimer, Exists, Running, Idle, At, Calm, Happens, Begins, BeginsAlone, books, Records, VifShape, VifConstants, Ops, Device, DevExists
<1>9. ASSUME NEW v \in Slots, ScanEvent(v) PROVE Ops'
  BY <1>9 DEF ScanEvent, Exists, Running, Idle, At, Calm, Happens, Begins, books, p2pVars, Records, VifShape, VifConstants, Ops, Device, DevExists
<1>10. ASSUME NEW v \in Slots, NEW t \in Types, rwnx_cfg80211_change_iface(v, t) PROVE Ops'
  BY <1>10 DEF rwnx_cfg80211_change_iface, RemoveIf, ForgetIndex, Detach, Exists, Idle, At, Goes, Calm, Happens, Begins, BeginsAlone, p2pVars, Records, VifShape, VifConstants, Ops, Device, DevExists
<1>11. ASSUME OpenP2pDevice PROVE Ops'
  <2>1. /\ DevExists /\ vif[p2p_dev_vif].run /\ vif[p2p_dev_vif].type = "P2PDEV" /\ p2p_dev_vif \in Slots /\ alive_cb = "idle"
        /\ vif_op.v \in Slots /\ Exists(vif_op.v) /\ ~vif[vif_op.v].run /\ vif[vif_op.v].type # "P2PDEV" /\ fw_on
        /\ p2p_dev_vif \notin Vlan /\ At("open_p2p")
    BY <1>11, OpIs DEF OpenP2pDevice, Ops, At, DevExists, VifShape, VifNumbers
  <2>2. UNCHANGED <<p2p_dev_vif, alive_cb, fw_on>>
    BY <1>11 DEF OpenP2pDevice
  <2>3. (vif_op'.is = "open_add" /\ vif_op'.v = vif_op.v) \/ Idle'
    BY <1>11, OpenP2pMoves
  <2>4. CASE UNCHANGED vif
    BY <2>1, <2>2, <2>3, <2>4 DEF Ops, At, Exists, Idle, Becomes, DevExists
  <2>5. CASE \E i \in Regular : Attach(p2p_dev_vif, i)
    <3>1. PICK i \in Regular : Becomes(p2p_dev_vif, vif[p2p_dev_vif].type, TRUE, i, vif[p2p_dev_vif].run)
      BY <2>1, <2>5, AttachMoves DEF DevExists
    <3>2. \A s \in Slots : vif'[s] # NULL <=> vif[s] # NULL
      BY <2>1, <3>1 DEF Becomes, VifConstants, DevExists, Exists
    <3>3. \A s \in Slots \ {p2p_dev_vif} : vif'[s] = vif[s]
      BY <3>1 DEF Becomes
    <3>4. /\ vif'[p2p_dev_vif].type = "P2PDEV" /\ vif'[p2p_dev_vif].up /\ vif'[p2p_dev_vif].idx \in Regular
          /\ vif'[p2p_dev_vif].run
      BY <2>1, <3>1 DEF Becomes
    <3>5. vif'[vif_op.v] = vif[vif_op.v]
      BY <2>1, <3>3
    <3>6. ~At("close_count") /\ ~At("close_count")'
      BY <2>1, <2>3 DEF Idle, At
    <3>7. \A s \in Slots : Exists(s)' =>
              /\ vif'[s].type = "VLAN" <=> s \in Vlan
              /\ vif'[s].type = "VLAN" /\ vif'[s].up => vif'[s].idx = s
              /\ vif'[s].type # "VLAN" /\ vif'[s].up => vif'[s].idx \in Regular
              /\ vif'[s].type = "P2PDEV" => s = p2p_dev_vif /\ (vif'[s].up => vif'[s].run)
              /\ vif'[s].type # "P2PDEV" => (vif'[s].up <=> vif'[s].run)
      BY <2>1, <3>2, <3>3, <3>4, <3>6 DEF Ops, Exists
    <3>8. QED BY <2>1, <2>2, <2>3, <3>5, <3>6, <3>7 DEF Ops, At, Idle
  <2>6. QED BY <1>11, <2>4, <2>5, OpenP2pMoves DEF books
<1>12. ASSUME OpenAddIf PROVE Ops'
  <2>1. /\ vif_op.v \in Slots /\ Idle' /\ UNCHANGED p2p_dev_vif /\ At("open_add")
        /\ ~vif[vif_op.v].run /\ vif[vif_op.v].type # "P2PDEV" /\ Exists(vif_op.v)
    BY <1>12, OpIs DEF OpenAddIf, At, Ends, Idle, p2pVars, Ops
  <2>2. CASE UNCHANGED vif
    BY <2>1, <2>2 DEF Ops, At, Exists, Idle, Becomes, DevExists
  <2>3. CASE \E i \in Slots : /\ vif[vif_op.v].type = "VLAN" => i = vif_op.v
                              /\ vif[vif_op.v].type # "VLAN" => i \in Regular
                              /\ Becomes(vif_op.v, vif[vif_op.v].type, TRUE, i, TRUE)
    <3>1. PICK i \in Slots : /\ vif[vif_op.v].type = "VLAN" => i = vif_op.v
                             /\ vif[vif_op.v].type # "VLAN" => i \in Regular
                             /\ Becomes(vif_op.v, vif[vif_op.v].type, TRUE, i, TRUE)
      BY <2>3
    <3>2. /\ vif'[vif_op.v] # NULL /\ vif'[vif_op.v].type = vif[vif_op.v].type /\ vif'[vif_op.v].up
          /\ vif'[vif_op.v].idx = i /\ vif'[vif_op.v].run /\ vif[vif_op.v] # NULL
      BY <2>1, <3>1 DEF Becomes, VifConstants, Exists
    <3>3. \A s \in Slots \ {vif_op.v} : vif'[s] = vif[s]
      BY <3>1 DEF Becomes
    <3>4. vif_op.is = "open_add" /\ vif_op'.is = "idle" /\ alive_cb = "idle"
      BY <2>1 DEF Idle, At, Ops
    <3>5. \A s \in Slots : Exists(s)' =>
              /\ vif'[s].type = "VLAN" <=> s \in Vlan
              /\ vif'[s].type = "VLAN" /\ vif'[s].up => vif'[s].idx = s
              /\ vif'[s].type # "VLAN" /\ vif'[s].up => vif'[s].idx \in Regular
              /\ vif'[s].type = "P2PDEV" => s = p2p_dev_vif /\ (vif'[s].up => vif'[s].run)
              /\ vif'[s].type # "P2PDEV" => (vif'[s].up <=> vif'[s].run)
      <4>1. ASSUME NEW s \in Slots \ {vif_op.v}, Exists(s)'
            PROVE  /\ vif'[s].type = "VLAN" <=> s \in Vlan
                   /\ vif'[s].type = "VLAN" /\ vif'[s].up => vif'[s].idx = s
                   /\ vif'[s].type # "VLAN" /\ vif'[s].up => vif'[s].idx \in Regular
                   /\ vif'[s].type = "P2PDEV" => s = p2p_dev_vif /\ (vif'[s].up => vif'[s].run)
                   /\ vif'[s].type # "P2PDEV" => (vif'[s].up <=> vif'[s].run)
        BY <3>3, <3>4, <4>1 DEF Ops, Exists, At
      <4>2. vif[vif_op.v].type = "VLAN" <=> vif_op.v \in Vlan
        BY <2>1, <3>2 DEF Ops, Exists
      <4>3. QED BY <2>1, <3>1, <3>2, <4>1, <4>2
    <3>6. QED BY <2>1, <3>4, <3>5 DEF Ops, At
  <2>4. QED BY <1>12, <2>2, <2>3, OpenAddMoves, SlotsFinite DEF Added, books
<1>13. ASSUME CloseDown PROVE Ops'
  <2>1. /\ vif_op.v \in Slots /\ Exists(vif_op.v) /\ UNCHANGED <<p2p_dev_vif, alive_cb>> /\ vif_op.is = "close_down"
        /\ Becomes(vif_op.v, vif[vif_op.v].type, FALSE, vif[vif_op.v].idx, vif[vif_op.v].run) /\ alive_cb = "idle"
        /\ vif_op'.is = "close_count" /\ vif_op'.v = vif_op.v
    BY <1>13, OpIs, DownMoves DEF CloseDown, Goes, Ends, Ops, At, Idle, p2pVars
  <2>2. \A s \in Slots : vif'[s] # NULL <=> vif[s] # NULL
    BY <2>1 DEF Becomes, VifConstants, Exists
  <2>3. QED BY <2>1, <2>2 DEF Ops, At, Exists, Becomes
<1>14. ASSUME CloseCount PROVE Ops'
  <2>1. /\ vif_op.v \in Slots /\ Exists(vif_op.v) /\ UNCHANGED <<p2p_dev_vif, alive_cb>> /\ vif_op.is = "close_count"
        /\ Becomes(vif_op.v, vif[vif_op.v].type, vif[vif_op.v].up, vif[vif_op.v].idx, FALSE) /\ alive_cb = "idle"
        /\ vif_op'.is = "idle"
    BY <1>14, OpIs, DownMoves DEF CloseCount, Goes, Ends, Ops, At, Idle, p2pVars
  <2>2. \A s \in Slots : vif'[s] # NULL <=> vif[s] # NULL
    BY <2>1 DEF Becomes, VifConstants, Exists
  <2>3. QED BY <2>1, <2>2 DEF Ops, At, Exists, Becomes
<1>15. ASSUME ChangeAddIf PROVE Ops'
  <2>1. PICK i \in Regular : Becomes(vif_op.v, vif[vif_op.v].type, vif[vif_op.v].up, i, vif[vif_op.v].run)
    BY <1>15, ChangeAddMoves
  <2>2. /\ vif_op.v \in Slots /\ Exists(vif_op.v) /\ UNCHANGED <<p2p_dev_vif, alive_cb>> /\ vif_op.is = "change_add"
        /\ vif_op'.is = "idle" /\ vif[vif_op.v].type # "VLAN"
    BY <1>15, OpIs DEF ChangeAddIf, Ends, Ops, At, p2pVars
  <2>3. \A s \in Slots : vif'[s] # NULL <=> vif[s] # NULL
    BY <2>1, <2>2 DEF Becomes, VifConstants, Exists
  <2>4. QED BY <2>1, <2>2, <2>3 DEF Ops, At, Exists, Becomes
<1>16. ASSUME StopDown PROVE Ops'
  <2>1. /\ vif_op.v \in Slots /\ Exists(vif_op.v) /\ UNCHANGED <<p2p_dev_vif, alive_cb>> /\ vif_op.is = "stop_down"
        /\ Becomes(vif_op.v, vif[vif_op.v].type, FALSE, vif[vif_op.v].idx, FALSE) /\ alive_cb = "idle"
        /\ vif_op'.is = "idle"
    BY <1>16, OpIs, DownMoves DEF StopDown, Goes, Ends, Ops, At, Idle, p2pVars
  <2>2. \A s \in Slots : vif'[s] # NULL <=> vif[s] # NULL
    BY <2>1 DEF Becomes, VifConstants, Exists
  <2>3. QED BY <2>1, <2>2 DEF Ops, At, Exists, Becomes
<1>17. ASSUME aicwf_p2p_alive_timeout PROVE Ops'
  BY <1>17 DEF aicwf_p2p_alive_timeout, P2pInterfaces, DevExists, RemoveIf, Exists, Idle, At, Calm, Happens, books, VifShape, Ops, Device
<1>18. ASSUME AliveTimeoutDown PROVE Ops'
  BY <1>18 DEF AliveTimeoutDown, DevExists, Detach, Exists, Idle, At, Calm, Happens, books, Records, VifShape, VifConstants, Ops, Device
<1>19. QED BY <1>1, <1>2, <1>3, <1>4, <1>5, <1>6, <1>7, <1>8, <1>9, <1>10, <1>11, <1>12, <1>13, <1>14, <1>15, <1>16, <1>17, <1>18 DEF VifNext, KernelBegins, KernelGoesOn

\* A step without upset keeps the P2P device.
LEMMA DeviceKept ==
    ASSUME VifConstants, VifShape, Ops, Device, Table, Count, vif_upset = {}, vif_upset' = {}, VifNext
    PROVE  Device'
<1>1. ASSUME NEW t \in Types, rwnx_interface_add(t) PROVE Device'
  <2>1. PICK s \in Slots : ~Exists(s) /\ (s \in Vlan <=> t = "VLAN") /\ t # "P2PDEV" /\ Becomes(s, t, FALSE, 0, FALSE)
    BY <1>1, AddMoves
  <2>2. UNCHANGED <<vif_op, alive_cb, p2p_dev_vif, is_p2p_alive, alive_timer, p2p_stale>>
    BY <1>1 DEF rwnx_interface_add, p2pVars
  <2>3. p2p_dev_vif \in Slots \cup {NULL}
    BY DEF VifShape, VifNumbers
  <2>4. QED BY <2>1, <2>2, <2>3 DEF Device, At, Exists, Idle, Becomes, DevExists, VifConstants
<1>2. ASSUME rwnx_virtual_interface_add PROVE Device'
  <2>1. \A x \in Slots : Exists(x) => vif[x].type # "P2PDEV"
    BY <1>2 DEF rwnx_virtual_interface_add
  <2>2. ~is_p2p_alive /\ alive_cb # "down"
    BY <2>1 DEF Device, DevExists, VifShape, VifNumbers, VifConstants
  <2>3. ~is_p2p_alive' /\ ~alive_timer' /\ alive_cb' # "down" /\ ~p2p_stale'
    BY <1>2, <2>2 DEF rwnx_virtual_interface_add, Device
  <2>4. QED BY <2>3 DEF Device
<1>3. ASSUME NEW v \in Slots, rwnx_cfg80211_del_iface(v) PROVE Device'
  BY <1>3 DEF rwnx_cfg80211_del_iface, Exists, Idle, At, Calm, Happens, Begins, p2pVars, Records, VifShape, VifConstants, VifNumbers, Ops, Device, DevExists
<1>4. ASSUME NEW v \in Slots, rwnx_open(v) PROVE Device'
  <2>1. UNCHANGED <<vif, alive_cb, p2pVars>>
    BY <1>4 DEF rwnx_open
  <2>2. vif_op.is = "idle"
    BY <1>4 DEF rwnx_open, Begins, BeginsAlone, Idle
  <2>3. vif_op'.is # "stop_down"
    <3>1. CASE UNCHANGED vif_op
      BY <2>2, <3>1
    <3>2. CASE Goes(IF vif[v].type = "P2PC" /\ ~is_p2p_alive THEN "open_p2p" ELSE "open_add", v)
      BY <3>2 DEF Goes
    <3>3. QED BY <1>4, <3>1, <3>2 DEF rwnx_open
  <2>4. QED BY <2>1, <2>3 DEF Device, DevExists, Exists, At, p2pVars
<1>5. ASSUME NEW v \in Slots, rwnx_close(v) PROVE Device'
  BY <1>5 DEF rwnx_close, RemoveIf, Exists, Running, Idle, At, Goes, Calm, Happens, Begins, BeginsAlone, p2pVars, Records, VifShape, VifConstants, VifNumbers, Ops, Device, DevExists
<1>6. ASSUME NEW v \in Slots, rwnx_cfgp2p_start_p2p_device(v) PROVE Device'
  BY <1>6 DEF rwnx_cfgp2p_start_p2p_device, Exists, Idle, At, Calm, Happens, Begins, p2pVars, Records, VifShape, VifConstants, VifNumbers, Ops, Device, DevExists
<1>7. ASSUME NEW v \in Slots, rwnx_cfgp2p_stop_p2p_device(v) PROVE Device'
  BY <1>7 DEF rwnx_cfgp2p_stop_p2p_device, RemoveIf, DeleteAliveTimer, Exists, Running, Idle, At, Goes, Calm, Happens, Begins, VifShape, VifNumbers, Ops, Device, DevExists
<1>8. ASSUME NEW v \in Slots, RocP2pDevice(v) PROVE Device'
  <2>1. Exists(v) /\ vif[v].run /\ ~vif[v].up /\ v = p2p_dev_vif /\ Idle /\ UNCHANGED <<p2p_dev_vif, p2p_stale, vif_op, alive_cb>>
    BY <1>8 DEF RocP2pDevice, Running, Begins, BeginsAlone
  <2>2. vif[v].type = "P2PDEV" /\ DevExists /\ ~is_p2p_alive /\ alive_cb = "idle"
    <3>1. alive_cb = "idle" /\ v # NULL
      BY <1>8 DEF RocP2pDevice, Begins, BeginsAlone, Happens, VifConstants
    <3>2. vif[v].type = "P2PDEV"
      BY <2>1 DEF Ops, Idle, At
    <3>3. QED BY <2>1, <3>1, <3>2 DEF DevExists, Device
  <2>3. ~At("stop_down")
    BY <2>1 DEF Idle, At
  <2>4. CASE UNCHANGED <<books, is_p2p_alive, alive_timer>>
    BY <2>1, <2>4 DEF Device, DevExists, Exists, books, At
  <2>5. CASE ArmAliveTimer /\ \E i \in Regular : Added(v, i, vif[v].run)
    BY <2>1, <2>2, <2>3, <2>5 DEF ArmAliveTimer, Added, Device, At, Exists, Idle, Becomes, DevExists, VifConstants
  <2>6. QED BY <1>8, <2>2, <2>4, <2>5, RocMoves
<1>9. ASSUME NEW v \in Slots, ScanEvent(v) PROVE Device'
  BY <1>9 DEF ScanEvent, Exists, Running, Idle, At, Calm, Happens, Begins, books, p2pVars, Records, VifShape, VifConstants, VifNumbers, Ops, Device, DevExists
<1>10. ASSUME NEW v \in Slots, NEW t \in Types, rwnx_cfg80211_change_iface(v, t) PROVE Device'
  BY <1>10 DEF rwnx_cfg80211_change_iface, RemoveIf, ForgetIndex, Detach, Exists, Idle, At, Goes, Calm, Happens, Begins, BeginsAlone, p2pVars, Records, VifShape, VifConstants, VifNumbers, Ops, Device, DevExists
<1>11. ASSUME OpenP2pDevice PROVE Device'
  <2>1. DevExists /\ vif[p2p_dev_vif].type = "P2PDEV" /\ p2p_dev_vif \in Slots /\ alive_cb = "idle"
    BY <1>11 DEF OpenP2pDevice, Ops, At, DevExists, VifShape, VifNumbers
  <2>2. UNCHANGED <<p2p_dev_vif, alive_cb>> /\ ~p2p_stale'
    BY <1>11, <2>1 DEF OpenP2pDevice, Device
  <2>3. CASE UNCHANGED books /\ ArmAliveTimer /\ vif[p2p_dev_vif].up /\ vif_op'.is = "open_add"
    BY <2>1, <2>2, <2>3 DEF ArmAliveTimer, books, Device, At, Exists, Idle, Becomes, DevExists
  <2>4. CASE UNCHANGED <<books, is_p2p_alive, alive_timer>> /\ Idle'
    BY <2>1, <2>2, <2>4 DEF books, Device, At, Exists, Idle, Becomes, DevExists
  <2>5. CASE ArmAliveTimer /\ vif_op'.is = "open_add" /\ \E i \in Regular : Attach(p2p_dev_vif, i)
    <3>1. PICK i \in Regular : Becomes(p2p_dev_vif, vif[p2p_dev_vif].type, TRUE, i, vif[p2p_dev_vif].run)
      BY <2>1, <2>5, AttachMoves DEF DevExists
    <3>2. QED BY <2>1, <2>2, <2>5, <3>1 DEF ArmAliveTimer, Device, At, Exists, Idle, Becomes, DevExists, VifConstants
  <2>6. QED BY <1>11, <2>1, <2>3, <2>4, <2>5, OpenP2pMoves
<1>12. ASSUME OpenAddIf PROVE Device'
  <2>1. /\ vif_op.v \in Slots /\ Idle' /\ UNCHANGED p2pVars /\ UNCHANGED alive_cb /\ vif[vif_op.v].type # "P2PDEV" /\ alive_cb = "idle"
    BY <1>12, OpIs DEF OpenAddIf, At, Ends, Idle, Ops
  <2>2. CASE UNCHANGED vif
    BY <2>1, <2>2 DEF Device, At, Exists, Idle, Becomes, DevExists, p2pVars
  <2>3. CASE \E i \in Slots : Becomes(vif_op.v, vif[vif_op.v].type, TRUE, i, TRUE)
    <3>1. PICK i \in Slots : Becomes(vif_op.v, vif[vif_op.v].type, TRUE, i, TRUE)
      BY <2>3
    <3>2. p2p_dev_vif # NULL => p2p_dev_vif \in Slots
      BY DEF VifShape, VifNumbers
    <3>3. DevExists => DevExists' /\ vif'[p2p_dev_vif] = vif[p2p_dev_vif]
      BY <2>1, <3>1, <3>2 DEF DevExists, Becomes, Exists, p2pVars
    <3>4. QED BY <2>1, <3>3 DEF Device, At, Idle, p2pVars
  <2>4. QED BY <1>12, <2>2, <2>3, OpenAddMoves, SlotsFinite DEF Added, books
<1>13. ASSUME CloseDown PROVE Device'
  BY <1>13 DEF CloseDown, Detach, Exists, At, Goes, Calm, p2pVars, Records, VifShape, VifConstants, VifNumbers, Ops, Device, DevExists
<1>14. ASSUME CloseCount PROVE Device'
  BY <1>14 DEF CloseCount, LastClosed, Exists, At, Ends, Calm, p2pVars, Records, VifShape, VifConstants, VifNumbers, Ops, Device, DevExists
<1>15. ASSUME ChangeAddIf PROVE Device'
  BY <1>15 DEF ChangeAddIf, AddIf, Exists, At, Ends, Calm, Happens, p2pVars, Records, VifShape, VifConstants, VifNumbers, Ops, Device, DevExists
<1>16. ASSUME StopDown PROVE Device'
  BY <1>16 DEF StopDown, Detach, Exists, At, Ends, Calm, p2pVars, Records, VifShape, VifConstants, VifNumbers, Ops, Device, DevExists
<1>17. ASSUME aicwf_p2p_alive_timeout PROVE Device'
  <2>1. alive_timer /\ DevExists /\ vif[p2p_dev_vif].up /\ Idle /\ UNCHANGED <<vif, p2p_dev_vif, vif_op>>
    BY <1>17 DEF aicwf_p2p_alive_timeout, Happens, books, Device
  <2>2. CASE is_p2p_alive' = (is_p2p_alive \/ P2pInterfaces # {}) /\ UNCHANGED <<alive_timer, p2p_stale, alive_cb>>
    BY <2>1, <2>2 DEF Device, At, Exists, Idle, Becomes, DevExists
  <2>3. CASE is_p2p_alive' = FALSE /\ alive_timer' = FALSE /\ p2p_stale' = (p2p_stale \/ ~DevExists)
    BY <2>1, <2>3 DEF Device, At, Exists, Idle, Becomes, DevExists
  <2>4. QED BY <1>17, <2>2, <2>3 DEF aicwf_p2p_alive_timeout
<1>18. ASSUME AliveTimeoutDown PROVE Device'
  <2>1. /\ DevExists /\ Idle /\ ~is_p2p_alive /\ ~alive_timer /\ ~p2p_stale
        /\ UNCHANGED <<p2p_dev_vif, is_p2p_alive, alive_timer, vif_op>> /\ alive_cb' = "idle" /\ p2p_stale' = (p2p_stale \/ ~DevExists)
    BY <1>18 DEF AliveTimeoutDown, Happens, Device
  <2>2. QED BY <2>1 DEF Device, Idle, At
<1>19. QED BY <1>1, <1>2, <1>3, <1>4, <1>5, <1>6, <1>7, <1>8, <1>9, <1>10, <1>11, <1>12, <1>13, <1>14, <1>15, <1>16, <1>17, <1>18 DEF VifNext, KernelBegins, KernelGoesOn

-----------------------------------------------------------------------------
\* The table and the count, while nothing upsets the books.

\* An operation begins only while no other is under way.
LEMMA Begun ==
    ASSUME Begins, vif_upset' = {}
    PROVE  Idle /\ alive_cb = "idle" /\ ~At("close_count") /\ Leaving = {} /\ Out = {}
BY DEF Begins, Happens, Idle, At, Leaving, Out

\* An interface that is closed is not up, one that runs is.
LEMMA UpIs ==
    ASSUME VifConstants, VifShape, Ops, NEW s \in Slots, Exists(s)
    PROVE  /\ s \in UpVifs <=> vif[s].up
           /\ ~vif[s].run => s \notin UpVifs
           /\ vif[s].type # "P2PDEV" /\ vif[s].run /\ ~At("close_count") => s \in UpVifs
BY DEF UpVifs, Ops

\* The interfaces that are up can be counted.
LEMMA UpFinite ==
    ASSUME VifConstants
    PROVE  IsFiniteSet(UpVifs) /\ Cardinality(UpVifs) \in Nat
<1>1. IsFiniteSet(UpVifs)
  BY SlotsFinite, FS_Subset DEF UpVifs
<1>2. QED BY <1>1, FS_CardinalityType

\* Nothing moves.
LEMMA Stays ==
    ASSUME VifConstants, VifShape, Table, Count, UNCHANGED <<vif_table, fw_vifs, vif_started>>, UpVifs' = UpVifs,
           \A s \in UpVifs : vif'[s].idx = vif[s].idx, Leaving' = Leaving, Out' = Out, fw_on => fw_on',
           ~At("close_count"), vif_op'.is # "close_count"
    PROVE  Table' /\ Count'
BY TableStays DEF Count, At

\* An interface is added and counted.
LEMMA Adds ==
    ASSUME VifConstants, VifShape, Table, Count, Leaving = {}, Out = {}, Leaving' = {}, Out' = {},
           NEW v \in Slots, NEW i \in Slots, NEW r, v \notin UpVifs, vif_table[i] = NULL, Becomes(v, vif[v].type, TRUE, i, r),
           vif_table' = [vif_table EXCEPT ![i] = v], vif_started' = Inc(vif_started),
           fw_vifs' = fw_vifs \cup ({i} \cap Regular), fw_on', ~At("close_count"), vif_op'.is # "close_count"
    PROVE  Table' /\ Count'
<1>1. UpVifs' = UpVifs \cup {v}
  BY BecomesIs
<1>2. vif'[v].idx = i /\ \A s \in Slots \ {v} : vif'[s] = vif[s]
  BY DEF Becomes
<1>3. Table'
  BY <1>1, <1>2, TableAdds
<1>4. vif_started = Cardinality(UpVifs)
  BY UpFinite DEF Count
<1>5. vif_started' = Cardinality(UpVifs')
  BY <1>1, <1>4, CountUp
<1>6. Count'
  <2>1. Cardinality(UpVifs') \in Int
    BY <1>5 DEF Inc, VifShape, VifNumbers
  <2>2. QED BY <1>5, <2>1 DEF Count, At
<1>7. QED BY <1>3, <1>6

\* A step without upset keeps the table, the firmware's interfaces and the count in agreement.
LEMMA BooksKept ==
    ASSUME VifConstants, VifShape, Ops, Device, Table, Count, vif_upset = {}, vif_upset' = {}, VifNext
    PROVE  Table' /\ Count'
<1>1. ASSUME NEW t \in Types, rwnx_interface_add(t) PROVE Table' /\ Count'
  <2>1. Begins /\ UNCHANGED <<vif_table, vif_started, fw_vifs, fw_on, vif_op, alive_cb, p2p_dev_vif>>
    BY <1>1 DEF rwnx_interface_add, p2pVars
  <2>2. PICK s \in Slots : ~Exists(s) /\ Becomes(s, t, FALSE, 0, FALSE)
    BY <1>1, AddMoves
  <2>3. s \notin UpVifs /\ UpVifs' = UpVifs \ {s}
    BY <2>2, BecomesIs DEF UpVifs
  <2>4. \A x \in UpVifs : vif'[x].idx = vif[x].idx
    BY <2>2, <2>3 DEF UpVifs, Becomes
  <2>5. Leaving' = Leaving /\ Out' = Out /\ ~At("close_count") /\ vif_op'.is # "close_count"
    BY <2>1, Begun DEF Leaving, Out, At
  <2>6. QED BY <2>1, <2>3, <2>4, <2>5, Stays
<1>2. ASSUME rwnx_virtual_interface_add PROVE Table' /\ Count'
  <2>1. Begins /\ UNCHANGED <<vif_table, vif_started, fw_vifs, fw_on, vif_op, alive_cb>>
    BY <1>2 DEF rwnx_virtual_interface_add
  <2>2. PICK s \in Slots : ~Exists(s) /\ Becomes(s, "P2PDEV", FALSE, s, FALSE)
    BY <1>2, VirtualAddMoves
  <2>3. s \notin UpVifs /\ UpVifs' = UpVifs \ {s}
    BY <2>2, BecomesIs DEF UpVifs, Types
  <2>4. \A x \in UpVifs : vif'[x].idx = vif[x].idx
    BY <2>2, <2>3 DEF UpVifs, Becomes
  <2>5. Leaving' = Leaving /\ Out' = Out /\ ~At("close_count") /\ vif_op'.is # "close_count"
    BY <2>1, Begun DEF Leaving, Out, At, Idle
  <2>6. QED BY <2>1, <2>3, <2>4, <2>5, Stays
<1>3. ASSUME NEW v \in Slots, rwnx_cfg80211_del_iface(v) PROVE Table' /\ Count'
  <2>1. /\ Begins /\ UNCHANGED <<vif_table, vif_started, fw_vifs, fw_on, vif_op, alive_cb, p2p_dev_vif>>
        /\ Exists(v) /\ ~vif[v].run /\ vif' = [vif EXCEPT ![v] = NULL]
    BY <1>3 DEF rwnx_cfg80211_del_iface, p2pVars
  <2>2. v \notin UpVifs
    BY <2>1, UpIs
  <2>3. UpVifs' = UpVifs /\ \A x \in UpVifs : vif'[x].idx = vif[x].idx
    BY <2>1, <2>2 DEF UpVifs, Exists, VifShape
  <2>4. Leaving' = Leaving /\ Out' = Out /\ ~At("close_count") /\ vif_op'.is # "close_count"
    BY <2>1, Begun DEF Leaving, Out, At
  <2>5. QED BY <2>1, <2>3, <2>4, Stays
<1>4. ASSUME NEW v \in Slots, rwnx_open(v) PROVE Table' /\ Count'
  <2>1. Begins /\ UNCHANGED <<vif, vif_table, vif_started, fw_vifs, alive_cb, p2p_dev_vif>>
    BY <1>4 DEF rwnx_open, Happens, p2pVars
  <2>2. fw_on => fw_on'
    BY <1>4 DEF rwnx_open
  <2>3. vif_op' = vif_op \/ vif_op'.is \in {"open_p2p", "open_add"}
    <3>1. CASE Goes(IF vif[v].type = "P2PC" /\ ~is_p2p_alive THEN "open_p2p" ELSE "open_add", v)
      BY <3>1 DEF Goes
    <3>2. QED BY <1>4, <3>1 DEF rwnx_open
  <2>4. Leaving' = Leaving /\ Out' = Out /\ ~At("close_count") /\ vif_op'.is # "close_count"
    BY <2>1, <2>3, Begun DEF Leaving, Out, At, Idle
  <2>5. UpVifs' = UpVifs
    BY <2>1 DEF UpVifs, Exists
  <2>6. QED BY <2>1, <2>2, <2>4, <2>5, Stays
<1>5. ASSUME NEW v \in Slots, rwnx_close(v) PROVE Table' /\ Count'
  <2>1. /\ Begins /\ UNCHANGED <<vif, vif_table, vif_started, fw_on, alive_cb>> /\ fw_vifs' = fw_vifs \ {vif[v].idx}
        /\ vif_op' = [is |-> "close_down", v |-> v] /\ Exists(v) /\ vif[v].run /\ vif[v].type # "P2PDEV"
    BY <1>5 DEF rwnx_close, Happens, RemoveIf, Goes, Running
  <2>2. v \in UpVifs /\ Leaving = {} /\ Out = {} /\ alive_cb = "idle" /\ ~At("close_count")
    BY <2>1, Begun, UpIs
  <2>3. Leaving' = {v} /\ Out' = {} /\ UpVifs' = UpVifs
    BY <2>1, <2>2 DEF Leaving, Out, At, UpVifs, Exists
  <2>4. Table'
    BY <2>1, <2>2, <2>3, TableLeaves
  <2>5. Count'
    BY <2>1, <2>2, <2>3 DEF Count, At
  <2>6. QED BY <2>4, <2>5
<1>6. ASSUME NEW v \in Slots, rwnx_cfgp2p_start_p2p_device(v) PROVE Table' /\ Count'
  <2>1. /\ Begins /\ UNCHANGED <<vif_table, vif_started, fw_vifs, fw_on, vif_op, alive_cb, p2p_dev_vif>> /\ Exists(v)
    BY <1>6 DEF rwnx_cfgp2p_start_p2p_device, p2pVars, books, Running
  <2>2. Becomes(v, vif[v].type, vif[v].up, vif[v].idx, TRUE)
    BY <1>6, StartMoves DEF rwnx_cfgp2p_start_p2p_device
  <2>3. UpVifs' = UpVifs /\ \A x \in UpVifs : vif'[x].idx = vif[x].idx
    BY <2>1, <2>2, Parts, BecomesIs DEF UpVifs, Becomes
  <2>4. Leaving' = Leaving /\ Out' = Out /\ ~At("close_count") /\ vif_op'.is # "close_count"
    BY <2>1, Begun DEF Leaving, Out, At
  <2>5. QED BY <2>1, <2>3, <2>4, Stays
<1>7. ASSUME NEW v \in Slots, rwnx_cfgp2p_stop_p2p_device(v) PROVE Table' /\ Count'
  <2>1. /\ Begins /\ UNCHANGED <<vif_table, vif_started, fw_on, alive_cb, p2p_dev_vif>> /\ Exists(v)
    BY <1>7 DEF rwnx_cfgp2p_stop_p2p_device, Running
  <2>2. Leaving = {} /\ Out = {} /\ alive_cb = "idle" /\ ~At("close_count") /\ vif_op.is = "idle"
    BY <2>1, Begun DEF Idle
  <2>3. CASE vif' = vif /\ vif[v].up /\ fw_vifs' = fw_vifs \ {vif[v].idx} /\ vif_op' = [is |-> "stop_down", v |-> v]
    <3>1. v \in UpVifs
      BY <2>1, <2>3 DEF UpVifs
    <3>2. Leaving' = {v} /\ Out' = {} /\ UpVifs' = UpVifs
      BY <2>1, <2>2, <2>3 DEF Leaving, Out, At, UpVifs, Exists
    <3>3. Table'
      BY <2>1, <2>2, <2>3, <3>1, <3>2, TableLeaves
    <3>4. Count'
      BY <2>1, <2>2, <2>3, <3>2 DEF Count, At
    <3>5. QED BY <3>3, <3>4
  <2>4. CASE Becomes(v, vif[v].type, vif[v].up, vif[v].idx, FALSE) /\ UNCHANGED <<fw_vifs, vif_op>>
    <3>1. UpVifs' = UpVifs /\ \A x \in UpVifs : vif'[x].idx = vif[x].idx
      BY <2>1, <2>4, Parts, BecomesIs DEF UpVifs, Becomes
    <3>2. Leaving' = Leaving /\ Out' = Out /\ vif_op'.is # "close_count"
      BY <2>1, <2>2, <2>4 DEF Leaving, Out, At
    <3>3. QED BY <2>1, <2>2, <2>4, <3>1, <3>2, Stays
  <2>5. QED BY <1>7, <2>3, <2>4, StopMoves
<1>8. ASSUME NEW v \in Slots, RocP2pDevice(v) PROVE Table' /\ Count'
  <2>1. Begins /\ fw_on /\ UNCHANGED <<fw_on, alive_cb, p2p_dev_vif, vif_op>> /\ Exists(v) /\ ~vif[v].up
    BY <1>8 DEF RocP2pDevice, Running, Happens
  <2>2. Leaving = {} /\ Out = {} /\ alive_cb = "idle" /\ ~At("close_count") /\ vif_op.is = "idle" /\ v \notin UpVifs
    BY <2>1, Begun DEF Idle, UpVifs
  <2>3. Leaving' = {} /\ Out' = {} /\ vif_op'.is # "close_count"
    BY <2>1, <2>2 DEF Leaving, Out, At
  <2>4. CASE UNCHANGED <<books, fw_vifs>>
    <3>1. UpVifs' = UpVifs /\ UNCHANGED <<vif, vif_table, vif_started>>
      BY <2>4 DEF UpVifs, Exists, books
    <3>2. QED BY <2>1, <2>2, <2>3, <2>4, <3>1, Stays
  <2>5. CASE \E i \in Regular : Added(v, i, vif[v].run)
    <3>1. PICK i \in Regular : Added(v, i, vif[v].run)
      BY <2>5
    <3>2. i \in Slots /\ vif_table[i] = NULL /\ fw_vifs' = fw_vifs \cup ({i} \cap Regular)
      BY <2>2, <3>1, SlotsFinite DEF Added, Table
    <3>3. QED BY <2>1, <2>2, <2>3, <3>1, <3>2, Adds DEF Added
  <2>6. QED BY <1>8, <2>4, <2>5, RocMoves
<1>9. ASSUME NEW v \in Slots, ScanEvent(v) PROVE Table' /\ Count'
  <2>1. Begins /\ UNCHANGED <<vif, vif_table, vif_started, fw_vifs, fw_on, vif_op, alive_cb, p2p_dev_vif>>
    BY <1>9 DEF ScanEvent, p2pVars, books
  <2>2. UpVifs' = UpVifs
    BY <2>1 DEF UpVifs, Exists
  <2>3. Leaving' = Leaving /\ Out' = Out /\ ~At("close_count") /\ vif_op'.is # "close_count"
    BY <2>1, Begun DEF Leaving, Out, At
  <2>4. QED BY <2>1, <2>2, <2>3, Stays
<1>10. ASSUME NEW v \in Slots, NEW t \in Types, rwnx_cfg80211_change_iface(v, t) PROVE Table' /\ Count'
  <2>1. /\ Begins /\ UNCHANGED <<vif_started, fw_on, alive_cb, p2p_dev_vif>> /\ Exists(v)
    BY <1>10 DEF rwnx_cfg80211_change_iface, Happens, p2pVars
  <2>2. Leaving = {} /\ Out = {} /\ alive_cb = "idle" /\ ~At("close_count") /\ vif_op.is = "idle"
    BY <2>1, Begun DEF Idle
  <2>3. Becomes(v, t, vif[v].up, vif[v].idx, vif[v].run)
    BY <1>10, ChangeMoves
  <2>4. UpVifs' = UpVifs /\ \A x \in UpVifs : vif'[x].idx = vif[x].idx
    BY <2>1, <2>3, Parts, BecomesIs DEF UpVifs, Becomes
  <2>5. CASE UNCHANGED <<vif_table, fw_vifs, vif_op>>
    <3>1. Leaving' = Leaving /\ Out' = Out /\ vif_op'.is # "close_count"
      BY <2>1, <2>2, <2>5 DEF Leaving, Out, At
    <3>2. QED BY <2>1, <2>2, <2>4, <2>5, <3>1, Stays
  <2>6. CASE /\ vif[v].up /\ fw_vifs' = fw_vifs \ {vif[v].idx} /\ vif_table' = [vif_table EXCEPT ![vif[v].idx] = NULL]
             /\ vif_op' = [is |-> "change_add", v |-> v]
    <3>1. v \in UpVifs /\ \A s \in Slots \ {v} : vif'[s] = vif[s]
      BY <2>1, <2>3, <2>6 DEF UpVifs, Becomes
    <3>2. Leaving' = {} /\ Out' = {v} /\ UpVifs' \ Out' = UpVifs \ {v}
      BY <2>1, <2>2, <2>4, <2>6 DEF Leaving, Out, At
    <3>3. Table'
      BY <2>2, <2>6, <3>1, <3>2, TableDrops
    <3>4. Count'
      BY <2>1, <2>2, <2>4, <2>6 DEF Count, At
    <3>5. QED BY <3>3, <3>4
  <2>7. QED BY <1>10, <2>5, <2>6 DEF rwnx_cfg80211_change_iface, Happens, RemoveIf, ForgetIndex, Detach, Goes
<1>11. ASSUME OpenP2pDevice PROVE Table' /\ Count'
  <2>1. /\ At("open_p2p") /\ fw_on /\ UNCHANGED <<fw_on, alive_cb, p2p_dev_vif>> /\ alive_cb = "idle" /\ DevExists
        /\ p2p_dev_vif \in Slots /\ Exists(p2p_dev_vif)
    BY <1>11 DEF OpenP2pDevice, Ops, At, DevExists, VifShape, VifNumbers
  <2>2. Leaving = {} /\ Out = {} /\ ~At("close_count")
    BY <2>1 DEF Leaving, Out, At
  <2>3. Idle' \/ vif_op'.is = "open_add"
    BY <1>11, OpenP2pMoves
  <2>4. Leaving' = {} /\ Out' = {} /\ vif_op'.is # "close_count"
    BY <2>1, <2>3 DEF Leaving, Out, At, Idle
  <2>5. CASE UNCHANGED <<books, fw_vifs>>
    <3>1. UpVifs' = UpVifs /\ UNCHANGED <<vif, vif_table, vif_started>>
      BY <2>5 DEF UpVifs, Exists, books
    <3>2. QED BY <2>1, <2>2, <2>4, <2>5, <3>1, Stays
  <2>6. CASE ~vif[p2p_dev_vif].up /\ \E i \in Regular \ fw_vifs : fw_vifs' = fw_vifs \cup {i} /\ Attach(p2p_dev_vif, i)
    <3>1. PICK i \in Regular \ fw_vifs : fw_vifs' = fw_vifs \cup {i} /\ Attach(p2p_dev_vif, i)
      BY <2>6
    <3>2. i \in Slots /\ vif_table[i] = NULL /\ fw_vifs' = fw_vifs \cup ({i} \cap Regular) /\ p2p_dev_vif \notin UpVifs
      BY <2>2, <2>6, <3>1, SlotsFinite DEF Table, UpVifs
    <3>3. Becomes(p2p_dev_vif, vif[p2p_dev_vif].type, TRUE, i, vif[p2p_dev_vif].run)
      BY <2>1, <3>1, AttachMoves
    <3>4. vif_table' = [vif_table EXCEPT ![i] = p2p_dev_vif] /\ vif_started' = Inc(vif_started)
      BY <3>1 DEF Attach
    <3>5. QED BY <2>1, <2>2, <2>4, <3>2, <3>3, <3>4, Adds
  <2>7. QED BY <1>11, <2>1, <2>5, <2>6, OpenP2pMoves
<1>12. ASSUME OpenAddIf PROVE Table' /\ Count'
  <2>1. /\ At("open_add") /\ fw_on /\ UNCHANGED <<fw_on, alive_cb, p2p_dev_vif>> /\ alive_cb = "idle" /\ Idle'
        /\ vif_op.v \in Slots /\ Exists(vif_op.v) /\ ~vif[vif_op.v].run
    BY <1>12, OpIs DEF OpenAddIf, Ops, At, Ends, Idle, p2pVars
  <2>2. Leaving = {} /\ Out = {} /\ ~At("close_count") /\ vif_op.v \notin UpVifs
    BY <2>1, UpIs DEF Leaving, Out, At
  <2>3. Leaving' = {} /\ Out' = {} /\ vif_op'.is # "close_count"
    BY <2>1 DEF Leaving, Out, At, Idle
  <2>4. CASE UNCHANGED <<books, fw_vifs>>
    <3>1. UpVifs' = UpVifs /\ UNCHANGED <<vif, vif_table, vif_started>>
      BY <2>4 DEF UpVifs, Exists, books
    <3>2. QED BY <2>1, <2>2, <2>3, <2>4, <3>1, Stays
  <2>5. CASE \E i \in Slots : /\ i = vif_op.v /\ vif[vif_op.v].type = "VLAN" /\ UNCHANGED fw_vifs
                              /\ Becomes(vif_op.v, vif[vif_op.v].type, TRUE, i, TRUE)
                              /\ vif_table' = [vif_table EXCEPT ![i] = vif_op.v] /\ vif_started' = Inc(vif_started)
    <3>1. PICK i \in Slots : /\ i = vif_op.v /\ vif[vif_op.v].type = "VLAN" /\ UNCHANGED fw_vifs
                             /\ Becomes(vif_op.v, vif[vif_op.v].type, TRUE, i, TRUE)
                             /\ vif_table' = [vif_table EXCEPT ![i] = vif_op.v] /\ vif_started' = Inc(vif_started)
      BY <2>5
    <3>2. i \in Vlan /\ i \notin Regular
      BY <2>1, <3>1, SlotsFinite DEF Ops
    <3>3. vif_table[i] = NULL
      <4>1. ASSUME vif_table[i] # NULL PROVE vif_table[i] \in UpVifs /\ vif[vif_table[i]].idx = i
        BY <4>1 DEF Table
      <4>2. \A w \in UpVifs : vif[w].idx = i => w = i
        BY <3>2 DEF Ops, UpVifs
      <4>3. QED BY <2>2, <3>1, <4>1, <4>2
    <3>4. fw_vifs' = fw_vifs \cup ({i} \cap Regular)
      BY <3>1, <3>2
    <3>5. QED BY <2>1, <2>2, <2>3, <3>1, <3>3, <3>4, Adds
  <2>6. CASE \E i \in Regular : Added(vif_op.v, i, TRUE)
    <3>1. PICK i \in Regular : Added(vif_op.v, i, TRUE)
      BY <2>6
    <3>2. i \in Slots /\ vif_table[i] = NULL /\ fw_vifs' = fw_vifs \cup ({i} \cap Regular)
      BY <2>2, <3>1, SlotsFinite DEF Added, Table
    <3>3. QED BY <2>1, <2>2, <2>3, <3>1, <3>2, Adds DEF Added
  <2>7. QED BY <1>12, <2>4, <2>5, <2>6, OpenAddMoves
<1>13. ASSUME CloseDown PROVE Table' /\ Count'
  <2>1. /\ At("close_down") /\ UNCHANGED <<vif_started, fw_vifs, fw_on, alive_cb>> /\ alive_cb = "idle"
        /\ vif_op.v \in Slots /\ Exists(vif_op.v) /\ vif[vif_op.v].run /\ vif[vif_op.v].type # "P2PDEV"
        /\ vif_table' = [vif_table EXCEPT ![vif[vif_op.v].idx] = NULL] /\ vif_op'.is = "close_count"
    BY <1>13, OpIs DEF CloseDown, Ops, At, Detach, Goes
  <2>2. vif_op.v \in UpVifs /\ Leaving = {vif_op.v} /\ Out = {} /\ ~At("close_count")
    BY <2>1, UpIs DEF Leaving, Out, At
  <2>3. Becomes(vif_op.v, vif[vif_op.v].type, FALSE, vif[vif_op.v].idx, vif[vif_op.v].run)
    BY <1>13, DownMoves
  <2>4. UpVifs' = UpVifs \ {vif_op.v} /\ Leaving' = {} /\ Out' = {} /\ \A s \in Slots \ {vif_op.v} : vif'[s] = vif[s]
    BY <2>1, <2>3, BecomesIs DEF Leaving, Out, At, Becomes
  <2>5. Table'
    BY <2>1, <2>2, <2>4, TableDrops
  <2>6. vif_started = Cardinality(UpVifs)
    BY <2>2, UpFinite DEF Count
  <2>7. vif_started' = Cardinality(UpVifs') + 1
    BY <2>1, <2>2, <2>4, <2>6, CountDown
  <2>8. Count'
    BY <2>1, <2>2, <2>7 DEF Count, At
  <2>9. QED BY <2>5, <2>8
<1>14. ASSUME CloseCount PROVE Table' /\ Count'
  <2>1. /\ At("close_count") /\ UNCHANGED <<vif_table, alive_cb>> /\ alive_cb = "idle" /\ vif_started' = Dec(vif_started)
        /\ vif_op.v \in Slots /\ Exists(vif_op.v) /\ ~vif[vif_op.v].up /\ vif_op'.is = "idle"
        /\ fw_on' = (fw_on /\ ~LastClosed) /\ fw_vifs' = IF LastClosed THEN {} ELSE fw_vifs
    BY <1>14, OpIs DEF CloseCount, Ops, At, Ends
  <2>2. vif_op.v \notin UpVifs /\ Leaving = {} /\ Out = {}
    BY <2>1 DEF Leaving, Out, At, UpVifs
  <2>3. Becomes(vif_op.v, vif[vif_op.v].type, FALSE, vif[vif_op.v].idx, FALSE)
    BY <1>14, <2>1, Parts, DownMoves DEF Becomes
  <2>4. /\ UpVifs' = UpVifs /\ Leaving' = {} /\ Out' = {}
        /\ \A s \in UpVifs : vif'[s].idx = vif[s].idx
    BY <2>1, <2>2, <2>3, BecomesIs DEF Leaving, Out, At, Becomes, UpVifs
  <2>5. IsFiniteSet(UpVifs) /\ Cardinality(UpVifs) \in Nat /\ vif_started = Cardinality(UpVifs) + 1 /\ vif_started \in 0 .. 255
    BY <2>1, UpFinite DEF Count, VifShape, VifNumbers
  <2>6. LastClosed => UpVifs = {}
    <3>1. LastClosed => Cardinality(UpVifs) = 0
      BY <2>5 DEF LastClosed
    <3>2. QED BY <2>5, <3>1, FS_EmptySet
  <2>7. UNCHANGED fw_vifs
    <3>1. UpVifs = {} => fw_vifs = {}
      BY SlotsFinite DEF Table
    <3>2. QED BY <2>1, <2>6, <3>1
  <2>8. Table'
    BY <2>1, <2>2, <2>4, <2>7, TableStays
  <2>9. vif_started' = Cardinality(UpVifs')
    BY <2>1, <2>4, <2>5 DEF Dec
  <2>10. Count'
    <3>1. Cardinality(UpVifs') \in Nat /\ ~At("close_count")'
      BY <2>1, <2>4, <2>5 DEF At
    <3>2. UpVifs' # {} => fw_on'
      BY <2>1, <2>4, <2>6 DEF Count
    <3>3. QED BY <2>9, <3>1, <3>2 DEF Count
  <2>11. QED BY <2>8, <2>10
<1>15. ASSUME ChangeAddIf PROVE Table' /\ Count'
  <2>1. PICK i \in Regular \ fw_vifs :
            /\ fw_vifs' = fw_vifs \cup {i} /\ vif_table' = [vif_table EXCEPT ![i] = vif_op.v]
            /\ Becomes(vif_op.v, vif[vif_op.v].type, vif[vif_op.v].up, i, vif[vif_op.v].run)
    BY <1>15, ChangeAddMoves
  <2>2. /\ vif_op.v \in Slots /\ Exists(vif_op.v) /\ UNCHANGED <<alive_cb, vif_started, fw_on>> /\ At("change_add")
        /\ alive_cb = "idle" /\ vif[vif_op.v].run /\ vif[vif_op.v].type # "P2PDEV" /\ vif_op'.is = "idle"
    BY <1>15, OpIs DEF ChangeAddIf, Ends, Ops, At
  <2>3. vif_op.v \in UpVifs /\ vif[vif_op.v].up /\ Leaving = {} /\ Out = {vif_op.v} /\ ~At("close_count")
    BY <2>2, UpIs DEF Leaving, Out, At
  <2>4. /\ UpVifs' = UpVifs /\ Leaving' = {} /\ Out' = {} /\ vif'[vif_op.v].idx = i
        /\ \A s \in Slots \ {vif_op.v} : vif'[s] = vif[s]
    <3>1. vif[vif_op.v].up = TRUE
      BY <2>2, <2>3, Parts
    <3>2. Becomes(vif_op.v, vif[vif_op.v].type, TRUE, i, vif[vif_op.v].run)
      BY <2>1, <3>1
    <3>3. UpVifs' = UpVifs
      <4>1. UpVifs' = UpVifs \cup {vif_op.v}
        BY <2>2, <3>2, BecomesIs
      <4>2. QED BY <2>3, <4>1
    <3>4. QED BY <2>2, <3>2, <3>3 DEF Leaving, Out, At, Becomes
  <2>5. Table'
    BY <2>1, <2>3, <2>4, TableReturns
  <2>6. Count'
    BY <2>2, <2>3, <2>4 DEF Count, At
  <2>7. QED BY <2>5, <2>6
<1>16. ASSUME StopDown PROVE Table' /\ Count'
  <2>1. /\ At("stop_down") /\ UNCHANGED <<fw_vifs, fw_on, alive_cb>> /\ alive_cb = "idle" /\ vif_started' = Dec(vif_started)
        /\ vif_op.v \in Slots /\ Exists(vif_op.v) /\ vif[vif_op.v].up /\ vif_op'.is = "idle"
        /\ vif_table' = [vif_table EXCEPT ![vif[vif_op.v].idx] = NULL]
    BY <1>16, OpIs DEF StopDown, Ops, At, Detach, Ends
  <2>2. /\ vif_op.v \in UpVifs /\ Leaving = {vif_op.v} /\ Out = {} /\ ~At("close_count")
        /\ Becomes(vif_op.v, vif[vif_op.v].type, FALSE, vif[vif_op.v].idx, FALSE)
    BY <1>16, <2>1, DownMoves DEF Leaving, Out, At, UpVifs
  <2>3. UpVifs' = UpVifs \ {vif_op.v} /\ Leaving' = {} /\ Out' = {} /\ \A s \in Slots \ {vif_op.v} : vif'[s] = vif[s]
    BY <2>1, <2>2, BecomesIs DEF Leaving, Out, At, Becomes
  <2>4. Table'
    BY <2>1, <2>2, <2>3, TableDrops
  <2>5. vif_started = Cardinality(UpVifs)
    BY <2>2, UpFinite DEF Count
  <2>6. vif_started' = Cardinality(UpVifs') /\ Cardinality(UpVifs') \in Nat
    <3>1. Dec(vif_started) = Cardinality(UpVifs') /\ Cardinality(UpVifs') \in Nat
      BY <2>2, <2>3, <2>5, CountDown
    <3>2. QED BY <2>1, <2>2, <3>1
  <2>7. Count'
    BY <2>1, <2>2, <2>6 DEF Count, At
  <2>8. QED BY <2>4, <2>7
<1>17. ASSUME aicwf_p2p_alive_timeout PROVE Table' /\ Count'
  <2>1. /\ DevExists /\ Exists(p2p_dev_vif) /\ p2p_dev_vif \in Slots /\ vif[p2p_dev_vif].up /\ Idle
        /\ UNCHANGED <<vif, vif_table, vif_started, fw_on, vif_op, p2p_dev_vif>> /\ alive_cb = "idle"
    BY <1>17 DEF aicwf_p2p_alive_timeout, Happens, books, Device, DevExists, VifShape, VifNumbers
  <2>2. vif_op.is = "idle" /\ Leaving = {} /\ Out = {} /\ ~At("close_count") /\ p2p_dev_vif \in UpVifs /\ UpVifs' = UpVifs
    BY <2>1 DEF Idle, At, Leaving, Out, UpVifs, Exists
  <2>3. CASE UNCHANGED <<fw_vifs, alive_cb>>
    <3>1. Leaving' = Leaving /\ Out' = Out
      BY <2>1, <2>2, <2>3 DEF Leaving, Out, At
    <3>2. QED BY <2>1, <2>2, <2>3, <3>1, Stays
  <2>4. CASE fw_vifs' = fw_vifs \ {vif[p2p_dev_vif].idx} /\ alive_cb' = "down"
    <3>1. Leaving' = {p2p_dev_vif} /\ Out' = {}
      BY <2>1, <2>2, <2>4 DEF Leaving, Out, At
    <3>2. Table'
      BY <2>1, <2>2, <2>4, <3>1, TableLeaves
    <3>3. Count'
      BY <2>1, <2>2 DEF Count, At
    <3>4. QED BY <3>2, <3>3
  <2>5. QED BY <1>17, <2>1, <2>3, <2>4 DEF aicwf_p2p_alive_timeout, RemoveIf
<1>18. ASSUME AliveTimeoutDown PROVE Table' /\ Count'
  <2>1. /\ DevExists /\ Exists(p2p_dev_vif) /\ vif[p2p_dev_vif].up /\ Idle /\ alive_cb = "down" /\ alive_cb' = "idle"
        /\ UNCHANGED <<fw_vifs, fw_on, vif_op, p2p_dev_vif>> /\ vif_op'.is = "idle"
    BY <1>18 DEF AliveTimeoutDown, Happens, Device, DevExists, Idle
  <2>2. /\ p2p_dev_vif \in UpVifs /\ Leaving = {p2p_dev_vif} /\ Out = {} /\ ~At("close_count") /\ p2p_dev_vif \in Slots
        /\ Becomes(p2p_dev_vif, vif[p2p_dev_vif].type, FALSE, vif[p2p_dev_vif].idx, vif[p2p_dev_vif].run)
        /\ vif_started' = Dec(vif_started) /\ vif_table' = [vif_table EXCEPT ![vif[p2p_dev_vif].idx] = NULL]
    <3>1. /\ p2p_dev_vif \in Slots /\ vif_started' = Dec(vif_started) /\ vif_table' = [vif_table EXCEPT ![vif[p2p_dev_vif].idx] = NULL]
          /\ Becomes(p2p_dev_vif, vif[p2p_dev_vif].type, FALSE, vif[p2p_dev_vif].idx, vif[p2p_dev_vif].run)
      BY <1>18, <2>1, AliveDownMoves
    <3>2. QED BY <2>1, <3>1 DEF Leaving, Out, At, UpVifs, Idle
  <2>3. UpVifs' = UpVifs \ {p2p_dev_vif} /\ Leaving' = {} /\ Out' = {} /\ \A s \in Slots \ {p2p_dev_vif} : vif'[s] = vif[s]
    BY <2>1, <2>2, BecomesIs DEF Leaving, Out, At, Becomes
  <2>4. Table'
    BY <2>1, <2>2, <2>3, TableDrops
  <2>5. vif_started = Cardinality(UpVifs)
    BY <2>2, UpFinite DEF Count
  <2>6. vif_started' = Cardinality(UpVifs') /\ Cardinality(UpVifs') \in Nat
    <3>1. Dec(vif_started) = Cardinality(UpVifs') /\ Cardinality(UpVifs') \in Nat
      BY <2>2, <2>3, <2>5, CountDown
    <3>2. QED BY <2>1, <2>2, <3>1
  <2>7. Count'
    BY <2>1, <2>2, <2>6 DEF Count, At
  <2>8. QED BY <2>4, <2>7
<1>19. QED BY <1>1, <1>2, <1>3, <1>4, <1>5, <1>6, <1>7, <1>8, <1>9, <1>10, <1>11, <1>12, <1>13, <1>14, <1>15, <1>16, <1>17, <1>18 DEF VifNext, KernelBegins, KernelGoesOn

-----------------------------------------------------------------------------
\* Nothing that upset the books is forgotten, and what closes or changes an
\* interface leaves no operation under way.

\* What upsets the books upsets them for good.
LEMMA CalmBefore ==
    ASSUME VifConstants, vif_upset' = {}, VifNext
    PROVE  vif_upset = {}
<1>1. ASSUME NEW t \in Types, rwnx_interface_add(t) PROVE vif_upset = {}
  BY <1>1 DEF rwnx_interface_add, New, NoMonitorClash, Calm, Happens, Begins
<1>2. ASSUME rwnx_virtual_interface_add PROVE vif_upset = {}
  BY <1>2 DEF rwnx_virtual_interface_add, New, Calm, Happens, Begins
<1>3. ASSUME NEW v \in Slots, rwnx_cfg80211_del_iface(v) PROVE vif_upset = {}
  BY <1>3 DEF rwnx_cfg80211_del_iface, Calm, Happens, Begins
<1>4. ASSUME NEW v \in Slots, rwnx_open(v) PROVE vif_upset = {}
  BY <1>4 DEF rwnx_open, DevExists, Calm, Happens, Begins, BeginsAlone
<1>5. ASSUME NEW v \in Slots, rwnx_close(v) PROVE vif_upset = {}
  BY <1>5 DEF rwnx_close, RemoveIf, Calm, Happens, Begins, BeginsAlone
<1>6. ASSUME NEW v \in Slots, rwnx_cfgp2p_start_p2p_device(v) PROVE vif_upset = {}
  BY <1>6 DEF rwnx_cfgp2p_start_p2p_device, Calm, Happens, Begins
<1>7. ASSUME NEW v \in Slots, rwnx_cfgp2p_stop_p2p_device(v) PROVE vif_upset = {}
  BY <1>7 DEF rwnx_cfgp2p_stop_p2p_device, RemoveIf, DeleteAliveTimer, Calm, Happens, Begins
<1>8. ASSUME NEW v \in Slots, RocP2pDevice(v) PROVE vif_upset = {}
  BY <1>8 DEF RocP2pDevice, AddIf, Attach, ArmAliveTimer, Calm, Happens, Begins, BeginsAlone
<1>9. ASSUME NEW v \in Slots, ScanEvent(v) PROVE vif_upset = {}
  BY <1>9 DEF ScanEvent, Calm, Happens, Begins
<1>10. ASSUME NEW v \in Slots, NEW t \in Types, rwnx_cfg80211_change_iface(v, t) PROVE vif_upset = {}
  BY <1>10 DEF rwnx_cfg80211_change_iface, RemoveIf, ForgetIndex, Detach, Calm, Happens, Begins, BeginsAlone
<1>11. ASSUME OpenP2pDevice PROVE vif_upset = {}
  BY <1>11 DEF OpenP2pDevice, DevExists, AddIf, Attach, ArmAliveTimer, Calm
<1>12. ASSUME OpenAddIf PROVE vif_upset = {}
  BY <1>12 DEF OpenAddIf, AddIf, Calm
<1>13. ASSUME CloseDown PROVE vif_upset = {}
  BY <1>13 DEF CloseDown, Detach, Calm
<1>14. ASSUME CloseCount PROVE vif_upset = {}
  BY <1>14 DEF CloseCount, LastClosed, Calm
<1>15. ASSUME ChangeAddIf PROVE vif_upset = {}
  BY <1>15 DEF ChangeAddIf, AddIf, Calm, Happens
<1>16. ASSUME StopDown PROVE vif_upset = {}
  BY <1>16 DEF StopDown, Detach, Calm
<1>17. ASSUME aicwf_p2p_alive_timeout PROVE vif_upset = {}
  BY <1>17 DEF aicwf_p2p_alive_timeout, P2pInterfaces, DevExists, RemoveIf, Calm, Happens
<1>18. ASSUME AliveTimeoutDown PROVE vif_upset = {}
  BY <1>18 DEF AliveTimeoutDown, DevExists, Detach, Calm, Happens
<1>19. QED BY <1>1, <1>2, <1>3, <1>4, <1>5, <1>6, <1>7, <1>8, <1>9, <1>10, <1>11, <1>12, <1>13, <1>14, <1>15, <1>16, <1>17, <1>18 DEF VifNext, KernelBegins, KernelGoesOn

\* A cancelled open and a failed change leave no operation behind.
LEMMA UpsetEnds ==
    ASSUME VifConstants, VifIInv, vif_upset' # {}, vif_upset' \subseteq {"cancel", "change"}, VifNext
    PROVE  Idle' /\ alive_cb' = "idle" /\ ~p2p_stale'
<1>1. ASSUME NEW t \in Types, rwnx_interface_add(t) PROVE Idle' /\ alive_cb' = "idle" /\ ~p2p_stale'
  BY <1>1 DEF rwnx_interface_add, New, NoMonitorClash, Calm, Happens, Begins, VifIInv, Device, Idle
<1>2. ASSUME rwnx_virtual_interface_add PROVE Idle' /\ alive_cb' = "idle" /\ ~p2p_stale'
  BY <1>2 DEF rwnx_virtual_interface_add, New, Calm, Happens, Begins, VifIInv, Device, Idle
<1>3. ASSUME NEW v \in Slots, rwnx_cfg80211_del_iface(v) PROVE Idle' /\ alive_cb' = "idle" /\ ~p2p_stale'
  BY <1>3 DEF rwnx_cfg80211_del_iface, Calm, Happens, Begins, VifIInv, Device, Idle
<1>4. ASSUME NEW v \in Slots, rwnx_open(v) PROVE Idle' /\ alive_cb' = "idle" /\ ~p2p_stale'
  BY <1>4 DEF rwnx_open, DevExists, Calm, Happens, Begins, BeginsAlone, VifIInv, Device, Idle
<1>5. ASSUME NEW v \in Slots, rwnx_close(v) PROVE Idle' /\ alive_cb' = "idle" /\ ~p2p_stale'
  BY <1>5 DEF rwnx_close, RemoveIf, Calm, Happens, Begins, BeginsAlone, VifIInv, Device, Idle, Running, p2pVars
<1>6. ASSUME NEW v \in Slots, rwnx_cfgp2p_start_p2p_device(v) PROVE Idle' /\ alive_cb' = "idle" /\ ~p2p_stale'
  BY <1>6 DEF rwnx_cfgp2p_start_p2p_device, Calm, Happens, Begins, VifIInv, Device, Idle
<1>7. ASSUME NEW v \in Slots, rwnx_cfgp2p_stop_p2p_device(v) PROVE Idle' /\ alive_cb' = "idle" /\ ~p2p_stale'
  BY <1>7 DEF rwnx_cfgp2p_stop_p2p_device, RemoveIf, DeleteAliveTimer, Calm, Happens, Begins, VifIInv, Device, Idle, Running
<1>8. ASSUME NEW v \in Slots, RocP2pDevice(v) PROVE Idle' /\ alive_cb' = "idle" /\ ~p2p_stale'
  BY <1>8 DEF RocP2pDevice, AddIf, Attach, ArmAliveTimer, Calm, Happens, Begins, BeginsAlone, VifIInv, Device, Idle, Running, books
<1>9. ASSUME NEW v \in Slots, ScanEvent(v) PROVE Idle' /\ alive_cb' = "idle" /\ ~p2p_stale'
  BY <1>9 DEF ScanEvent, Calm, Happens, Begins, VifIInv, Device, Idle, Running, books
<1>10. ASSUME NEW v \in Slots, NEW t \in Types, rwnx_cfg80211_change_iface(v, t) PROVE Idle' /\ alive_cb' = "idle" /\ ~p2p_stale'
  BY <1>10 DEF rwnx_cfg80211_change_iface, RemoveIf, ForgetIndex, Detach, Calm, Happens, Begins, BeginsAlone, VifIInv, Device, Idle, p2pVars
<1>11. ASSUME OpenP2pDevice PROVE Idle' /\ alive_cb' = "idle" /\ ~p2p_stale'
  <2>1. ~Idle /\ UNCHANGED vif_upset
    BY <1>11 DEF OpenP2pDevice, At, Idle, Calm
  <2>2. QED BY <2>1 DEF VifIInv
<1>12. ASSUME OpenAddIf PROVE Idle' /\ alive_cb' = "idle" /\ ~p2p_stale'
  <2>1. ~Idle /\ UNCHANGED vif_upset
    BY <1>12 DEF OpenAddIf, At, Idle, Calm
  <2>2. QED BY <2>1 DEF VifIInv
<1>13. ASSUME CloseDown PROVE Idle' /\ alive_cb' = "idle" /\ ~p2p_stale'
  <2>1. ~Idle /\ UNCHANGED vif_upset
    BY <1>13 DEF CloseDown, At, Idle, Calm
  <2>2. QED BY <2>1 DEF VifIInv
<1>14. ASSUME CloseCount PROVE Idle' /\ alive_cb' = "idle" /\ ~p2p_stale'
  <2>1. ~Idle /\ UNCHANGED vif_upset
    BY <1>14 DEF CloseCount, At, Idle, Calm
  <2>2. QED BY <2>1 DEF VifIInv
<1>15. ASSUME ChangeAddIf PROVE Idle' /\ alive_cb' = "idle" /\ ~p2p_stale'
  <2>1. ~Idle /\ Idle' /\ UNCHANGED <<alive_cb, p2p_stale>>
    BY <1>15 DEF ChangeAddIf, At, Idle, Ends, p2pVars
  <2>2. vif_upset = {}
    BY <1>15, <2>1 DEF ChangeAddIf, AddIf, Happens, Calm, VifIInv
  <2>3. alive_cb = "idle" /\ ~p2p_stale
    BY <1>15, <2>2 DEF VifIInv, Ops, Device, At, ChangeAddIf
  <2>4. QED BY <2>1, <2>3
<1>16. ASSUME StopDown PROVE Idle' /\ alive_cb' = "idle" /\ ~p2p_stale'
  <2>1. ~Idle /\ UNCHANGED vif_upset
    BY <1>16 DEF StopDown, At, Idle, Calm
  <2>2. QED BY <2>1 DEF VifIInv
<1>17. ASSUME aicwf_p2p_alive_timeout PROVE Idle' /\ alive_cb' = "idle" /\ ~p2p_stale'
  <2>1. vif_upset \subseteq {"race"} /\ ("race" \in vif_upset' \/ UNCHANGED vif_upset)
    BY <1>17 DEF aicwf_p2p_alive_timeout, Happens, Calm
  <2>2. QED BY <2>1
<1>18. ASSUME AliveTimeoutDown PROVE Idle' /\ alive_cb' = "idle" /\ ~p2p_stale'
  <2>1. "race" \in vif_upset' \/ UNCHANGED vif_upset
    BY <1>18 DEF AliveTimeoutDown, Happens, Calm
  <2>2. alive_cb # "idle"
    BY <1>18 DEF AliveTimeoutDown
  <2>3. QED BY <2>1, <2>2 DEF VifIInv
<1>19. QED BY <1>1, <1>2, <1>3, <1>4, <1>5, <1>6, <1>7, <1>8, <1>9, <1>10, <1>11, <1>12, <1>13, <1>14, <1>15, <1>16, <1>17, <1>18 DEF VifNext, KernelBegins, KernelGoesOn

-----------------------------------------------------------------------------
\* What the invariant is for.
LEMMA VifIInvIsSound ==
    ASSUME VifConstants, VifIInv
    PROVE  VifSound
<1>1. VifTypeOK
  BY DEF VifIInv, VifShape, VifNumbers, VifTypeOK, Exists, Records
<1>2. Counted
  <2>1. UpVifs = {v \in Slots : Exists(v) /\ vif[v].up}
    BY DEF UpVifs
  <2>2. Quiet => ~At("close_count")
    BY DEF Quiet, Idle, At
  <2>3. QED BY <2>1, <2>2, UpFinite DEF VifIInv, Count, Counted
<1>3. ASSUME Quiet, vif_upset = {} PROVE Leaving = {} /\ Out = {}
  BY <1>3 DEF Quiet, Leaving, Out, Idle, At
<1>4. TableAgrees
  BY <1>3 DEF VifIInv, Table, TableAgrees, UpVifs
<1>5. AddedAfterStart
  BY SlotsFinite DEF VifIInv, Table, Count, AddedAfterStart
<1>6. DeviceLives
  BY DEF VifIInv, Device, DeviceLives
<1>7. QED BY <1>1, <1>2, <1>4, <1>5, <1>6 DEF VifSound

\* The driver begins with one interface, closed.
LEMMA VifBegins ==
    ASSUME VifConstants, VifInit
    PROVE  VifIInv
<1>1. /\ 0 \in Slots /\ New("STA") \in Records /\ New("STA").type = "STA" /\ New("STA").up = FALSE /\ New("STA").run = FALSE
      /\ NULL \notin Records /\ NULL \notin Slots /\ 0 \notin Vlan
  BY SlotsFinite DEF New, Records, Types, VifConstants
<1>2. /\ vif \in [Slots -> Records \cup {NULL}] /\ vif[0] = New("STA")
      /\ \A s \in Slots : Exists(s) <=> s = 0
  BY <1>1 DEF VifInit, Exists
<1>3. vif_op = [is |-> "idle", v |-> NULL] /\ vif_op.is = "idle" /\ vif_op.v = NULL
  BY DEF VifInit
<1>4. VifShape
  <2>1. VifNumbers
    <3>1. vif_table \in [Slots -> Slots \cup {NULL}]
      BY DEF VifInit
    <3>2. vif_started \in 0 .. 255 /\ fw_vifs \subseteq Regular
      BY DEF VifInit
    <3>3. p2p_dev_vif \in Slots \cup {NULL} /\ alive_cb \in {"idle", "down"}
      BY DEF VifInit
    <3>4. fw_on \in BOOLEAN /\ is_p2p_alive \in BOOLEAN /\ alive_timer \in BOOLEAN
      BY DEF VifInit
    <3>5. QED BY <3>1, <3>2, <3>3, <3>4 DEF VifNumbers
  <2>2. VifOpShape
    BY <1>3 DEF VifOpShape, At
  <2>3. QED BY <1>2, <2>1, <2>2 DEF VifShape
<1>5. UpVifs = {} /\ Leaving = {} /\ Out = {}
  BY <1>1, <1>2, <1>3 DEF UpVifs, Leaving, Out, At, VifInit
<1>6. Ops
  BY <1>1, <1>2, <1>3 DEF Ops, At
<1>7. Device
  BY <1>3 DEF Device, VifInit, At
<1>8. Table
  BY <1>5, SlotsFinite DEF Table, VifInit
<1>9. Count
  BY <1>3, <1>5, FS_EmptySet DEF Count, VifInit, At
<1>10. vif_upset = {}
  BY DEF VifInit
<1>11. QED BY <1>4, <1>6, <1>7, <1>8, <1>9, <1>10 DEF VifIInv

\* A step keeps it.
LEMMA VifStep ==
    ASSUME VifConstants, VifIInv, VifNext
    PROVE  VifIInv'
<1>1. VifShape /\ VifShape'
  BY ShapeKept DEF VifIInv
<1>2. ASSUME vif_upset' = {} PROVE Ops' /\ Device' /\ Table' /\ Count'
  <2>1. vif_upset = {}
    BY <1>2, CalmBefore
  <2>2. Ops /\ Device /\ Table /\ Count
    BY <2>1 DEF VifIInv
  <2>3. QED BY <1>1, <1>2, <2>1, <2>2, OpsKept, DeviceKept, BooksKept
<1>3. QED BY <1>1, <1>2, UpsetEnds DEF VifIInv, Idle

\* The interfaces of rwnx_open, rwnx_close, rwnx_cfg80211_change_iface and the
\* timer callback are sound in every state.
THEOREM VifIsSound ==
    ASSUME VifConstants
    PROVE  VifSpec => []VifSound
<1>1. VifInit => VifIInv
  BY VifBegins
<1>2. VifIInv /\ [VifNext]_vifVars => VifIInv'
  <2>1. ASSUME VifIInv, UNCHANGED vifVars PROVE VifIInv'
    BY <2>1 DEF VifIInv, VifShape, VifNumbers, VifOpShape, Ops, Device, Table, Count, UpVifs, Leaving, Out, DevExists,
                Exists, At, Idle, vifVars, books, p2pVars
  <2>2. QED BY <2>1, VifStep
<1>3. VifIInv => VifSound
  BY VifIInvIsSound
<1>4. QED BY <1>1, <1>2, <1>3, PTL DEF VifSpec

-----------------------------------------------------------------------------
(* The connection and its scans                                            *)

\* What the receive thread still has to hear of the connection, and of the scan.
CM(ok, r) == [is |-> "connect", ok |-> ok, roamed |-> r]
DM(again) == [is |-> "disconnect", reassoc |-> again]
LinkMsgs == [is : {"connect"}, ok : BOOLEAN, roamed : BOOLEAN] \cup [is : {"disconnect"}, reassoc : BOOLEAN]
ScanMsgs == [is : {"scan"}, of : ScanRequests]
Inds == LinkMsgs \cup ScanMsgs \cup {[is |-> "auth"]}

\* The members of S in s are l, in this order.
Among(s, S, l) ==
    \E f \in [1 .. Len(l) -> 1 .. Len(s)] :
        /\ \A i, j \in 1 .. Len(l) : i < j => f[i] < f[j]
        /\ \A i \in 1 .. Len(l) : s[f[i]] = l[i]
        /\ \A k \in 1 .. Len(s) : s[k] \in S => \E i \in 1 .. Len(l) : f[i] = k

\* The driver's view of a connection that is there, and of one that is not.
On == ap_valid /\ chan_linked /\ carrier /\ told = "up"
Off == ~ap_valid /\ ~chan_linked /\ ~carrier

\* The firmware, with what it has reported: an attempt that goes on or has ended,
\* one that was given up, and a connection that is there or has gone.
Tried(r, fw, l) ==
    \/ fw = (IF r THEN "roaming" ELSE "joining") /\ l = <<>>
    \/ fw = "joined" /\ l = <<CM(TRUE, r)>>
    \/ fw = "idle" /\ l = <<CM(FALSE, r)>>
    \/ fw = "idle" /\ l = <<CM(TRUE, r), DM(FALSE)>>
GivenUp(r, fw, l) ==
    \/ fw = "leaving" /\ l = <<CM(TRUE, r)>>
    \/ fw = "idle" /\ l = <<CM(FALSE, r)>>
    \/ fw = "idle" /\ l = <<CM(TRUE, r), DM(FALSE)>>
Linked(fw, l) ==
    \/ fw = "joined" /\ l = <<>>
    \/ fw = "idle" /\ l = <<DM(FALSE)>>
Left(fw, l) ==
    \/ fw = "leaving" /\ l = <<>>
    \/ fw = "idle" /\ l = <<DM(FALSE)>>
\* The same after the disconnect indication that goes before a reassociation.
Retried(r, fw, l) ==
    \/ fw = (IF r THEN "roaming" ELSE "joining") /\ l = <<DM(r)>>
    \/ fw = "joined" /\ l = <<DM(r), CM(TRUE, r)>>
    \/ fw = "idle" /\ l = <<DM(r), CM(FALSE, r)>>
    \/ fw = "idle" /\ l = <<DM(r), CM(TRUE, r), DM(FALSE)>>
RetryGivenUp(r, fw, l) ==
    \/ fw = "leaving" /\ l = <<DM(r), CM(TRUE, r)>>
    \/ fw = "idle" /\ l = <<DM(r), CM(FALSE, r)>>
    \/ fw = "idle" /\ l = <<DM(r), CM(TRUE, r), DM(FALSE)>>

\* Driver and firmware, state by state.
Disconnected(l) ==
    /\ conn_state = "DISCONNECTED" /\ ~is_roam /\ Off /\ told = "down"
    /\ fw_conn \in {"off", "idle"} /\ l = <<>>
Connected(l) == conn_state = "CONNECTED" /\ ~is_roam /\ On /\ Linked(fw_conn, l)
Connecting(l) ==
    /\ conn_state = "CONNECTING" /\ ~is_roam /\ Off /\ told = "down"
    /\ IF conn_op = "connect" THEN fw_conn = "idle" /\ l = <<>> ELSE Tried(FALSE, fw_conn, l)
Roaming(l) ==
    /\ conn_state = "ROAMING" /\ is_roam
    /\ IF conn_op = "connect" THEN (On /\ Linked(fw_conn, l)) \/ (Off /\ told = "down" /\ fw_conn = "idle" /\ l = <<>>)
       ELSE \E r \in BOOLEAN : \/ On /\ Retried(r, fw_conn, l)
                               \/ Off /\ told = (IF r THEN "up" ELSE "down") /\ Tried(r, fw_conn, l)
Disconnecting(l) ==
    /\ conn_state = "DISCONNECTING"
    /\ \/ is_roam /\ On /\ \E r \in BOOLEAN : RetryGivenUp(r, fw_conn, l)
       \/ is_roam /\ Off /\ \E r \in BOOLEAN : GivenUp(r, fw_conn, l)
       \/ ~is_roam /\ Off /\ GivenUp(FALSE, fw_conn, l)
       \/ ~is_roam /\ ap_valid /\ chan_linked /\ Left(fw_conn, l)

LinkRow(l) == Disconnected(l) \/ Connected(l) \/ Connecting(l) \/ Roaming(l) \/ Disconnecting(l)

\* One scan at most is on its way, and both sides know it by its request, but
\* for one that ndo_stop has reported already.
ScanRow(l) ==
    /\ cfg_scan = scan_request
    /\ scan_done_of # NULL => scan_done_of[1] = scan_done_of[2]
    /\ \/ fw_scan = NULL /\ l = <<>> /\ scan_request = NULL
       \/ \E r \in ScanRequests : /\ \/ fw_scan = r /\ l = <<>>
                                     \/ fw_scan = NULL /\ l = <<[is |-> "scan", of |-> r]>>
                                  /\ scan_request = IF conn_op = "close_cancel" THEN NULL ELSE r

ConnTypes ==
    /\ conn_msgs \in Seq(Inds) /\ is_roam \in BOOLEAN /\ ap_valid \in BOOLEAN /\ chan_linked \in BOOLEAN
    /\ carrier \in BOOLEAN /\ told \in {"up", "down"} /\ conn_up \in BOOLEAN
    /\ scan_request \in ScanRequests \cup {NULL} /\ fw_scan \in ScanRequests \cup {NULL}

\* What ndo_stop has waited for, and an interface that is not in the firmware.
Closing ==
    /\ conn_op = "connect" => conn_state \in {"CONNECTING", "ROAMING"}
    /\ conn_op \in {"close_cancel", "close_scan", "close_link"} => conn_state \in {"CONNECTED", "DISCONNECTED", "ROAMING"}
    /\ conn_op = "close_ind" => conn_state \in {"DISCONNECTING", "DISCONNECTED"}
    /\ conn_op \in {"close_remove", "close_down"} => conn_state = "DISCONNECTED"
    /\ conn_op \in {"close_link", "close_ind", "close_remove", "close_down"} => scan_request = NULL
    /\ ~conn_up => conn_op = "idle" /\ fw_conn = "off"
    /\ conn_op = "close_down" => fw_conn = "off"
    /\ fw_conn = "off" => conn_msgs = <<>> /\ fw_scan = NULL /\ (conn_up => conn_op = "close_down")

\* l is what is in flight of the connection, k of the scan.
Heard(s, l, k) ==
    /\ l \in Seq(LinkMsgs) /\ k \in Seq(ScanMsgs)
    /\ Among(s, LinkMsgs, l) /\ Among(s, ScanMsgs, k)

ConnRows(l, k) ==
    ConnTypes /\ Closing /\ ~null_used /\ Heard(conn_msgs, l, k) /\ LinkRow(l) /\ ScanRow(k)

\* The inductive invariant; once the two sides are apart nothing is claimed.
ConnIInv == conn_upset = {} => \E l \in Seq(LinkMsgs), k \in Seq(ScanMsgs) : ConnRows(l, k)

\* NULL is no request.
ConnConstants == NULL \notin ScanRequests

-----------------------------------------------------------------------------
\* What is in flight, told apart.

\* Nothing is among nothing.
LEMMA AmongNothing ==
    ASSUME NEW S
    PROVE  /\ Among(<<>>, S, <<>>)
           /\ \A l \in Seq(S) : Among(<<>>, S, l) => l = <<>>
<1>1. Among(<<>>, S, <<>>)
  <2>1. PICK f : f = [i \in 1 .. 0 |-> i]
    OBVIOUS
  <2>2. Len(<<>>) = 0 /\ 1 .. 0 = {}
    OBVIOUS
  <2>3. f \in [1 .. Len(<<>>) -> 1 .. Len(<<>>)]
    BY <2>1, <2>2
  <2>4. QED BY <2>2, <2>3 DEF Among
<1>2. ASSUME NEW l \in Seq(S), Among(<<>>, S, l) PROVE l = <<>>
  <2>1. Len(l) \in Nat /\ (Len(l) = 0 => l = <<>>)
    OBVIOUS
  <2>2. PICK f \in [1 .. Len(l) -> 1 .. 0] : TRUE
    BY <1>2 DEF Among
  <2>3. Len(l) = 0
    <3>1. ASSUME Len(l) > 0 PROVE FALSE
      <4>1. 1 \in 1 .. Len(l)
        BY <2>1, <3>1
      <4>2. f[1] \in 1 .. 0
        BY <2>2, <4>1
      <4>3. QED BY <4>2
    <3>2. QED BY <2>1, <3>1
  <2>4. QED BY <2>1, <2>3
<1>3. QED BY <1>1, <1>2

\* What is sent is the last.
LEMMA AmongAppend ==
    ASSUME NEW T, NEW S, NEW s \in Seq(T), NEW l \in Seq(S), NEW m \in T, Among(s, S, l)
    PROVE  /\ m \in S => Among(Append(s, m), S, Append(l, m))
           /\ m \notin S => Among(Append(s, m), S, l)
<1>1. PICK f \in [1 .. Len(l) -> 1 .. Len(s)] :
         /\ \A i, j \in 1 .. Len(l) : i < j => f[i] < f[j]
         /\ \A i \in 1 .. Len(l) : s[f[i]] = l[i]
         /\ \A k \in 1 .. Len(s) : s[k] \in S => \E i \in 1 .. Len(l) : f[i] = k
  BY DEF Among
<1>2. /\ Len(s) \in Nat /\ Len(Append(s, m)) = Len(s) + 1 /\ Append(s, m)[Len(s) + 1] = m
      /\ \A i \in 1 .. Len(s) : Append(s, m)[i] = s[i]
  BY AppendProperties
<1>3. CASE m \in S
  <2>1. /\ Len(l) \in Nat /\ Len(Append(l, m)) = Len(l) + 1 /\ Append(l, m)[Len(l) + 1] = m
        /\ \A i \in 1 .. Len(l) : Append(l, m)[i] = l[i]
    BY <1>3, AppendProperties
  <2>2. PICK g : g = [i \in 1 .. Len(l) + 1 |-> IF i = Len(l) + 1 THEN Len(s) + 1 ELSE f[i]]
    OBVIOUS
  <2>3. g \in [1 .. Len(Append(l, m)) -> 1 .. Len(Append(s, m))]
    BY <1>2, <2>1, <2>2
  <2>4. \A i, j \in 1 .. Len(Append(l, m)) : i < j => g[i] < g[j]
    <3>1. ASSUME NEW i \in 1 .. Len(l) + 1, NEW j \in 1 .. Len(l) + 1, i < j PROVE g[i] < g[j]
      <4>0. i \in 1 .. Len(l)
        BY <2>1, <3>1
      <4>5. f[i] \in 1 .. Len(s)
        BY <1>1, <4>0
      <4>6. i \in 1 .. Len(l) + 1 /\ i # Len(l) + 1
        BY <2>1, <4>0
      <4>1. i \in 1 .. Len(l) /\ g[i] = f[i] /\ f[i] \in 1 .. Len(s)
        BY <2>2, <4>0, <4>5, <4>6
      <4>2. CASE j = Len(l) + 1
        BY <1>2, <2>2, <4>1, <4>2
      <4>3. CASE j \in 1 .. Len(l)
        BY <1>1, <2>1, <2>2, <3>1, <4>1, <4>3
      <4>4. QED BY <2>1, <4>2, <4>3
    <3>2. QED BY <2>1, <3>1
  <2>5. \A i \in 1 .. Len(Append(l, m)) : Append(s, m)[g[i]] = Append(l, m)[i]
    BY <1>1, <1>2, <2>1, <2>2
  <2>6. ASSUME NEW k \in 1 .. Len(Append(s, m)), Append(s, m)[k] \in S PROVE \E i \in 1 .. Len(Append(l, m)) : g[i] = k
    <3>1. CASE k = Len(s) + 1
      BY <2>1, <2>2, <3>1
    <3>2. CASE k \in 1 .. Len(s)
      <4>1. PICK i \in 1 .. Len(l) : f[i] = k
        BY <1>1, <1>2, <2>6, <3>2
      <4>2. i \in 1 .. Len(l) + 1 /\ g[i] = k
        BY <2>1, <2>2, <4>1
      <4>3. QED BY <2>1, <4>2
    <3>3. QED BY <1>2, <3>1, <3>2
  <2>7. QED BY <1>3, <2>3, <2>4, <2>5, <2>6 DEF Among
<1>4. CASE m \notin S
  <2>1. f \in [1 .. Len(l) -> 1 .. Len(Append(s, m))]
    BY <1>2
  <2>2. \A i \in 1 .. Len(l) : Append(s, m)[f[i]] = l[i]
    BY <1>1, <1>2
  <2>3. \A k \in 1 .. Len(Append(s, m)) : Append(s, m)[k] \in S => \E i \in 1 .. Len(l) : f[i] = k
    BY <1>1, <1>2, <1>4
  <2>4. QED BY <1>1, <1>4, <2>1, <2>2, <2>3 DEF Among
<1>5. QED BY <1>3, <1>4

\* What is handled is the first.
LEMMA AmongTail ==
    ASSUME NEW T, NEW S, NEW s \in Seq(T), s # <<>>, NEW l \in Seq(S), Among(s, S, l)
    PROVE  /\ Head(s) \in S => l # <<>> /\ l[1] = Head(s) /\ Tail(l) \in Seq(S) /\ Among(Tail(s), S, Tail(l))
           /\ Head(s) \notin S => Among(Tail(s), S, l)
<1>1. PICK f \in [1 .. Len(l) -> 1 .. Len(s)] :
         /\ \A i, j \in 1 .. Len(l) : i < j => f[i] < f[j]
         /\ \A i \in 1 .. Len(l) : s[f[i]] = l[i]
         /\ \A k \in 1 .. Len(s) : s[k] \in S => \E i \in 1 .. Len(l) : f[i] = k
  BY DEF Among
<1>2. /\ Len(s) \in Nat /\ Len(s) > 0 /\ Len(Tail(s)) = Len(s) - 1 /\ Head(s) = s[1]
      /\ \A i \in 1 .. Len(Tail(s)) : Tail(s)[i] = s[i + 1]
  BY HeadTailProperties
<1>3. Len(l) \in Nat /\ \A i \in 1 .. Len(l) : l[i] \in S
  OBVIOUS
<1>4. CASE Head(s) \in S
  <2>1. PICK i \in 1 .. Len(l) : f[i] = 1
    BY <1>1, <1>2, <1>4
  <2>2. i = 1
    <3>1. ASSUME i # 1 PROVE FALSE
      <4>1. 1 \in 1 .. Len(l) /\ 1 < i
        BY <1>3, <3>1
      <4>2. f[1] < f[i] /\ f[1] \in 1 .. Len(s)
        BY <1>1, <4>1
      <4>3. QED BY <1>2, <2>1, <4>2
    <3>2. QED BY <3>1
  <2>3. Len(l) > 0 /\ l # <<>> /\ l[1] = Head(s)
    BY <1>1, <1>2, <1>3, <2>1, <2>2
  <2>4. /\ Len(Tail(l)) = Len(l) - 1 /\ Tail(l) \in Seq(S)
        /\ \A j \in 1 .. Len(Tail(l)) : Tail(l)[j] = l[j + 1]
    BY <2>3, HeadTailProperties
  <2>5. \A j \in 2 .. Len(l) : f[j] \in 2 .. Len(s)
    BY <1>1, <1>2, <1>3, <2>1, <2>2
  <2>6. PICK g : g = [j \in 1 .. Len(l) - 1 |-> f[j + 1] - 1]
    OBVIOUS
  <2>7. g \in [1 .. Len(Tail(l)) -> 1 .. Len(Tail(s))]
    <3>1. ASSUME NEW j \in 1 .. Len(l) - 1 PROVE f[j + 1] - 1 \in 1 .. Len(s) - 1
      <4>1. j + 1 \in 2 .. Len(l)
        BY <1>3
      <4>2. f[j + 1] \in 2 .. Len(s)
        BY <2>5, <4>1
      <4>3. QED BY <1>2, <4>2
    <3>2. QED BY <1>2, <2>4, <2>6, <3>1
  <2>8. \A a, b \in 1 .. Len(Tail(l)) : a < b => g[a] < g[b]
    <3>1. ASSUME NEW a \in 1 .. Len(l) - 1, NEW b \in 1 .. Len(l) - 1, a < b PROVE g[a] < g[b]
      <4>1. a + 1 \in 1 .. Len(l) /\ b + 1 \in 1 .. Len(l) /\ a + 1 < b + 1
        BY <1>3, <3>1
      <4>2. f[a + 1] < f[b + 1] /\ f[a + 1] \in 1 .. Len(s) /\ f[b + 1] \in 1 .. Len(s)
        BY <1>1, <4>1
      <4>3. g[a] = f[a + 1] - 1 /\ g[b] = f[b + 1] - 1
        BY <2>6
      <4>4. QED BY <1>2, <4>2, <4>3
    <3>2. QED BY <2>4, <3>1
  <2>9. \A a \in 1 .. Len(Tail(l)) : Tail(s)[g[a]] = Tail(l)[a]
    <3>1. ASSUME NEW a \in 1 .. Len(l) - 1 PROVE Tail(s)[g[a]] = Tail(l)[a]
      <4>1. a + 1 \in 1 .. Len(l) /\ a + 1 \in 2 .. Len(l)
        BY <1>3
      <4>2. s[f[a + 1]] = l[a + 1] /\ f[a + 1] \in 2 .. Len(s) /\ g[a] = f[a + 1] - 1
        BY <1>1, <2>5, <2>6, <4>1
      <4>3. g[a] \in 1 .. Len(Tail(s)) /\ g[a] + 1 = f[a + 1]
        BY <1>2, <4>2
      <4>4. Tail(s)[g[a]] = s[g[a] + 1]
        BY <1>2, <4>3
      <4>5. QED BY <2>4, <4>2, <4>3, <4>4
    <3>2. QED BY <2>4, <3>1
  <2>10. ASSUME NEW k \in 1 .. Len(Tail(s)), Tail(s)[k] \in S PROVE \E a \in 1 .. Len(Tail(l)) : g[a] = k
    <3>1. k + 1 \in 1 .. Len(s) /\ s[k + 1] \in S
      BY <1>2, <2>10
    <3>2. PICK b \in 1 .. Len(l) : f[b] = k + 1
      BY <1>1, <3>1
    <3>3. b # 1
      BY <1>2, <2>1, <2>2, <3>2
    <3>4. b - 1 \in 1 .. Len(Tail(l)) /\ b - 1 \in 1 .. Len(l) - 1 /\ (b - 1) + 1 = b
      BY <1>3, <2>4, <3>3
    <3>5. g[b - 1] = k
      BY <1>2, <2>6, <3>2, <3>4
    <3>6. QED BY <3>4, <3>5
  <2>11. Among(Tail(s), S, Tail(l))
    BY <2>7, <2>8, <2>9, <2>10 DEF Among
  <2>12. QED BY <1>4, <2>3, <2>4, <2>11
<1>5. CASE Head(s) \notin S
  <2>1. \A j \in 1 .. Len(l) : f[j] \in 2 .. Len(s)
    <3>1. \A j \in 1 .. Len(l) : s[f[j]] \in S /\ f[j] \in 1 .. Len(s)
      BY <1>1, <1>3
    <3>2. QED BY <1>2, <1>5, <3>1
  <2>2. PICK g : g = [j \in 1 .. Len(l) |-> f[j] - 1]
    OBVIOUS
  <2>3. g \in [1 .. Len(l) -> 1 .. Len(Tail(s))]
    BY <1>2, <2>1, <2>2
  <2>4. \A a, b \in 1 .. Len(l) : a < b => g[a] < g[b]
    BY <1>1, <1>2, <2>1, <2>2
  <2>5. \A a \in 1 .. Len(l) : Tail(s)[g[a]] = l[a]
    <3>1. ASSUME NEW a \in 1 .. Len(l) PROVE Tail(s)[g[a]] = l[a]
      <4>1. s[f[a]] = l[a] /\ f[a] \in 2 .. Len(s)
        BY <1>1, <2>1
      <4>5. g[a] = f[a] - 1
        BY <2>2
      <4>2. g[a] \in 1 .. Len(Tail(s)) /\ g[a] + 1 = f[a]
        BY <1>2, <4>1, <4>5, SMTT(30)
      <4>3. Tail(s)[g[a]] = s[g[a] + 1]
        BY <1>2, <4>2
      <4>4. QED BY <4>1, <4>2, <4>3
    <3>2. QED BY <3>1
  <2>6. ASSUME NEW k \in 1 .. Len(Tail(s)), Tail(s)[k] \in S PROVE \E a \in 1 .. Len(l) : g[a] = k
    <3>1. k + 1 \in 1 .. Len(s) /\ s[k + 1] \in S
      BY <1>2, <2>6
    <3>2. PICK b \in 1 .. Len(l) : f[b] = k + 1
      BY <1>1, <3>1
    <3>3. g[b] = k
      BY <1>2, <2>2, <3>2
    <3>4. QED BY <3>3
  <2>7. QED BY <1>5, <2>3, <2>4, <2>5, <2>6 DEF Among
<1>6. QED BY <1>4, <1>5

\* The kinds of indications are apart.
LEMMA Kinds ==
    /\ \A m \in LinkMsgs : m \in Inds /\ m \notin ScanMsgs /\ m.is \in {"connect", "disconnect"}
    /\ \A m \in ScanMsgs : m \in Inds /\ m \notin LinkMsgs /\ m.is = "scan"
    /\ \A m \in Inds : /\ m.is \in {"connect", "disconnect"} => m \in LinkMsgs
                       /\ m.is = "scan" => m \in ScanMsgs
                       /\ m.is = "auth" => m \notin LinkMsgs /\ m \notin ScanMsgs
    /\ [is |-> "auth"] \in Inds /\ [is |-> "auth"] \notin LinkMsgs /\ [is |-> "auth"] \notin ScanMsgs
<1>1. \A m \in LinkMsgs : m \in Inds /\ m.is \in {"connect", "disconnect"}
  BY DEF LinkMsgs, Inds
<1>2. \A m \in ScanMsgs : m \in Inds /\ m.is = "scan"
  BY DEF ScanMsgs, Inds
<1>3. [is |-> "auth"] \in Inds /\ [is |-> "auth"].is = "auth"
  BY DEF Inds
<1>4. \A m \in Inds : m \in LinkMsgs \/ m \in ScanMsgs \/ m.is = "auth"
  BY DEF Inds
<1>5. QED BY <1>1, <1>2, <1>3, <1>4

\* The messages of the connection.
LEMMA LinkMsgsAre ==
    /\ \A ok, r \in BOOLEAN : CM(ok, r) \in LinkMsgs /\ CM(ok, r).is = "connect" /\ CM(ok, r).ok = ok
    /\ \A r \in BOOLEAN : DM(r) \in LinkMsgs /\ DM(r).is = "disconnect" /\ DM(r).reassoc = r
    /\ \A a \in ScanRequests : [is |-> "scan", of |-> a] \in ScanMsgs
BY DEF CM, DM, LinkMsgs, ScanMsgs

\* A message that is sent.
LEMMA HeardSent ==
    ASSUME NEW s \in Seq(Inds), NEW l, NEW k, NEW m \in Inds, Heard(s, l, k)
    PROVE  /\ Append(s, m) \in Seq(Inds)
           /\ m \in LinkMsgs => Heard(Append(s, m), Append(l, m), k)
           /\ m \in ScanMsgs => Heard(Append(s, m), l, Append(k, m))
           /\ m \notin LinkMsgs /\ m \notin ScanMsgs => Heard(Append(s, m), l, k)
<1>1. l \in Seq(LinkMsgs) /\ k \in Seq(ScanMsgs) /\ Among(s, LinkMsgs, l) /\ Among(s, ScanMsgs, k)
  BY DEF Heard
<1>2. /\ m \in LinkMsgs => Among(Append(s, m), LinkMsgs, Append(l, m))
      /\ m \notin LinkMsgs => Among(Append(s, m), LinkMsgs, l)
  BY <1>1, AmongAppend
<1>3. /\ m \in ScanMsgs => Among(Append(s, m), ScanMsgs, Append(k, m))
      /\ m \notin ScanMsgs => Among(Append(s, m), ScanMsgs, k)
  BY <1>1, AmongAppend
<1>4. /\ m \in LinkMsgs => Append(l, m) \in Seq(LinkMsgs)
      /\ m \in ScanMsgs => Append(k, m) \in Seq(ScanMsgs)
  BY <1>1
<1>5. QED BY <1>1, <1>2, <1>3, <1>4, Kinds DEF Heard

\* A message that is handled.
LEMMA HeardHandled ==
    ASSUME NEW s \in Seq(Inds), s # <<>>, NEW l, NEW k, Heard(s, l, k)
    PROVE  /\ Tail(s) \in Seq(Inds) /\ Head(s) \in Inds
           /\ Head(s).is \in {"connect", "disconnect"} =>
                 l # <<>> /\ l[1] = Head(s) /\ Heard(Tail(s), Tail(l), k)
           /\ Head(s).is = "scan" => k # <<>> /\ k[1] = Head(s) /\ Heard(Tail(s), l, Tail(k))
           /\ Head(s).is = "auth" => Heard(Tail(s), l, k)
<1>1. l \in Seq(LinkMsgs) /\ k \in Seq(ScanMsgs) /\ Among(s, LinkMsgs, l) /\ Among(s, ScanMsgs, k)
  BY DEF Heard
<1>2. Tail(s) \in Seq(Inds) /\ Head(s) \in Inds
  OBVIOUS
<1>3. /\ Head(s) \in LinkMsgs => l # <<>> /\ l[1] = Head(s) /\ Tail(l) \in Seq(LinkMsgs) /\ Among(Tail(s), LinkMsgs, Tail(l))
      /\ Head(s) \notin LinkMsgs => Among(Tail(s), LinkMsgs, l)
  BY <1>1, AmongTail
<1>4. /\ Head(s) \in ScanMsgs => k # <<>> /\ k[1] = Head(s) /\ Tail(k) \in Seq(ScanMsgs) /\ Among(Tail(s), ScanMsgs, Tail(k))
      /\ Head(s) \notin ScanMsgs => Among(Tail(s), ScanMsgs, k)
  BY <1>1, AmongTail
<1>5. QED BY <1>1, <1>2, <1>3, <1>4, Kinds DEF Heard

\* Nothing is in flight.
LEMMA HeardNothing ==
    /\ Heard(<<>>, <<>>, <<>>)
    /\ \A l, k : Heard(<<>>, l, k) => l = <<>> /\ k = <<>>
BY AmongNothing DEF Heard

\* Rows of two and three messages, sent one after another.
LEMMA SentTwo == ASSUME NEW a, NEW b PROVE Append(<<a>>, b) = <<a, b>>
<1>1. <<a>> \in Seq({a, b}) /\ Len(<<a>>) = 1 /\ <<a, b>> \in Seq({a, b}) /\ Len(<<a, b>>) = 2
  OBVIOUS
<1>2. /\ Append(<<a>>, b) \in Seq({a, b}) /\ Len(Append(<<a>>, b)) = 2
      /\ Append(<<a>>, b)[1] = a /\ Append(<<a>>, b)[2] = b
  BY <1>1, AppendProperties
<1>3. \A i \in 1 .. 2 : Append(<<a>>, b)[i] = <<a, b>>[i]
  BY <1>2
<1>4. QED BY <1>1, <1>2, <1>3, SeqEqual

\* The same of three.
LEMMA SentThree == ASSUME NEW a, NEW b, NEW c PROVE Append(<<a, b>>, c) = <<a, b, c>>
<1>1. <<a, b>> \in Seq({a, b, c}) /\ Len(<<a, b>>) = 2 /\ <<a, b, c>> \in Seq({a, b, c}) /\ Len(<<a, b, c>>) = 3
  OBVIOUS
<1>2. /\ Append(<<a, b>>, c) \in Seq({a, b, c}) /\ Len(Append(<<a, b>>, c)) = 3
      /\ Append(<<a, b>>, c)[1] = a /\ Append(<<a, b>>, c)[2] = b /\ Append(<<a, b>>, c)[3] = c
  BY <1>1, AppendProperties
<1>3. \A i \in 1 .. 3 : Append(<<a, b>>, c)[i] = <<a, b, c>>[i]
  BY <1>2
<1>4. QED BY <1>1, <1>2, <1>3, SeqEqual

\* What is left of two and of three messages.
LEMMA LeftOfTwo == ASSUME NEW a, NEW b PROVE Tail(<<a, b>>) = <<b>> /\ <<a, b>>[1] = a
OBVIOUS

\* The same of three.
LEMMA LeftOfThree == ASSUME NEW a, NEW b, NEW c PROVE Tail(<<a, b, c>>) = <<b, c>> /\ <<a, b, c>>[1] = a
OBVIOUS

\* What comes first, by what goes on.
LEMMA Firsts ==
    ASSUME NEW r \in BOOLEAN, NEW fw, NEW l, l # <<>>
    PROVE  /\ Tried(r, fw, l) \/ GivenUp(r, fw, l) => l[1].is = "connect"
           /\ Linked(fw, l) \/ Left(fw, l) \/ Retried(r, fw, l) \/ RetryGivenUp(r, fw, l) => l[1].is = "disconnect"
<1>1. ASSUME NEW ok \in BOOLEAN, l = <<CM(ok, r)>> \/ l = <<CM(ok, r), DM(FALSE)>> PROVE l[1].is = "connect"
  <2>1. l[1] = CM(ok, r)
    <3>1. CASE l = <<CM(ok, r)>>
      BY <3>1
    <3>2. CASE l = <<CM(ok, r), DM(FALSE)>>
      BY <3>2, LeftOfTwo
    <3>3. QED BY <1>1, <3>1, <3>2
  <2>2. QED BY <2>1, LinkMsgsAre
<1>2. ASSUME NEW q \in BOOLEAN, NEW ok \in BOOLEAN,
             l = <<DM(q)>> \/ l = <<DM(q), CM(ok, r)>> \/ l = <<DM(q), CM(ok, r), DM(FALSE)>> PROVE l[1].is = "disconnect"
  <2>1. l[1] = DM(q)
    <3>1. CASE l = <<DM(q)>>
      BY <3>1
    <3>2. CASE l = <<DM(q), CM(ok, r)>>
      BY <3>2, LeftOfTwo
    <3>3. CASE l = <<DM(q), CM(ok, r), DM(FALSE)>>
      BY <3>3, LeftOfThree
    <3>4. QED BY <1>2, <3>1, <3>2, <3>3
  <2>2. QED BY <2>1, LinkMsgsAre
<1>3. QED BY <1>1, <1>2 DEF Tried, GivenUp, Linked, Left, Retried, RetryGivenUp

-----------------------------------------------------------------------------
\* Step by step.

\* The row holds for what it speaks of, whatever else changes.
LEMMA LinkRowStays ==
    ASSUME NEW l, LinkRow(l), UNCHANGED <<link, fw_conn>>, (conn_op' = "connect") = (conn_op = "connect")
    PROVE  LinkRow(l)'
<1>1. /\ conn_state' = conn_state /\ is_roam' = is_roam /\ ap_valid' = ap_valid /\ chan_linked' = chan_linked
      /\ carrier' = carrier /\ told' = told /\ fw_conn' = fw_conn
  BY DEF link
<1>2. On' = On /\ Off' = Off
  BY <1>1 DEF On, Off
<1>3. /\ Disconnected(l)' = Disconnected(l) /\ Connected(l)' = Connected(l) /\ Connecting(l)' = Connecting(l)
  BY <1>1, <1>2 DEF Disconnected, Connected, Connecting
<1>4. Roaming(l)' = Roaming(l)
  BY <1>1, <1>2 DEF Roaming
<1>5. Disconnecting(l)' = Disconnecting(l)
  BY <1>1, <1>2 DEF Disconnecting
<1>6. QED BY <1>3, <1>4, <1>5 DEF LinkRow

\* The messages of the rows, sent one after another and handled one after another.
LEMMA LinkFacts ==
    /\ \A x \in LinkMsgs : Append(<<>>, x) = <<x>> /\ Tail(<<x>>) = <<>> /\ <<x>>[1] = x /\ <<x>> # <<>>
    /\ \A x, y \in LinkMsgs : Append(<<x>>, y) = <<x, y>> /\ Tail(<<x, y>>) = <<y>> /\ <<x, y>>[1] = x
    /\ \A x, y, z \in LinkMsgs : /\ Append(<<x, y>>, z) = <<x, y, z>> /\ Tail(<<x, y, z>>) = <<y, z>>
                                 /\ <<x, y, z>>[1] = x
    /\ \A ok, r \in BOOLEAN : CM(ok, r) \in LinkMsgs /\ CM(ok, r).is = "connect" /\ CM(ok, r).ok = ok
    /\ \A r \in BOOLEAN : DM(r) \in LinkMsgs /\ DM(r).is = "disconnect" /\ DM(r).reassoc = r
<1>1. \A x \in LinkMsgs : Append(<<>>, x) = <<x>> /\ Tail(<<x>>) = <<>> /\ <<x>>[1] = x /\ <<x>> # <<>>
  OBVIOUS
<1>2. \A x, y \in LinkMsgs : Append(<<x>>, y) = <<x, y>>
  BY SentTwo, Zenon
<1>3. \A x, y \in LinkMsgs : Tail(<<x, y>>) = <<y>>
  OBVIOUS
<1>4. \A x, y \in LinkMsgs : <<x, y>>[1] = x
  OBVIOUS
<1>5. \A x, y, z \in LinkMsgs : Append(<<x, y>>, z) = <<x, y, z>>
  BY SentThree, Zenon
<1>6. \A x, y, z \in LinkMsgs : Tail(<<x, y, z>>) = <<y, z>>
  OBVIOUS
<1>7. \A x, y, z \in LinkMsgs : <<x, y, z>>[1] = x
  OBVIOUS
<1>8. QED BY <1>1, <1>2, <1>3, <1>4, <1>5, <1>6, <1>7, LinkMsgsAre

\* The interface comes up.
LEMMA OpenKeeps ==
    ASSUME ConnConstants, conn_upset = {}, conn_upset' = {},
           NEW l \in Seq(LinkMsgs), NEW k \in Seq(ScanMsgs), ConnRows(l, k), Open
    PROVE  \E n \in Seq(LinkMsgs), j \in Seq(ScanMsgs) : ConnRows(n, j)'
<1>1. ConnTypes'
  BY DEF Open, ConnRows, ConnTypes, link, scans, Free, Upsets
<1>2. Closing'
  BY DEF Open, ConnRows, Closing, link, scans, Free, Upsets
<1>3. Heard(conn_msgs', l, k) /\ ~null_used'
  BY DEF Open, ConnRows, Free, Upsets
<1>4. LinkRow(l)'
  BY LinkFacts, ZenonT(60) DEF Open, ConnRows, Closing, LinkRow, Disconnected, Connected, Connecting, Roaming, Disconnecting, On, Off, Tried, GivenUp, Linked, Left, Retried, RetryGivenUp, link, Free, Upsets
<1>5. ScanRow(k)'
  BY DEF Open, ConnRows, Closing, ScanRow, scans, ConnConstants, Free, Upsets
<1>6. QED BY <1>1, <1>2, <1>3, <1>4, <1>5 DEF ConnRows

\* A connection is asked for.
LEMMA ConnectKeeps ==
    ASSUME ConnConstants, conn_upset = {}, conn_upset' = {},
           NEW l \in Seq(LinkMsgs), NEW k \in Seq(ScanMsgs), ConnRows(l, k), rwnx_cfg80211_connect
    PROVE  \E n \in Seq(LinkMsgs), j \in Seq(ScanMsgs) : ConnRows(n, j)'
<1>1. ConnTypes'
  BY DEF rwnx_cfg80211_connect, ConnRows, ConnTypes, link, scans, Free, Upsets
<1>2. Closing'
  BY DEF rwnx_cfg80211_connect, ConnRows, Closing, link, scans, Free, Upsets
<1>3. Heard(conn_msgs', l, k) /\ ~null_used'
  BY DEF rwnx_cfg80211_connect, ConnRows, Free, Upsets
<1>4. LinkRow(l)'
  BY LinkFacts, ZenonT(60) DEF rwnx_cfg80211_connect, ConnRows, Closing, LinkRow, Disconnected, Connected, Connecting, Roaming, Disconnecting, On, Off, Tried, GivenUp, Linked, Left, Retried, RetryGivenUp, link, Free, Upsets
<1>5. ScanRow(k)'
  BY DEF rwnx_cfg80211_connect, ConnRows, Closing, ScanRow, scans, ConnConstants, Free, Upsets
<1>6. QED BY <1>1, <1>2, <1>3, <1>4, <1>5 DEF ConnRows

\* A connection is asked for while another is made or ended: unless is_roam is lost, nothing changes.
LEMMA IgnoredKeeps ==
    ASSUME ConnConstants, conn_upset = {}, conn_upset' = {},
           NEW l \in Seq(LinkMsgs), NEW k \in Seq(ScanMsgs), ConnRows(l, k), ConnectIgnored
    PROVE  \E n \in Seq(LinkMsgs), j \in Seq(ScanMsgs) : ConnRows(n, j)'
<1>1. is_roam \in BOOLEAN /\ ~is_roam
  BY DEF ConnectIgnored, Upsets, ConnRows, ConnTypes
<1>2. UNCHANGED <<link, ext_auth, conn_up, scans, conn_op, fw_conn, fw_scan, conn_msgs, null_used>>
  BY <1>1 DEF ConnectIgnored, link
<1>3. LinkRow(l)'
  BY <1>2 DEF ConnRows, LinkRow, Disconnected, Connected, Connecting, Roaming, Disconnecting, On, Off, link
<1>4. ScanRow(k)' /\ ConnTypes' /\ Closing' /\ ~null_used' /\ Heard(conn_msgs', l, k)
  BY <1>2 DEF ConnRows, ScanRow, ConnTypes, Closing, link, scans
<1>5. QED BY <1>3, <1>4 DEF ConnRows

\* User space has authenticated.
LEMMA ExternalAuthKeeps ==
    ASSUME ConnConstants, conn_upset = {}, conn_upset' = {},
           NEW l \in Seq(LinkMsgs), NEW k \in Seq(ScanMsgs), ConnRows(l, k), rwnx_cfg80211_external_auth
    PROVE  \E n \in Seq(LinkMsgs), j \in Seq(ScanMsgs) : ConnRows(n, j)'
<1>1. ConnTypes'
  BY DEF rwnx_cfg80211_external_auth, ConnRows, ConnTypes, link, scans, Free, Upsets
<1>2. Closing'
  BY DEF rwnx_cfg80211_external_auth, ConnRows, Closing, link, scans, Free, Upsets
<1>3. Heard(conn_msgs', l, k) /\ ~null_used'
  BY DEF rwnx_cfg80211_external_auth, ConnRows, Free, Upsets
<1>4. LinkRow(l)'
  BY ZenonT(60) DEF rwnx_cfg80211_external_auth, ConnRows, Closing, LinkRow, Disconnected, Connected, Connecting, Roaming, Disconnecting, On, Off, Tried, GivenUp, Linked, Left, Retried, RetryGivenUp, link, Free, Upsets
<1>5. ScanRow(k)'
  BY DEF rwnx_cfg80211_external_auth, ConnRows, Closing, ScanRow, scans, ConnConstants, Free, Upsets
<1>6. QED BY <1>1, <1>2, <1>3, <1>4, <1>5 DEF ConnRows

\* The interface begins to close.
LEMMA CloseKeeps ==
    ASSUME ConnConstants, conn_upset = {}, conn_upset' = {},
           NEW l \in Seq(LinkMsgs), NEW k \in Seq(ScanMsgs), ConnRows(l, k), CloseBegins
    PROVE  \E n \in Seq(LinkMsgs), j \in Seq(ScanMsgs) : ConnRows(n, j)'
<1>1. ConnTypes'
  BY DEF CloseBegins, ConnRows, ConnTypes, link, scans, Free, Upsets
<1>2. Closing'
  BY DEF CloseBegins, ConnRows, Closing, link, scans, Free, Upsets
<1>3. Heard(conn_msgs', l, k) /\ ~null_used'
  BY DEF CloseBegins, ConnRows, Free, Upsets
<1>4. LinkRow(l)'
  BY ZenonT(60) DEF CloseBegins, ConnRows, Closing, LinkRow, Disconnected, Connected, Connecting, Roaming, Disconnecting, On, Off, Tried, GivenUp, Linked, Left, Retried, RetryGivenUp, link, Free, Upsets
<1>5. ScanRow(k)'
  BY DEF CloseBegins, ConnRows, Closing, ScanRow, scans, ConnConstants, Free, Upsets
<1>6. QED BY <1>1, <1>2, <1>3, <1>4, <1>5 DEF ConnRows

\* The close has waited for the state.
LEMMA CloseWaitsKeeps ==
    ASSUME ConnConstants, conn_upset = {}, conn_upset' = {},
           NEW l \in Seq(LinkMsgs), NEW k \in Seq(ScanMsgs), ConnRows(l, k), CloseWaits
    PROVE  \E n \in Seq(LinkMsgs), j \in Seq(ScanMsgs) : ConnRows(n, j)'
<1>1. ConnTypes'
  BY DEF CloseWaits, ConnRows, ConnTypes, link, scans, Free, Upsets
<1>2. Closing'
  <2>1. conn_state \in {"CONNECTED", "DISCONNECTED", "ROAMING", "CONNECTING", "DISCONNECTING"}
    BY DEF ConnRows, LinkRow, Disconnected, Connected, Connecting, Roaming, Disconnecting
  <2>2. QED BY <2>1 DEF CloseWaits, ConnRows, Closing, link, scans, Free, Upsets
<1>3. Heard(conn_msgs', l, k) /\ ~null_used'
  BY DEF CloseWaits, ConnRows, Free, Upsets
<1>4. LinkRow(l)'
  BY LinkFacts, ZenonT(60) DEF CloseWaits, ConnRows, Closing, LinkRow, Disconnected, Connected, Connecting, Roaming, Disconnecting, On, Off, Tried, GivenUp, Linked, Left, Retried, RetryGivenUp, link, Free, Upsets
<1>5. ScanRow(k)'
  BY DEF CloseWaits, ConnRows, Closing, ScanRow, scans, ConnConstants, Free, Upsets
<1>6. QED BY <1>1, <1>2, <1>3, <1>4, <1>5 DEF ConnRows

\* The close has waited for the disconnect indication.
LEMMA CloseWaitsIndKeeps ==
    ASSUME ConnConstants, conn_upset = {}, conn_upset' = {},
           NEW l \in Seq(LinkMsgs), NEW k \in Seq(ScanMsgs), ConnRows(l, k), CloseWaitsInd
    PROVE  \E n \in Seq(LinkMsgs), j \in Seq(ScanMsgs) : ConnRows(n, j)'
<1>1. ConnTypes'
  BY DEF CloseWaitsInd, ConnRows, ConnTypes, link, scans, Free, Upsets, WaitForInd
<1>2. Closing'
  BY DEF CloseWaitsInd, ConnRows, Closing, link, scans, Free, Upsets, WaitForInd
<1>3. Heard(conn_msgs', l, k) /\ ~null_used'
  BY DEF CloseWaitsInd, ConnRows, Free, Upsets, WaitForInd
<1>4. LinkRow(l)'
  BY LinkFacts, ZenonT(60) DEF CloseWaitsInd, ConnRows, Closing, LinkRow, Disconnected, Connected, Connecting, Roaming, Disconnecting, On, Off, Tried, GivenUp, Linked, Left, Retried, RetryGivenUp, link, Free, Upsets, WaitForInd
<1>5. ScanRow(k)'
  BY DEF CloseWaitsInd, ConnRows, Closing, ScanRow, scans, ConnConstants, Free, Upsets, WaitForInd
<1>6. QED BY <1>1, <1>2, <1>3, <1>4, <1>5 DEF ConnRows

\* The close reports the scan as aborted.
LEMMA CloseAbortsScanKeeps ==
    ASSUME ConnConstants, conn_upset = {}, conn_upset' = {},
           NEW l \in Seq(LinkMsgs), NEW k \in Seq(ScanMsgs), ConnRows(l, k), CloseAbortsScan
    PROVE  \E n \in Seq(LinkMsgs), j \in Seq(ScanMsgs) : ConnRows(n, j)'
<1>1. ConnTypes'
  BY DEF CloseAbortsScan, ConnRows, ConnTypes, link, scans, Free, Upsets, ForgetRequest
<1>2. Closing'
  BY DEF CloseAbortsScan, ConnRows, Closing, link, scans, Free, Upsets, ForgetRequest
<1>3. Heard(conn_msgs', l, k) /\ ~null_used'
  BY DEF CloseAbortsScan, ConnRows, Free, Upsets, ForgetRequest
<1>4. LinkRow(l)'
  BY LinkFacts, ZenonT(60) DEF CloseAbortsScan, ConnRows, Closing, LinkRow, Disconnected, Connected, Connecting, Roaming, Disconnecting, On, Off, Tried, GivenUp, Linked, Left, Retried, RetryGivenUp, link, Free, Upsets, ForgetRequest
<1>5. ScanRow(k)'
  BY DEF CloseAbortsScan, ConnRows, Closing, ScanRow, scans, ConnConstants, Free, Upsets, ForgetRequest
<1>6. QED BY <1>1, <1>2, <1>3, <1>4, <1>5 DEF ConnRows

\* The interface has gone.
LEMMA CloseEndsKeeps ==
    ASSUME ConnConstants, conn_upset = {}, conn_upset' = {},
           NEW l \in Seq(LinkMsgs), NEW k \in Seq(ScanMsgs), ConnRows(l, k), CloseEnds
    PROVE  \E n \in Seq(LinkMsgs), j \in Seq(ScanMsgs) : ConnRows(n, j)'
<1>1. ConnTypes'
  BY DEF CloseEnds, ConnRows, ConnTypes, link, scans, Free, Upsets
<1>2. Closing'
  BY DEF CloseEnds, ConnRows, Closing, link, scans, Free, Upsets
<1>3. Heard(conn_msgs', l, k) /\ ~null_used'
  BY DEF CloseEnds, ConnRows, Free, Upsets
<1>4. LinkRow(l)'
  BY LinkFacts, ZenonT(60) DEF CloseEnds, ConnRows, Closing, LinkRow, Disconnected, Connected, Connecting, Roaming, Disconnecting, On, Off, Tried, GivenUp, Linked, Left, Retried, RetryGivenUp, link, Free, Upsets
<1>5. ScanRow(k)'
  BY DEF CloseEnds, ConnRows, Closing, ScanRow, scans, ConnConstants, Free, Upsets
<1>6. QED BY <1>1, <1>2, <1>3, <1>4, <1>5 DEF ConnRows

\* A message of the connection is sent, or none is.
LEMMA LinkSent ==
    ASSUME NEW l \in Seq(LinkMsgs), NEW k \in Seq(ScanMsgs), ConnRows(l, k)
    PROVE  /\ \A m \in LinkMsgs : conn_msgs' = Append(conn_msgs, m) =>
                 /\ conn_msgs' \in Seq(Inds) /\ Heard(conn_msgs', Append(l, m), k) /\ Append(l, m) \in Seq(LinkMsgs)
                 /\ conn_msgs' # <<>>
           /\ conn_msgs' = conn_msgs => conn_msgs' \in Seq(Inds) /\ Heard(conn_msgs', l, k)
<1>1. conn_msgs \in Seq(Inds) /\ Heard(conn_msgs, l, k)
  BY DEF ConnRows, ConnTypes
<1>2. ASSUME NEW m \in LinkMsgs, conn_msgs' = Append(conn_msgs, m)
      PROVE  /\ conn_msgs' \in Seq(Inds) /\ Heard(conn_msgs', Append(l, m), k) /\ Append(l, m) \in Seq(LinkMsgs)
             /\ conn_msgs' # <<>>
  <2>1. m \in Inds
    BY Kinds
  <2>2. conn_msgs' \in Seq(Inds) /\ Heard(conn_msgs', Append(l, m), k)
    BY <1>1, <1>2, <2>1, HeardSent
  <2>3. conn_msgs' # <<>> /\ Append(l, m) \in Seq(LinkMsgs)
    BY <1>1, <1>2
  <2>4. QED BY <2>2, <2>3
<1>3. QED BY <1>1, <1>2


\* The request to connect has been confirmed.
LEMMA ConnectSentKeeps ==
    ASSUME ConnConstants, conn_upset = {}, conn_upset' = {},
           NEW l \in Seq(LinkMsgs), NEW k \in Seq(ScanMsgs), ConnRows(l, k), ConnectSent
    PROVE  \E n \in Seq(LinkMsgs), j \in Seq(ScanMsgs) : ConnRows(n, j)'
<1>1. /\ conn_op = "connect" /\ conn_op' = "idle" /\ UNCHANGED link /\ fw_conn \in {"idle", "joined"}
      /\ fw_conn = "joined" => fw_conn' = "roaming" /\ conn_msgs' = Append(conn_msgs, [is |-> "disconnect", reassoc |-> TRUE])
      /\ fw_conn = "idle" => fw_conn' = "joining" /\ UNCHANGED conn_msgs
  BY DEF ConnectSent, Upsets, Posts, link
<1>2. \E n \in Seq(LinkMsgs) : LinkRow(n)' /\ Heard(conn_msgs', n, k) /\ conn_msgs' \in Seq(Inds)
  <2>1. ASSUME conn_state = "CONNECTING", ~is_roam, Off, told = "down", fw_conn = "idle", l = <<>>
        PROVE  \E n \in Seq(LinkMsgs) : LinkRow(n)' /\ Heard(conn_msgs', n, k) /\ conn_msgs' \in Seq(Inds)
    <3>1. LinkRow(l)'
      BY <1>1, <2>1 DEF LinkRow, On, Off, Connecting, Tried, link
    <3>2. conn_msgs' = conn_msgs
      BY <1>1, <2>1 DEF Tried, Retried
    <3>3. QED BY <3>1, <3>2, LinkSent
  <2>2. ASSUME conn_state = "ROAMING", is_roam, On, fw_conn = "joined", l = <<>>
        PROVE  \E n \in Seq(LinkMsgs) : LinkRow(n)' /\ Heard(conn_msgs', n, k) /\ conn_msgs' \in Seq(Inds)
    <3>1. LinkRow(<<DM(TRUE)>>)'
      BY <1>1, <2>2 DEF LinkRow, On, Off, Roaming, Retried, link
    <3>2. DM(TRUE) \in LinkMsgs
      BY LinkFacts
    <3>5. Append(l, DM(TRUE)) = <<DM(TRUE)>>
      BY <2>2
    <3>3. conn_msgs' = Append(conn_msgs, DM(TRUE))
      BY <1>1, <2>2 DEF CM, DM
    <3>4. QED BY <3>1, <3>2, <3>3, <3>5, LinkSent
  <2>3. ASSUME conn_state = "ROAMING", is_roam, On, fw_conn = "idle", l = <<DM(FALSE)>>
        PROVE  \E n \in Seq(LinkMsgs) : LinkRow(n)' /\ Heard(conn_msgs', n, k) /\ conn_msgs' \in Seq(Inds)
    <3>1. LinkRow(l)'
      BY <1>1, <2>3 DEF LinkRow, On, Off, Roaming, Retried, link
    <3>2. conn_msgs' = conn_msgs
      BY <1>1, <2>3 DEF Tried, Retried
    <3>3. QED BY <3>1, <3>2, LinkSent
  <2>4. ASSUME conn_state = "ROAMING", is_roam, Off, told = "down", fw_conn = "idle", l = <<>>
        PROVE  \E n \in Seq(LinkMsgs) : LinkRow(n)' /\ Heard(conn_msgs', n, k) /\ conn_msgs' \in Seq(Inds)
    <3>1. LinkRow(l)'
      BY <1>1, <2>4 DEF LinkRow, On, Off, Roaming, Tried, link
    <3>2. conn_msgs' = conn_msgs
      BY <1>1, <2>4 DEF Tried, Retried
    <3>3. QED BY <3>1, <3>2, LinkSent
  <2>5. QED BY <1>1, <2>1, <2>2, <2>3, <2>4 DEF ConnRows, Closing, LinkRow, Disconnected, Connected, Connecting, Roaming, Disconnecting, On, Off, Tried, GivenUp, Linked, Left, Retried, RetryGivenUp
<1>3. ConnTypes'
  BY <1>2 DEF ConnectSent, Upsets, Posts, ConnRows, ConnTypes, link, scans
<1>4. Closing' /\ ~null_used'
  BY <1>2 DEF ConnectSent, Upsets, Posts, ConnRows, Closing, link, scans
<1>5. ScanRow(k)'
  BY DEF ConnectSent, Upsets, Posts, ConnRows, Closing, ScanRow, scans, ConnConstants
<1>6. QED BY <1>2, <1>3, <1>4, <1>5 DEF ConnRows

\* The connection, or the attempt, is to end.
LEMMA DisconnectKeeps ==
    ASSUME ConnConstants, conn_upset = {}, conn_upset' = {},
           NEW l \in Seq(LinkMsgs), NEW k \in Seq(ScanMsgs), ConnRows(l, k), rwnx_cfg80211_disconnect
    PROVE  \E n \in Seq(LinkMsgs), j \in Seq(ScanMsgs) : ConnRows(n, j)'
<1>1. /\ conn_op = "idle" /\ conn_op' = "idle" /\ conn_state \notin {"DISCONNECTED", "DISCONNECTING"}
      /\ conn_state' = "DISCONNECTING" /\ UNCHANGED <<is_roam, ap_valid, chan_linked, carrier, told>>
      /\ fw_conn = "joined" => fw_conn' = "leaving" /\ UNCHANGED conn_msgs
      /\ fw_conn = "joining" => fw_conn' = "idle" /\ conn_msgs' = Append(conn_msgs, [is |-> "connect", ok |-> FALSE, roamed |-> FALSE])
      /\ fw_conn = "roaming" => fw_conn' = "idle" /\ conn_msgs' = Append(conn_msgs, [is |-> "connect", ok |-> FALSE, roamed |-> TRUE])
      /\ fw_conn \notin {"joined", "joining", "roaming"} => UNCHANGED <<fw_conn, conn_msgs>>
  BY DEF rwnx_cfg80211_disconnect, Upsets, Posts, FwDisconnect, Free, link
<1>2. \E n \in Seq(LinkMsgs) : LinkRow(n)' /\ Heard(conn_msgs', n, k) /\ conn_msgs' \in Seq(Inds)
  <2>1. ASSUME conn_state = "CONNECTED", ~is_roam, On, fw_conn = "joined", l = <<>>
        PROVE  \E n \in Seq(LinkMsgs) : LinkRow(n)' /\ Heard(conn_msgs', n, k) /\ conn_msgs' \in Seq(Inds)
    <3>1. LinkRow(l)'
      BY <1>1, <2>1 DEF LinkRow, On, Off, Disconnecting, Left, link
    <3>2. conn_msgs' = conn_msgs
      BY <1>1, <2>1 DEF Tried, Retried
    <3>3. QED BY <3>1, <3>2, LinkSent
  <2>2. ASSUME conn_state = "CONNECTED", ~is_roam, On, fw_conn = "idle", l = <<DM(FALSE)>>
        PROVE  \E n \in Seq(LinkMsgs) : LinkRow(n)' /\ Heard(conn_msgs', n, k) /\ conn_msgs' \in Seq(Inds)
    <3>1. LinkRow(l)'
      BY <1>1, <2>2 DEF LinkRow, On, Off, Disconnecting, Left, link
    <3>2. conn_msgs' = conn_msgs
      BY <1>1, <2>2 DEF Tried, Retried
    <3>3. QED BY <3>1, <3>2, LinkSent
  <2>3. ASSUME conn_state = "CONNECTING", ~is_roam, Off, fw_conn = "joining", l = <<>>
        PROVE  \E n \in Seq(LinkMsgs) : LinkRow(n)' /\ Heard(conn_msgs', n, k) /\ conn_msgs' \in Seq(Inds)
    <3>1. LinkRow(<<CM(FALSE, FALSE)>>)'
      BY <1>1, <2>3 DEF LinkRow, On, Off, Disconnecting, GivenUp, link
    <3>2. CM(FALSE, FALSE) \in LinkMsgs
      BY LinkFacts
    <3>5. Append(l, CM(FALSE, FALSE)) = <<CM(FALSE, FALSE)>>
      BY <2>3
    <3>3. conn_msgs' = Append(conn_msgs, CM(FALSE, FALSE))
      BY <1>1, <2>3 DEF CM, DM
    <3>4. QED BY <3>1, <3>2, <3>3, <3>5, LinkSent
  <2>4. ASSUME conn_state = "CONNECTING", ~is_roam, Off, fw_conn # "joining", Tried(FALSE, fw_conn, l)
        PROVE  \E n \in Seq(LinkMsgs) : LinkRow(n)' /\ Heard(conn_msgs', n, k) /\ conn_msgs' \in Seq(Inds)
    <3>1. LinkRow(l)'
      BY <1>1, <2>4 DEF LinkRow, On, Off, Disconnecting, GivenUp, Tried, link
    <3>2. conn_msgs' = conn_msgs
      BY <1>1, <2>4 DEF Tried, Retried
    <3>3. QED BY <3>1, <3>2, LinkSent
  <2>5. ASSUME conn_state = "ROAMING", is_roam, Off, fw_conn = "roaming", l = <<>>
        PROVE  \E n \in Seq(LinkMsgs) : LinkRow(n)' /\ Heard(conn_msgs', n, k) /\ conn_msgs' \in Seq(Inds)
    <3>1. LinkRow(<<CM(FALSE, TRUE)>>)'
      BY <1>1, <2>5 DEF LinkRow, On, Off, Disconnecting, GivenUp, link
    <3>2. CM(FALSE, TRUE) \in LinkMsgs
      BY LinkFacts
    <3>5. Append(l, CM(FALSE, TRUE)) = <<CM(FALSE, TRUE)>>
      BY <2>5
    <3>3. conn_msgs' = Append(conn_msgs, CM(FALSE, TRUE))
      BY <1>1, <2>5 DEF CM, DM
    <3>4. QED BY <3>1, <3>2, <3>3, <3>5, LinkSent
  <2>6. ASSUME conn_state = "ROAMING", is_roam, Off, fw_conn = "joining", l = <<>>
        PROVE  \E n \in Seq(LinkMsgs) : LinkRow(n)' /\ Heard(conn_msgs', n, k) /\ conn_msgs' \in Seq(Inds)
    <3>1. LinkRow(<<CM(FALSE, FALSE)>>)'
      BY <1>1, <2>6 DEF LinkRow, On, Off, Disconnecting, GivenUp, link
    <3>2. CM(FALSE, FALSE) \in LinkMsgs
      BY LinkFacts
    <3>5. Append(l, CM(FALSE, FALSE)) = <<CM(FALSE, FALSE)>>
      BY <2>6
    <3>3. conn_msgs' = Append(conn_msgs, CM(FALSE, FALSE))
      BY <1>1, <2>6 DEF CM, DM
    <3>4. QED BY <3>1, <3>2, <3>3, <3>5, LinkSent
  <2>7. ASSUME NEW r \in BOOLEAN, conn_state = "ROAMING", is_roam, Off, fw_conn \notin {"joining", "roaming"}, Tried(r, fw_conn, l)
        PROVE  \E n \in Seq(LinkMsgs) : LinkRow(n)' /\ Heard(conn_msgs', n, k) /\ conn_msgs' \in Seq(Inds)
    <3>1. LinkRow(l)'
      BY <1>1, <2>7 DEF LinkRow, On, Off, Disconnecting, GivenUp, Tried, link
    <3>2. conn_msgs' = conn_msgs
      BY <1>1, <2>7 DEF Tried, Retried
    <3>3. QED BY <3>1, <3>2, LinkSent
  <2>8. ASSUME conn_state = "ROAMING", is_roam, On, fw_conn = "roaming", l = <<DM(TRUE)>>
        PROVE  \E n \in Seq(LinkMsgs) : LinkRow(n)' /\ Heard(conn_msgs', n, k) /\ conn_msgs' \in Seq(Inds)
    <3>1. LinkRow(<<DM(TRUE), CM(FALSE, TRUE)>>)'
      BY <1>1, <2>8 DEF LinkRow, On, Off, Disconnecting, RetryGivenUp, link
    <3>2. CM(FALSE, TRUE) \in LinkMsgs
      BY LinkFacts
    <3>5. Append(l, CM(FALSE, TRUE)) = <<DM(TRUE), CM(FALSE, TRUE)>>
      BY <2>8, SentTwo
    <3>3. conn_msgs' = Append(conn_msgs, CM(FALSE, TRUE))
      BY <1>1, <2>8 DEF CM, DM
    <3>4. QED BY <3>1, <3>2, <3>3, <3>5, LinkSent
  <2>9. ASSUME conn_state = "ROAMING", is_roam, On, fw_conn = "joining", l = <<DM(FALSE)>>
        PROVE  \E n \in Seq(LinkMsgs) : LinkRow(n)' /\ Heard(conn_msgs', n, k) /\ conn_msgs' \in Seq(Inds)
    <3>1. LinkRow(<<DM(FALSE), CM(FALSE, FALSE)>>)'
      BY <1>1, <2>9 DEF LinkRow, On, Off, Disconnecting, RetryGivenUp, link
    <3>2. CM(FALSE, FALSE) \in LinkMsgs
      BY LinkFacts
    <3>5. Append(l, CM(FALSE, FALSE)) = <<DM(FALSE), CM(FALSE, FALSE)>>
      BY <2>9, SentTwo
    <3>3. conn_msgs' = Append(conn_msgs, CM(FALSE, FALSE))
      BY <1>1, <2>9 DEF CM, DM
    <3>4. QED BY <3>1, <3>2, <3>3, <3>5, LinkSent
  <2>10. ASSUME NEW r \in BOOLEAN, conn_state = "ROAMING", is_roam, On, fw_conn \notin {"joining", "roaming"}, Retried(r, fw_conn, l)
        PROVE  \E n \in Seq(LinkMsgs) : LinkRow(n)' /\ Heard(conn_msgs', n, k) /\ conn_msgs' \in Seq(Inds)
    <3>1. LinkRow(l)'
      BY <1>1, <2>10 DEF LinkRow, On, Off, Disconnecting, RetryGivenUp, Retried, link
    <3>2. conn_msgs' = conn_msgs
      BY <1>1, <2>10 DEF Tried, Retried
    <3>3. QED BY <3>1, <3>2, LinkSent
  <2>11. Connected(l) \/ Connecting(l) \/ Roaming(l)
    BY <1>1 DEF ConnRows, LinkRow, Disconnected, Connected, Connecting, Roaming, Disconnecting
  <2>12. ASSUME Connected(l) PROVE \E n \in Seq(LinkMsgs) : LinkRow(n)' /\ Heard(conn_msgs', n, k) /\ conn_msgs' \in Seq(Inds)
    BY <1>1, <2>1, <2>2, <2>12 DEF Connected, Linked
  <2>13. ASSUME Connecting(l) PROVE \E n \in Seq(LinkMsgs) : LinkRow(n)' /\ Heard(conn_msgs', n, k) /\ conn_msgs' \in Seq(Inds)
    BY <1>1, <2>3, <2>4, <2>13 DEF Connecting, Tried
  <2>14. ASSUME Roaming(l) PROVE \E n \in Seq(LinkMsgs) : LinkRow(n)' /\ Heard(conn_msgs', n, k) /\ conn_msgs' \in Seq(Inds)
    <3>1. PICK r \in BOOLEAN : (On /\ Retried(r, fw_conn, l)) \/ (Off /\ Tried(r, fw_conn, l))
      BY <1>1, <2>14 DEF Roaming
    <3>2. conn_state = "ROAMING" /\ is_roam
      BY <2>14 DEF Roaming
    <3>3. CASE fw_conn \in {"joining", "roaming"}
      BY <2>5, <2>6, <2>8, <2>9, <3>1, <3>2, <3>3 DEF Retried, Tried
    <3>4. CASE fw_conn \notin {"joining", "roaming"}
      BY <2>7, <2>10, <3>1, <3>2, <3>4
    <3>5. QED BY <3>3, <3>4
  <2>15. QED BY <2>11, <2>12, <2>13, <2>14
<1>3. ConnTypes'
  BY <1>2 DEF rwnx_cfg80211_disconnect, Upsets, Posts, FwDisconnect, Free, ConnRows, ConnTypes, link, scans
<1>4. Closing' /\ ~null_used'
  BY <1>2 DEF rwnx_cfg80211_disconnect, Upsets, Posts, FwDisconnect, Free, ConnRows, Closing, link, scans
<1>5. ScanRow(k)'
  BY DEF rwnx_cfg80211_disconnect, Upsets, Posts, FwDisconnect, Free, ConnRows, Closing, ScanRow, scans, ConnConstants
<1>6. QED BY <1>2, <1>3, <1>4, <1>5 DEF ConnRows

\* The close ends the connection.
LEMMA CloseDisconnectsKeeps ==
    ASSUME ConnConstants, conn_upset = {}, conn_upset' = {},
           NEW l \in Seq(LinkMsgs), NEW k \in Seq(ScanMsgs), ConnRows(l, k), CloseDisconnects
    PROVE  \E n \in Seq(LinkMsgs), j \in Seq(ScanMsgs) : ConnRows(n, j)'
<1>1. /\ conn_op = "close_link" /\ conn_op' # "connect" /\ conn_state # "ROAMING" /\ UNCHANGED <<is_roam, ap_valid, chan_linked, carrier, told>>
      /\ conn_state = "CONNECTED" => conn_state' = "DISCONNECTING"
      /\ conn_state = "CONNECTED" /\ fw_conn = "joined" => fw_conn' = "leaving" /\ UNCHANGED conn_msgs
      /\ conn_state = "CONNECTED" /\ fw_conn \notin {"joined", "joining", "roaming"} => UNCHANGED <<fw_conn, conn_msgs>>
      /\ conn_state # "CONNECTED" => UNCHANGED <<conn_state, fw_conn, conn_msgs>>
  BY DEF CloseDisconnects, Upsets, Posts, FwDisconnect, link
<1>2. \E n \in Seq(LinkMsgs) : LinkRow(n)' /\ Heard(conn_msgs', n, k) /\ conn_msgs' \in Seq(Inds)
  <2>1. ASSUME conn_state = "CONNECTED", ~is_roam, On, fw_conn = "joined", l = <<>>
        PROVE  \E n \in Seq(LinkMsgs) : LinkRow(n)' /\ Heard(conn_msgs', n, k) /\ conn_msgs' \in Seq(Inds)
    <3>1. LinkRow(l)'
      BY <1>1, <2>1 DEF LinkRow, On, Off, Disconnecting, Left, link
    <3>2. conn_msgs' = conn_msgs
      BY <1>1, <2>1 DEF Tried, Retried
    <3>3. QED BY <3>1, <3>2, LinkSent
  <2>2. ASSUME conn_state = "CONNECTED", ~is_roam, On, fw_conn = "idle", l = <<DM(FALSE)>>
        PROVE  \E n \in Seq(LinkMsgs) : LinkRow(n)' /\ Heard(conn_msgs', n, k) /\ conn_msgs' \in Seq(Inds)
    <3>1. LinkRow(l)'
      BY <1>1, <2>2 DEF LinkRow, On, Off, Disconnecting, Left, link
    <3>2. conn_msgs' = conn_msgs
      BY <1>1, <2>2 DEF Tried, Retried
    <3>3. QED BY <3>1, <3>2, LinkSent
  <2>3. ASSUME Disconnected(l), conn_state # "CONNECTED"
        PROVE  \E n \in Seq(LinkMsgs) : LinkRow(n)' /\ Heard(conn_msgs', n, k) /\ conn_msgs' \in Seq(Inds)
    <3>1. LinkRow(l)'
      BY <1>1, <2>3 DEF LinkRow, On, Off, Disconnected, link
    <3>2. conn_msgs' = conn_msgs
      BY <1>1, <2>3 DEF Tried, Retried
    <3>3. QED BY <3>1, <3>2, LinkSent
  <2>4. QED BY <1>1, <2>1, <2>2, <2>3 DEF ConnRows, Closing, LinkRow, Disconnected, Connected, Connecting, Roaming, Disconnecting, On, Off, Tried, GivenUp, Linked, Left, Retried, RetryGivenUp
<1>3. ConnTypes'
  BY <1>2 DEF CloseDisconnects, Upsets, Posts, FwDisconnect, ConnRows, ConnTypes, link, scans
<1>4. Closing' /\ ~null_used'
  BY <1>2 DEF CloseDisconnects, Upsets, Posts, FwDisconnect, ConnRows, Closing, link, scans
<1>5. ScanRow(k)'
  BY DEF CloseDisconnects, Upsets, Posts, FwDisconnect, ConnRows, Closing, ScanRow, scans, ConnConstants
<1>6. QED BY <1>2, <1>3, <1>4, <1>5 DEF ConnRows

\* The firmware has ended an attempt.
LEMMA FwEndsJoinKeeps ==
    ASSUME ConnConstants, conn_upset = {}, conn_upset' = {},
           NEW l \in Seq(LinkMsgs), NEW k \in Seq(ScanMsgs), ConnRows(l, k), FwEndsJoin
    PROVE  \E n \in Seq(LinkMsgs), j \in Seq(ScanMsgs) : ConnRows(n, j)'
<1>1. /\ fw_conn \in {"joining", "roaming"} /\ UNCHANGED <<link, conn_op>>
      /\ \E ok \in BOOLEAN : /\ fw_conn' = IF ok THEN "joined" ELSE "idle"
                             /\ conn_msgs' = Append(conn_msgs, [is |-> "connect", ok |-> ok, roamed |-> fw_conn = "roaming"])
  BY DEF FwEndsJoin, Upsets, Posts, link
<1>2. PICK ok \in BOOLEAN : /\ fw_conn' = IF ok THEN "joined" ELSE "idle"
                            /\ conn_msgs' = Append(conn_msgs, CM(ok, fw_conn = "roaming"))
  BY <1>1 DEF CM
<1>3. \E n \in Seq(LinkMsgs) : LinkRow(n)' /\ Heard(conn_msgs', n, k) /\ conn_msgs' \in Seq(Inds)
  <2>1. ASSUME conn_state = "CONNECTING", conn_op # "connect", ~is_roam, Off, told = "down", fw_conn = "joining", l = <<>>
        PROVE  \E n \in Seq(LinkMsgs) : LinkRow(n)' /\ Heard(conn_msgs', n, k) /\ conn_msgs' \in Seq(Inds)
    <3>1. LinkRow(<<CM(ok, FALSE)>>)'
      BY <1>1, <1>2, <2>1 DEF LinkRow, On, Off, Connecting, Tried, link
    <3>2. CM(ok, FALSE) \in LinkMsgs
      BY LinkFacts
    <3>5. Append(l, CM(ok, FALSE)) = <<CM(ok, FALSE)>>
      BY <2>1
    <3>3. conn_msgs' = Append(conn_msgs, CM(ok, FALSE))
      BY <1>2, <2>1
    <3>4. QED BY <3>1, <3>2, <3>3, <3>5, LinkSent
  <2>2. ASSUME NEW r \in BOOLEAN, conn_state = "ROAMING", conn_op # "connect", is_roam, Off, told = (IF r THEN "up" ELSE "down"), fw_conn = (IF r THEN "roaming" ELSE "joining"), l = <<>>
        PROVE  \E n \in Seq(LinkMsgs) : LinkRow(n)' /\ Heard(conn_msgs', n, k) /\ conn_msgs' \in Seq(Inds)
    <3>1. LinkRow(<<CM(ok, r)>>)'
      BY <1>1, <1>2, <2>2 DEF LinkRow, On, Off, Roaming, Tried, link
    <3>2. CM(ok, r) \in LinkMsgs
      BY LinkFacts
    <3>5. Append(l, CM(ok, r)) = <<CM(ok, r)>>
      BY <2>2
    <3>3. conn_msgs' = Append(conn_msgs, CM(ok, r))
      BY <1>2, <2>2
    <3>4. QED BY <3>1, <3>2, <3>3, <3>5, LinkSent
  <2>3. ASSUME NEW r \in BOOLEAN, conn_state = "ROAMING", conn_op # "connect", is_roam, On, fw_conn = (IF r THEN "roaming" ELSE "joining"), l = <<DM(r)>>
        PROVE  \E n \in Seq(LinkMsgs) : LinkRow(n)' /\ Heard(conn_msgs', n, k) /\ conn_msgs' \in Seq(Inds)
    <3>1. LinkRow(<<DM(r), CM(ok, r)>>)'
      BY <1>1, <1>2, <2>3 DEF LinkRow, On, Off, Roaming, Retried, link
    <3>2. CM(ok, r) \in LinkMsgs
      BY LinkFacts
    <3>5. Append(l, CM(ok, r)) = <<DM(r), CM(ok, r)>>
      BY <2>3, SentTwo
    <3>3. conn_msgs' = Append(conn_msgs, CM(ok, r))
      BY <1>2, <2>3
    <3>4. QED BY <3>1, <3>2, <3>3, <3>5, LinkSent
  <2>4. QED BY <1>1, <2>1, <2>2, <2>3 DEF ConnRows, Closing, LinkRow, Disconnected, Connected, Connecting, Roaming, Disconnecting, On, Off, Tried, GivenUp, Linked, Left, Retried, RetryGivenUp
<1>4. ConnTypes'
  BY <1>3 DEF FwEndsJoin, Upsets, Posts, ConnRows, ConnTypes, link, scans
<1>5. Closing' /\ ~null_used'
  BY <1>3 DEF FwEndsJoin, Upsets, Posts, ConnRows, Closing, link, scans
<1>6. ScanRow(k)'
  BY DEF FwEndsJoin, Upsets, Posts, ConnRows, Closing, ScanRow, scans, ConnConstants
<1>7. QED BY <1>3, <1>4, <1>5, <1>6 DEF ConnRows

\* The firmware has lost the connection.
LEMMA FwLosesApKeeps ==
    ASSUME ConnConstants, conn_upset = {}, conn_upset' = {},
           NEW l \in Seq(LinkMsgs), NEW k \in Seq(ScanMsgs), ConnRows(l, k), FwLosesAp
    PROVE  \E n \in Seq(LinkMsgs), j \in Seq(ScanMsgs) : ConnRows(n, j)'
<1>1. /\ fw_conn = "joined" /\ fw_conn' = "idle" /\ UNCHANGED <<link, conn_op>>
      /\ conn_msgs' = Append(conn_msgs, DM(FALSE))
  BY DEF FwLosesAp, Upsets, Posts, DM, link
<1>2. \E n \in Seq(LinkMsgs) : LinkRow(n)' /\ Heard(conn_msgs', n, k) /\ conn_msgs' \in Seq(Inds)
  <2>1. ASSUME conn_state = "CONNECTED", ~is_roam, On, l = <<>>
        PROVE  \E n \in Seq(LinkMsgs) : LinkRow(n)' /\ Heard(conn_msgs', n, k) /\ conn_msgs' \in Seq(Inds)
    <3>1. LinkRow(<<DM(FALSE)>>)'
      BY <1>1, <2>1 DEF LinkRow, On, Off, Connected, Linked, link
    <3>2. DM(FALSE) \in LinkMsgs
      BY LinkFacts
    <3>5. Append(l, DM(FALSE)) = <<DM(FALSE)>>
      BY <2>1
    <3>3. conn_msgs' = Append(conn_msgs, DM(FALSE))
      BY <1>1, <2>1 DEF CM, DM
    <3>4. QED BY <3>1, <3>2, <3>3, <3>5, LinkSent
  <2>2. ASSUME conn_state = "ROAMING", is_roam, On, conn_op = "connect", l = <<>>
        PROVE  \E n \in Seq(LinkMsgs) : LinkRow(n)' /\ Heard(conn_msgs', n, k) /\ conn_msgs' \in Seq(Inds)
    <3>1. LinkRow(<<DM(FALSE)>>)'
      BY <1>1, <2>2 DEF LinkRow, On, Off, Roaming, Linked, link
    <3>2. DM(FALSE) \in LinkMsgs
      BY LinkFacts
    <3>5. Append(l, DM(FALSE)) = <<DM(FALSE)>>
      BY <2>2
    <3>3. conn_msgs' = Append(conn_msgs, DM(FALSE))
      BY <1>1, <2>2 DEF CM, DM
    <3>4. QED BY <3>1, <3>2, <3>3, <3>5, LinkSent
  <2>3. ASSUME conn_state = "CONNECTING", conn_op # "connect", ~is_roam, Off, told = "down", l = <<CM(TRUE, FALSE)>>
        PROVE  \E n \in Seq(LinkMsgs) : LinkRow(n)' /\ Heard(conn_msgs', n, k) /\ conn_msgs' \in Seq(Inds)
    <3>1. LinkRow(<<CM(TRUE, FALSE), DM(FALSE)>>)'
      BY <1>1, <2>3 DEF LinkRow, On, Off, Connecting, Tried, link
    <3>2. DM(FALSE) \in LinkMsgs
      BY LinkFacts
    <3>5. Append(l, DM(FALSE)) = <<CM(TRUE, FALSE), DM(FALSE)>>
      BY <2>3, SentTwo
    <3>3. conn_msgs' = Append(conn_msgs, DM(FALSE))
      BY <1>1, <2>3 DEF CM, DM
    <3>4. QED BY <3>1, <3>2, <3>3, <3>5, LinkSent
  <2>4. ASSUME NEW r \in BOOLEAN, conn_state = "ROAMING", conn_op # "connect", is_roam, Off, told = (IF r THEN "up" ELSE "down"), l = <<CM(TRUE, r)>>
        PROVE  \E n \in Seq(LinkMsgs) : LinkRow(n)' /\ Heard(conn_msgs', n, k) /\ conn_msgs' \in Seq(Inds)
    <3>1. LinkRow(<<CM(TRUE, r), DM(FALSE)>>)'
      BY <1>1, <2>4 DEF LinkRow, On, Off, Roaming, Tried, link
    <3>2. DM(FALSE) \in LinkMsgs
      BY LinkFacts
    <3>5. Append(l, DM(FALSE)) = <<CM(TRUE, r), DM(FALSE)>>
      BY <2>4, SentTwo
    <3>3. conn_msgs' = Append(conn_msgs, DM(FALSE))
      BY <1>1, <2>4 DEF CM, DM
    <3>4. QED BY <3>1, <3>2, <3>3, <3>5, LinkSent
  <2>5. ASSUME NEW r \in BOOLEAN, conn_state = "ROAMING", conn_op # "connect", is_roam, On, l = <<DM(r), CM(TRUE, r)>>
        PROVE  \E n \in Seq(LinkMsgs) : LinkRow(n)' /\ Heard(conn_msgs', n, k) /\ conn_msgs' \in Seq(Inds)
    <3>1. LinkRow(<<DM(r), CM(TRUE, r), DM(FALSE)>>)'
      BY <1>1, <2>5 DEF LinkRow, On, Off, Roaming, Retried, link
    <3>2. DM(FALSE) \in LinkMsgs
      BY LinkFacts
    <3>5. Append(l, DM(FALSE)) = <<DM(r), CM(TRUE, r), DM(FALSE)>>
      BY <2>5, SentThree
    <3>3. conn_msgs' = Append(conn_msgs, DM(FALSE))
      BY <1>1, <2>5 DEF CM, DM
    <3>4. QED BY <3>1, <3>2, <3>3, <3>5, LinkSent
  <2>6. QED BY <1>1, <2>1, <2>2, <2>3, <2>4, <2>5 DEF ConnRows, Closing, LinkRow, Disconnected, Connected, Connecting, Roaming, Disconnecting, On, Off, Tried, GivenUp, Linked, Left, Retried, RetryGivenUp
<1>3. ConnTypes'
  BY <1>2 DEF FwLosesAp, Upsets, Posts, DM, ConnRows, ConnTypes, link, scans
<1>4. Closing' /\ ~null_used'
  BY <1>2 DEF FwLosesAp, Upsets, Posts, DM, ConnRows, Closing, link, scans
<1>5. ScanRow(k)'
  BY DEF FwLosesAp, Upsets, Posts, DM, ConnRows, Closing, ScanRow, scans, ConnConstants
<1>6. QED BY <1>2, <1>3, <1>4, <1>5 DEF ConnRows

\* The firmware has left the connection.
LEMMA FwLeavesKeeps ==
    ASSUME ConnConstants, conn_upset = {}, conn_upset' = {},
           NEW l \in Seq(LinkMsgs), NEW k \in Seq(ScanMsgs), ConnRows(l, k), FwLeaves
    PROVE  \E n \in Seq(LinkMsgs), j \in Seq(ScanMsgs) : ConnRows(n, j)'
<1>1. /\ fw_conn = "leaving" /\ fw_conn' = "idle" /\ UNCHANGED <<link, conn_op>>
      /\ conn_msgs' = Append(conn_msgs, DM(FALSE))
  BY DEF FwLeaves, Upsets, Posts, DM, link
<1>2. \E n \in Seq(LinkMsgs) : LinkRow(n)' /\ Heard(conn_msgs', n, k) /\ conn_msgs' \in Seq(Inds)
  <2>1. ASSUME NEW r \in BOOLEAN, conn_state = "DISCONNECTING", is_roam, On, l = <<DM(r), CM(TRUE, r)>>
        PROVE  \E n \in Seq(LinkMsgs) : LinkRow(n)' /\ Heard(conn_msgs', n, k) /\ conn_msgs' \in Seq(Inds)
    <3>1. LinkRow(<<DM(r), CM(TRUE, r), DM(FALSE)>>)'
      BY <1>1, <2>1 DEF LinkRow, On, Off, Disconnecting, RetryGivenUp, link
    <3>2. DM(FALSE) \in LinkMsgs
      BY LinkFacts
    <3>5. Append(l, DM(FALSE)) = <<DM(r), CM(TRUE, r), DM(FALSE)>>
      BY <2>1, SentThree
    <3>3. conn_msgs' = Append(conn_msgs, DM(FALSE))
      BY <1>1, <2>1 DEF CM, DM
    <3>4. QED BY <3>1, <3>2, <3>3, <3>5, LinkSent
  <2>2. ASSUME NEW r \in BOOLEAN, conn_state = "DISCONNECTING", is_roam, Off, l = <<CM(TRUE, r)>>
        PROVE  \E n \in Seq(LinkMsgs) : LinkRow(n)' /\ Heard(conn_msgs', n, k) /\ conn_msgs' \in Seq(Inds)
    <3>1. LinkRow(<<CM(TRUE, r), DM(FALSE)>>)'
      BY <1>1, <2>2 DEF LinkRow, On, Off, Disconnecting, GivenUp, link
    <3>2. DM(FALSE) \in LinkMsgs
      BY LinkFacts
    <3>5. Append(l, DM(FALSE)) = <<CM(TRUE, r), DM(FALSE)>>
      BY <2>2, SentTwo
    <3>3. conn_msgs' = Append(conn_msgs, DM(FALSE))
      BY <1>1, <2>2 DEF CM, DM
    <3>4. QED BY <3>1, <3>2, <3>3, <3>5, LinkSent
  <2>3. ASSUME conn_state = "DISCONNECTING", ~is_roam, Off, l = <<CM(TRUE, FALSE)>>
        PROVE  \E n \in Seq(LinkMsgs) : LinkRow(n)' /\ Heard(conn_msgs', n, k) /\ conn_msgs' \in Seq(Inds)
    <3>1. LinkRow(<<CM(TRUE, FALSE), DM(FALSE)>>)'
      BY <1>1, <2>3 DEF LinkRow, On, Off, Disconnecting, GivenUp, link
    <3>2. DM(FALSE) \in LinkMsgs
      BY LinkFacts
    <3>5. Append(l, DM(FALSE)) = <<CM(TRUE, FALSE), DM(FALSE)>>
      BY <2>3, SentTwo
    <3>3. conn_msgs' = Append(conn_msgs, DM(FALSE))
      BY <1>1, <2>3 DEF CM, DM
    <3>4. QED BY <3>1, <3>2, <3>3, <3>5, LinkSent
  <2>4. ASSUME conn_state = "DISCONNECTING", ~is_roam, ap_valid, chan_linked, l = <<>>
        PROVE  \E n \in Seq(LinkMsgs) : LinkRow(n)' /\ Heard(conn_msgs', n, k) /\ conn_msgs' \in Seq(Inds)
    <3>1. LinkRow(<<DM(FALSE)>>)'
      BY <1>1, <2>4 DEF LinkRow, On, Off, Disconnecting, Left, link
    <3>2. DM(FALSE) \in LinkMsgs
      BY LinkFacts
    <3>5. Append(l, DM(FALSE)) = <<DM(FALSE)>>
      BY <2>4
    <3>3. conn_msgs' = Append(conn_msgs, DM(FALSE))
      BY <1>1, <2>4 DEF CM, DM
    <3>4. QED BY <3>1, <3>2, <3>3, <3>5, LinkSent
  <2>5. QED BY <1>1, <2>1, <2>2, <2>3, <2>4 DEF ConnRows, Closing, LinkRow, Disconnected, Connected, Connecting, Roaming, Disconnecting, On, Off, Tried, GivenUp, Linked, Left, Retried, RetryGivenUp
<1>3. ConnTypes'
  BY <1>2 DEF FwLeaves, Upsets, Posts, DM, ConnRows, ConnTypes, link, scans
<1>4. Closing' /\ ~null_used'
  BY <1>2 DEF FwLeaves, Upsets, Posts, DM, ConnRows, Closing, link, scans
<1>5. ScanRow(k)'
  BY DEF FwLeaves, Upsets, Posts, DM, ConnRows, Closing, ScanRow, scans, ConnConstants
<1>6. QED BY <1>2, <1>3, <1>4, <1>5 DEF ConnRows

\* A scan is asked for.
LEMMA ScanKeeps ==
    ASSUME ConnConstants, conn_upset = {}, conn_upset' = {},
           NEW l \in Seq(LinkMsgs), NEW k \in Seq(ScanMsgs), ConnRows(l, k), rwnx_cfg80211_scan
    PROVE  \E n \in Seq(LinkMsgs), j \in Seq(ScanMsgs) : ConnRows(n, j)'
<1>1. PICK r \in ScanRequests : scan_request' = r /\ cfg_scan' = r /\ fw_scan' = r
  BY DEF rwnx_cfg80211_scan, Upsets
<1>2. /\ conn_op = "idle" /\ conn_up /\ cfg_scan = NULL
      /\ UNCHANGED <<link, ext_auth, conn_up, scan_done_of, conn_op, fw_conn, conn_msgs, null_used>>
  BY DEF rwnx_cfg80211_scan, Free
<1>3. scan_request = NULL /\ k = <<>> /\ fw_conn # "off"
  BY <1>2 DEF ConnRows, ScanRow, Closing, ConnConstants
<1>4. ScanRow(k)'
  BY <1>1, <1>2, <1>3 DEF ConnRows, ScanRow
<1>5. LinkRow(l)'
  BY <1>2, LinkRowStays DEF ConnRows
<1>6. Closing' /\ ConnTypes' /\ Heard(conn_msgs', l, k) /\ ~null_used'
  BY <1>1, <1>2, <1>3 DEF ConnRows, Closing, ConnTypes, link
<1>7. QED BY <1>4, <1>5, <1>6 DEF ConnRows

\* The close has cancelled the scan.
LEMMA CloseCancelsKeeps ==
    ASSUME ConnConstants, conn_upset = {}, conn_upset' = {},
           NEW l \in Seq(LinkMsgs), NEW k \in Seq(ScanMsgs), ConnRows(l, k), CloseCancels
    PROVE  \E n \in Seq(LinkMsgs), j \in Seq(ScanMsgs) : ConnRows(n, j)'
<1>1. /\ conn_op = "close_cancel" /\ conn_op' = "close_link" /\ fw_scan' = NULL /\ conn_msgs = <<>>
      /\ UNCHANGED <<link, ext_auth, conn_up, scans, fw_conn, conn_msgs, null_used>>
  BY DEF CloseCancels, Upsets, Confirmed
<1>2. k = <<>> /\ scan_request = NULL
  BY <1>1, HeardNothing DEF ConnRows, ScanRow
<1>3. ScanRow(k)'
  BY <1>1, <1>2 DEF ConnRows, ScanRow, scans
<1>4. LinkRow(l)'
  BY <1>1, LinkRowStays DEF ConnRows
<1>5. Closing' /\ ConnTypes' /\ Heard(conn_msgs', l, k) /\ ~null_used'
  BY <1>1, <1>2 DEF ConnRows, Closing, ConnTypes, link, scans
<1>6. QED BY <1>3, <1>4, <1>5 DEF ConnRows

\* The interface leaves the firmware.
LEMMA CloseRemovesKeeps ==
    ASSUME ConnConstants, conn_upset = {}, conn_upset' = {},
           NEW l \in Seq(LinkMsgs), NEW k \in Seq(ScanMsgs), ConnRows(l, k), CloseRemoves
    PROVE  \E n \in Seq(LinkMsgs), j \in Seq(ScanMsgs) : ConnRows(n, j)'
<1>1. /\ conn_op = "close_remove" /\ conn_op' = "close_down" /\ fw_conn' = "off" /\ fw_scan' = NULL /\ conn_msgs = <<>>
      /\ UNCHANGED <<link, ext_auth, conn_up, scans, conn_msgs, null_used>>
  BY DEF CloseRemoves, Upsets, Confirmed
<1>2. k = <<>> /\ l = <<>> /\ scan_request = NULL /\ conn_state = "DISCONNECTED"
  BY <1>1, HeardNothing DEF ConnRows, Closing
<1>3. ScanRow(k)'
  BY <1>1, <1>2 DEF ConnRows, ScanRow, scans
<1>4. Disconnected(l)
  BY <1>2 DEF ConnRows, LinkRow, Connected, Connecting, Roaming, Disconnecting
<1>5. LinkRow(l)'
  BY <1>1, <1>4 DEF LinkRow, Disconnected, Off, link
<1>6. Closing' /\ ConnTypes' /\ Heard(conn_msgs', l, k) /\ ~null_used'
  BY <1>1, <1>2 DEF ConnRows, Closing, ConnTypes, link, scans
<1>7. QED BY <1>3, <1>5, <1>6 DEF ConnRows

\* The firmware asks user space to authenticate.
LEMMA FwAsksAuthKeeps ==
    ASSUME ConnConstants, conn_upset = {}, conn_upset' = {},
           NEW l \in Seq(LinkMsgs), NEW k \in Seq(ScanMsgs), ConnRows(l, k), FwAsksAuth
    PROVE  \E n \in Seq(LinkMsgs), j \in Seq(ScanMsgs) : ConnRows(n, j)'
<1>1. /\ fw_conn = "joining" /\ conn_msgs' = Append(conn_msgs, [is |-> "auth"])
      /\ UNCHANGED <<link, ext_auth, conn_up, scans, conn_op, fw_conn, fw_scan, null_used>>
  BY DEF FwAsksAuth, Posts
<1>2. conn_msgs' \in Seq(Inds) /\ Heard(conn_msgs', l, k)
  <2>1. conn_msgs \in Seq(Inds) /\ Heard(conn_msgs, l, k)
    BY DEF ConnRows, ConnTypes
  <2>2. QED BY <1>1, <2>1, Kinds, HeardSent
<1>3. ScanRow(k)'
  BY <1>1 DEF ConnRows, ScanRow, scans
<1>4. LinkRow(l)'
  BY <1>1, LinkRowStays DEF ConnRows
<1>5. Closing' /\ ConnTypes' /\ ~null_used'
  BY <1>1, <1>2 DEF ConnRows, Closing, ConnTypes, link, scans
<1>6. QED BY <1>2, <1>3, <1>4, <1>5 DEF ConnRows

\* The firmware has ended the scan.
LEMMA FwEndsScanKeeps ==
    ASSUME ConnConstants, conn_upset = {}, conn_upset' = {},
           NEW l \in Seq(LinkMsgs), NEW k \in Seq(ScanMsgs), ConnRows(l, k), FwEndsScan
    PROVE  \E n \in Seq(LinkMsgs), j \in Seq(ScanMsgs) : ConnRows(n, j)'
<1>1. PICK r : r = fw_scan
  OBVIOUS
<1>2. /\ r # NULL /\ fw_scan' = NULL /\ conn_msgs' = Append(conn_msgs, [is |-> "scan", of |-> r])
      /\ UNCHANGED <<link, ext_auth, conn_up, scans, conn_op, fw_conn, null_used>>
  BY <1>1 DEF FwEndsScan, Posts
<1>3. r \in ScanRequests /\ k = <<>> /\ scan_request = IF conn_op = "close_cancel" THEN NULL ELSE r
  BY <1>1, <1>2 DEF ConnRows, ConnTypes, ScanRow
<1>4. PICK m : m = [is |-> "scan", of |-> r]
  OBVIOUS
<1>5. m \in ScanMsgs /\ m \in Inds
  BY <1>3, <1>4, LinkMsgsAre, Kinds
<1>6. conn_msgs' \in Seq(Inds) /\ Heard(conn_msgs', l, <<m>>)
  <2>1. conn_msgs \in Seq(Inds) /\ Heard(conn_msgs, l, k)
    BY DEF ConnRows, ConnTypes
  <2>2. Append(k, m) = <<m>>
    BY <1>3
  <2>3. conn_msgs' = Append(conn_msgs, m)
    BY <1>2, <1>4
  <2>4. QED BY <1>5, <2>1, <2>2, <2>3, HeardSent
<1>7. ScanRow(<<m>>)'
  BY <1>2, <1>3, <1>4 DEF ConnRows, ScanRow, scans
<1>8. LinkRow(l)'
  BY <1>2, ZenonT(60) DEF ConnRows, LinkRow, Disconnected, Connected, Connecting, Roaming, Disconnecting, On, Off, Tried, GivenUp, Linked, Left, Retried, RetryGivenUp, link
<1>9. Closing' /\ ConnTypes' /\ ~null_used'
  <2>1. fw_conn # "off"
    BY <1>1, <1>2 DEF ConnRows, Closing
  <2>2. QED BY <1>2, <1>3, <1>6, <2>1 DEF ConnRows, Closing, ConnTypes, link, scans
<1>10. <<m>> \in Seq(ScanMsgs)
  BY <1>5
<1>11. QED BY <1>6, <1>7, <1>8, <1>9, <1>10 DEF ConnRows

-----------------------------------------------------------------------------
\* The indications.

\* There is an indication to handle: the interface is up, and the firmware's as well.
LEMMA HandlesIs ==
    ASSUME NEW l \in Seq(LinkMsgs), NEW k \in Seq(ScanMsgs), ConnRows(l, k), NEW is, Handles(is)
    PROVE  /\ conn_msgs' = Tail(conn_msgs) /\ conn_msgs' \in Seq(Inds) /\ Head(conn_msgs).is = is /\ conn_up
           /\ fw_conn # "off"
           /\ is \in {"connect", "disconnect"} =>
                 l # <<>> /\ l[1] = Head(conn_msgs) /\ Heard(conn_msgs', Tail(l), k) /\ Tail(l) \in Seq(LinkMsgs)
           /\ is = "scan" => k # <<>> /\ k[1] = Head(conn_msgs) /\ Heard(conn_msgs', l, Tail(k)) /\ Tail(k) \in Seq(ScanMsgs)
           /\ is = "auth" => Heard(conn_msgs', l, k)
<1>1. /\ conn_msgs # <<>> /\ Head(conn_msgs).is = is /\ conn_msgs' = Tail(conn_msgs)
      /\ conn_msgs \in Seq(Inds) /\ Heard(conn_msgs, l, k)
  BY DEF Handles, ConnRows, ConnTypes
<1>2. conn_up /\ fw_conn # "off"
  BY <1>1 DEF ConnRows, Closing
<1>3. l # <<>> => Tail(l) \in Seq(LinkMsgs)
  OBVIOUS
<1>4. k # <<>> => Tail(k) \in Seq(ScanMsgs)
  OBVIOUS
<1>5. QED BY <1>1, <1>2, <1>3, <1>4, HeardHandled

\* User space is asked.
LEMMA AuthIndKeeps ==
    ASSUME ConnConstants, conn_upset = {}, conn_upset' = {},
           NEW l \in Seq(LinkMsgs), NEW k \in Seq(ScanMsgs), ConnRows(l, k), rwnx_rx_sm_external_auth_required_ind
    PROVE  \E n \in Seq(LinkMsgs), j \in Seq(ScanMsgs) : ConnRows(n, j)'
<1>1. /\ ext_auth' = TRUE /\ null_used' = (null_used \/ ~conn_up) /\ Handles("auth")
      /\ UNCHANGED <<link, conn_up, scans, conn_op, fw_conn, fw_scan>>
  BY DEF rwnx_rx_sm_external_auth_required_ind, Upsets
<1>2. conn_msgs' \in Seq(Inds) /\ Heard(conn_msgs', l, k) /\ conn_up /\ fw_conn # "off"
  BY <1>1, HandlesIs
<1>3. ScanRow(k)'
  BY <1>1 DEF ConnRows, ScanRow, scans
<1>4. LinkRow(l)'
  BY <1>1, LinkRowStays DEF ConnRows
<1>5. Closing' /\ ConnTypes' /\ ~null_used'
  BY <1>1, <1>2 DEF ConnRows, Closing, ConnTypes, link, scans
<1>6. QED BY <1>2, <1>3, <1>4, <1>5 DEF ConnRows

\* The scan has ended.
LEMMA ScanCfmKeeps ==
    ASSUME ConnConstants, conn_upset = {}, conn_upset' = {},
           NEW l \in Seq(LinkMsgs), NEW k \in Seq(ScanMsgs), ConnRows(l, k), rwnx_rx_scanu_start_cfm
    PROVE  \E n \in Seq(LinkMsgs), j \in Seq(ScanMsgs) : ConnRows(n, j)'
<1>1. /\ Handles("scan") /\ scan_request' = NULL
      /\ scan_request = NULL => UNCHANGED <<cfg_scan, scan_done_of>>
      /\ scan_request # NULL => cfg_scan' = NULL /\ scan_done_of' = <<scan_request, Head(conn_msgs).of>>
      /\ UNCHANGED <<link, ext_auth, conn_up, conn_op, fw_conn, fw_scan, null_used>>
  BY DEF rwnx_rx_scanu_start_cfm
<1>2. /\ conn_msgs' \in Seq(Inds) /\ Heard(conn_msgs', l, Tail(k)) /\ fw_conn # "off" /\ Tail(k) \in Seq(ScanMsgs)
      /\ k # <<>> /\ k[1] = Head(conn_msgs)
  BY <1>1, HandlesIs
<1>3. PICK r \in ScanRequests : /\ fw_scan = NULL /\ k = <<[is |-> "scan", of |-> r]>>
                                /\ scan_request = IF conn_op = "close_cancel" THEN NULL ELSE r
  BY <1>2 DEF ConnRows, ScanRow
<1>4. Tail(k) = <<>> /\ Head(conn_msgs).of = r
  BY <1>2, <1>3
<1>5. cfg_scan' = NULL /\ (scan_done_of' = scan_done_of \/ scan_done_of' = <<r, r>>)
  BY <1>1, <1>3, <1>4 DEF ConnRows, ScanRow
<1>6. ScanRow(Tail(k))'
  BY <1>1, <1>3, <1>4, <1>5 DEF ConnRows, ScanRow
<1>7. LinkRow(l)'
  BY <1>1, LinkRowStays DEF ConnRows
<1>8. Closing' /\ ConnTypes' /\ ~null_used'
  BY <1>1, <1>2 DEF ConnRows, Closing, ConnTypes, link
<1>9. QED BY <1>2, <1>6, <1>7, <1>8 DEF ConnRows

\* An attempt has ended.
LEMMA ConnectIndKeeps ==
    ASSUME ConnConstants, conn_upset = {}, conn_upset' = {},
           NEW l \in Seq(LinkMsgs), NEW k \in Seq(ScanMsgs), ConnRows(l, k), rwnx_rx_sm_connect_ind
    PROVE  \E n \in Seq(LinkMsgs), j \in Seq(ScanMsgs) : ConnRows(n, j)'
<1>1. /\ Handles("connect") /\ UNCHANGED <<conn_up, scans, conn_op, fw_conn, fw_scan, null_used>>
      /\ conn_up => LET ind == Head(conn_msgs)
                        ignored == ind.ok /\ conn_state = "DISCONNECTING"
                    IN /\ is_roam' = FALSE
                       /\ ap_valid' = (ap_valid \/ ind.ok) /\ chan_linked' = (chan_linked \/ ind.ok)
                       /\ conn_state' = IF ~ind.ok THEN "DISCONNECTED" ELSE IF ignored THEN conn_state ELSE "CONNECTED"
                       /\ told' = IF ignored THEN told ELSE IF ind.ok THEN "up" ELSE "down"
                       /\ carrier' = (carrier \/ (ind.ok /\ ~ignored))
  BY DEF rwnx_rx_sm_connect_ind, ApSetUp, FailedState
<1>2. /\ conn_msgs' \in Seq(Inds) /\ Heard(conn_msgs', Tail(l), k) /\ Tail(l) \in Seq(LinkMsgs)
      /\ conn_up /\ fw_conn # "off" /\ l # <<>> /\ l[1] = Head(conn_msgs) /\ Head(conn_msgs).is = "connect"
  BY <1>1, HandlesIs
<1>3. LinkRow(Tail(l))'
  <2>1. ASSUME conn_state = "CONNECTING", conn_op # "connect", ~is_roam, Off, told = "down", fw_conn = "joined", l = <<CM(TRUE, FALSE)>>
        PROVE  LinkRow(Tail(l))'
    <3>1. Tail(l) = <<>>
      BY <2>1
    <3>2. LinkRow(<<>>)'
      BY <1>1, <1>2, <2>1, LinkFacts DEF LinkRow, On, Off, Connected, Linked
    <3>3. QED BY <3>1, <3>2
  <2>2. ASSUME conn_state = "CONNECTING", conn_op # "connect", ~is_roam, Off, told = "down", fw_conn = "idle", l = <<CM(FALSE, FALSE)>>
        PROVE  LinkRow(Tail(l))'
    <3>1. Tail(l) = <<>>
      BY <2>2
    <3>2. LinkRow(<<>>)'
      BY <1>1, <1>2, <2>2, LinkFacts DEF LinkRow, On, Off, Disconnected
    <3>3. QED BY <3>1, <3>2
  <2>3. ASSUME conn_state = "CONNECTING", conn_op # "connect", ~is_roam, Off, told = "down", fw_conn = "idle", l = <<CM(TRUE, FALSE), DM(FALSE)>>
        PROVE  LinkRow(Tail(l))'
    <3>1. Tail(l) = <<DM(FALSE)>>
      BY <2>3, LeftOfTwo
    <3>2. LinkRow(<<DM(FALSE)>>)'
      BY <1>1, <1>2, <2>3, LinkFacts DEF LinkRow, On, Off, Connected, Linked
    <3>3. QED BY <3>1, <3>2
  <2>4. ASSUME NEW r \in BOOLEAN, conn_state = "ROAMING", conn_op # "connect", Off, fw_conn = "joined", l = <<CM(TRUE, r)>>
        PROVE  LinkRow(Tail(l))'
    <3>1. Tail(l) = <<>>
      BY <2>4
    <3>2. LinkRow(<<>>)'
      BY <1>1, <1>2, <2>4, LinkFacts DEF LinkRow, On, Off, Connected, Linked
    <3>3. QED BY <3>1, <3>2
  <2>5. ASSUME NEW r \in BOOLEAN, conn_state = "ROAMING", conn_op # "connect", Off, fw_conn = "idle", l = <<CM(FALSE, r)>>
        PROVE  LinkRow(Tail(l))'
    <3>1. Tail(l) = <<>>
      BY <2>5
    <3>2. LinkRow(<<>>)'
      BY <1>1, <1>2, <2>5, LinkFacts DEF LinkRow, On, Off, Disconnected
    <3>3. QED BY <3>1, <3>2
  <2>6. ASSUME NEW r \in BOOLEAN, conn_state = "ROAMING", conn_op # "connect", Off, fw_conn = "idle", l = <<CM(TRUE, r), DM(FALSE)>>
        PROVE  LinkRow(Tail(l))'
    <3>1. Tail(l) = <<DM(FALSE)>>
      BY <2>6, LeftOfTwo
    <3>2. LinkRow(<<DM(FALSE)>>)'
      BY <1>1, <1>2, <2>6, LinkFacts DEF LinkRow, On, Off, Connected, Linked
    <3>3. QED BY <3>1, <3>2
  <2>7. ASSUME NEW r \in BOOLEAN, conn_state = "DISCONNECTING", Off, fw_conn = "leaving", l = <<CM(TRUE, r)>>
        PROVE  LinkRow(Tail(l))'
    <3>1. Tail(l) = <<>>
      BY <2>7
    <3>2. LinkRow(<<>>)'
      BY <1>1, <1>2, <2>7, LinkFacts, ZenonT(60) DEF LinkRow, On, Off, Disconnecting, Left
    <3>3. QED BY <3>1, <3>2
  <2>8. ASSUME NEW r \in BOOLEAN, conn_state = "DISCONNECTING", Off, fw_conn = "idle", l = <<CM(FALSE, r)>>
        PROVE  LinkRow(Tail(l))'
    <3>1. Tail(l) = <<>>
      BY <2>8
    <3>2. LinkRow(<<>>)'
      BY <1>1, <1>2, <2>8, LinkFacts DEF LinkRow, On, Off, Disconnected
    <3>3. QED BY <3>1, <3>2
  <2>9. ASSUME NEW r \in BOOLEAN, conn_state = "DISCONNECTING", Off, fw_conn = "idle", l = <<CM(TRUE, r), DM(FALSE)>>
        PROVE  LinkRow(Tail(l))'
    <3>1. Tail(l) = <<DM(FALSE)>>
      BY <2>9, LeftOfTwo
    <3>2. LinkRow(<<DM(FALSE)>>)'
      BY <1>1, <1>2, <2>9, LinkFacts DEF LinkRow, On, Off, Disconnecting, Left
    <3>3. QED BY <3>1, <3>2
  <2>10. Connecting(l) \/ Roaming(l) \/ Disconnecting(l)
    BY <1>2, Firsts DEF ConnRows, LinkRow, Disconnected, Connected
  <2>11. ASSUME Connecting(l) PROVE LinkRow(Tail(l))'
    BY <1>2, <2>1, <2>2, <2>3, <2>11 DEF Connecting, Tried
  <2>12. ASSUME Roaming(l) PROVE LinkRow(Tail(l))'
    <3>1. conn_op # "connect" /\ conn_state = "ROAMING"
      BY <1>2, <2>12, Firsts DEF Roaming
    <3>2. PICK r \in BOOLEAN : (On /\ Retried(r, fw_conn, l)) \/ (Off /\ Tried(r, fw_conn, l))
      BY <2>12, <3>1 DEF Roaming
    <3>3. ~Retried(r, fw_conn, l)
      BY <1>2, Firsts
    <3>4. QED BY <1>2, <2>4, <2>5, <2>6, <3>1, <3>2, <3>3 DEF Tried
  <2>13. ASSUME Disconnecting(l) PROVE LinkRow(Tail(l))'
    <3>1. ~Left(fw_conn, l) /\ \A r \in BOOLEAN : ~RetryGivenUp(r, fw_conn, l)
      BY <1>2, Firsts
    <3>2. PICK r \in BOOLEAN : Off /\ GivenUp(r, fw_conn, l)
      BY <2>13, <3>1 DEF Disconnecting
    <3>3. conn_state = "DISCONNECTING"
      BY <2>13 DEF Disconnecting
    <3>4. QED BY <2>7, <2>8, <2>9, <3>2, <3>3 DEF GivenUp
  <2>14. QED BY <2>10, <2>11, <2>12, <2>13
<1>4. ScanRow(k)'
  BY <1>1 DEF ConnRows, ScanRow, scans
<1>5. Closing' /\ ~null_used'
  <2>1. conn_state' \in {"DISCONNECTED", "CONNECTED"} \/ (conn_state' = conn_state /\ conn_state = "DISCONNECTING")
    BY <1>1, <1>2
  <2>2. conn_state \in {"CONNECTING", "ROAMING", "DISCONNECTING"} /\ conn_op # "connect"
    <3>1. Connecting(l) \/ Roaming(l) \/ Disconnecting(l)
      BY <1>2, Firsts DEF ConnRows, LinkRow, Disconnected, Connected
    <3>2. conn_op = "connect" => conn_state # "DISCONNECTING"
      BY DEF ConnRows, Closing
    <3>3. ~(Roaming(l) /\ conn_op = "connect")
      BY <1>2, Firsts DEF Roaming
    <3>4. QED BY <1>2, <3>1, <3>2, <3>3 DEF Connecting, Roaming, Disconnecting
  <2>3. conn_state # "DISCONNECTING" => conn_op # "close_ind"
    BY <2>2 DEF ConnRows, Closing
  <2>4. conn_state = "DISCONNECTING" => conn_state' \in {"DISCONNECTED", "DISCONNECTING"}
    BY <1>1, <1>2
  <2>5. QED BY <1>1, <1>2, <2>1, <2>2, <2>3, <2>4 DEF ConnRows, Closing, scans
<1>6. ConnTypes'
  <2>1. Head(conn_msgs).ok \in BOOLEAN
    BY <1>2 DEF LinkMsgs
  <2>2. is_roam' \in BOOLEAN /\ ap_valid' \in BOOLEAN /\ chan_linked' \in BOOLEAN /\ carrier' \in BOOLEAN /\ told' \in {"up", "down"}
    BY <1>1, <1>2, <2>1 DEF ConnRows, ConnTypes
  <2>3. QED BY <1>1, <1>2, <2>2 DEF ConnRows, ConnTypes, scans
<1>7. QED BY <1>2, <1>3, <1>4, <1>5, <1>6 DEF ConnRows

\* A connection has gone.
LEMMA DisconnectIndKeeps ==
    ASSUME ConnConstants, conn_upset = {}, conn_upset' = {},
           NEW l \in Seq(LinkMsgs), NEW k \in Seq(ScanMsgs), ConnRows(l, k), rwnx_rx_sm_disconnect_ind
    PROVE  \E n \in Seq(LinkMsgs), j \in Seq(ScanMsgs) : ConnRows(n, j)'
<1>1. /\ Handles("disconnect") /\ UNCHANGED <<conn_up, scans, conn_op, fw_conn, fw_scan>>
      /\ null_used' = (null_used \/ ~conn_up \/ (conn_state # "DISCONNECTED" /\ ~ap_valid))
      /\ conn_up /\ conn_state # "DISCONNECTED" =>
           /\ told' = IF Head(conn_msgs).reassoc THEN told ELSE "down"
           /\ carrier' = FALSE /\ ap_valid' = FALSE /\ chan_linked' = FALSE
           /\ conn_state' = IF is_roam THEN conn_state ELSE "DISCONNECTED"
           /\ UNCHANGED is_roam
  BY DEF rwnx_rx_sm_disconnect_ind
<1>2. /\ conn_msgs' \in Seq(Inds) /\ Heard(conn_msgs', Tail(l), k) /\ Tail(l) \in Seq(LinkMsgs)
      /\ conn_up /\ fw_conn # "off" /\ l # <<>> /\ l[1] = Head(conn_msgs) /\ Head(conn_msgs).is = "disconnect"
  BY <1>1, HandlesIs
<1>3. /\ \A r \in BOOLEAN : ~Tried(r, fw_conn, l) /\ ~GivenUp(r, fw_conn, l)
      /\ ~Disconnected(l) /\ ~Connecting(l)
  BY <1>2, Firsts DEF Disconnected, Connecting
<1>4. Connected(l) \/ Roaming(l) \/ Disconnecting(l)
  BY <1>3 DEF ConnRows, LinkRow
<1>5. /\ conn_state \in {"CONNECTED", "ROAMING", "DISCONNECTING"} /\ ap_valid
      /\ conn_state = "CONNECTED" => ~is_roam
      /\ conn_state = "ROAMING" => is_roam
  BY <1>2, <1>3, <1>4, LinkFacts DEF Connected, Roaming, Disconnecting, On
<1>6. LinkRow(Tail(l))'
  <2>1. ASSUME conn_state = "CONNECTED", ~is_roam, On, fw_conn = "idle", l = <<DM(FALSE)>>
        PROVE  LinkRow(Tail(l))'
    <3>1. Tail(l) = <<>>
      BY <2>1
    <3>2. LinkRow(<<>>)'
      BY <1>1, <1>2, <1>5, <2>1, LinkFacts DEF LinkRow, On, Off, Disconnected
    <3>3. QED BY <3>1, <3>2
  <2>2. ASSUME conn_state = "ROAMING", is_roam, conn_op = "connect", fw_conn = "idle", l = <<DM(FALSE)>>
        PROVE  LinkRow(Tail(l))'
    <3>1. Tail(l) = <<>>
      BY <2>2
    <3>2. LinkRow(<<>>)'
      BY <1>1, <1>2, <1>5, <2>2, LinkFacts DEF LinkRow, On, Off, Roaming
    <3>3. QED BY <3>1, <3>2
  <2>3. ASSUME NEW r \in BOOLEAN, conn_state = "ROAMING", is_roam, conn_op # "connect", On, fw_conn = (IF r THEN "roaming" ELSE "joining"), l = <<DM(r)>>
        PROVE  LinkRow(Tail(l))'
    <3>1. Tail(l) = <<>>
      BY <2>3
    <3>2. LinkRow(<<>>)'
      BY <1>1, <1>2, <1>5, <2>3, LinkFacts DEF LinkRow, On, Off, Roaming, Tried
    <3>3. QED BY <3>1, <3>2
  <2>4. ASSUME NEW r \in BOOLEAN, conn_state = "ROAMING", is_roam, conn_op # "connect", On, fw_conn = "joined", l = <<DM(r), CM(TRUE, r)>>
        PROVE  LinkRow(Tail(l))'
    <3>1. Tail(l) = <<CM(TRUE, r)>>
      BY <2>4, LeftOfTwo
    <3>2. LinkRow(<<CM(TRUE, r)>>)'
      BY <1>1, <1>2, <1>5, <2>4, LinkFacts DEF LinkRow, On, Off, Roaming, Tried
    <3>3. QED BY <3>1, <3>2
  <2>5. ASSUME NEW r \in BOOLEAN, conn_state = "ROAMING", is_roam, conn_op # "connect", On, fw_conn = "idle", l = <<DM(r), CM(FALSE, r)>>
        PROVE  LinkRow(Tail(l))'
    <3>1. Tail(l) = <<CM(FALSE, r)>>
      BY <2>5, LeftOfTwo
    <3>2. LinkRow(<<CM(FALSE, r)>>)'
      BY <1>1, <1>2, <1>5, <2>5, LinkFacts DEF LinkRow, On, Off, Roaming, Tried
    <3>3. QED BY <3>1, <3>2
  <2>6. ASSUME NEW r \in BOOLEAN, conn_state = "ROAMING", is_roam, conn_op # "connect", On, fw_conn = "idle", l = <<DM(r), CM(TRUE, r), DM(FALSE)>>
        PROVE  LinkRow(Tail(l))'
    <3>1. Tail(l) = <<CM(TRUE, r), DM(FALSE)>>
      BY <2>6, LeftOfThree
    <3>2. LinkRow(<<CM(TRUE, r), DM(FALSE)>>)'
      BY <1>1, <1>2, <1>5, <2>6, LinkFacts DEF LinkRow, On, Off, Roaming, Tried
    <3>3. QED BY <3>1, <3>2
  <2>7. ASSUME NEW r \in BOOLEAN, conn_state = "DISCONNECTING", is_roam, On, fw_conn = "leaving", l = <<DM(r), CM(TRUE, r)>>
        PROVE  LinkRow(Tail(l))'
    <3>1. Tail(l) = <<CM(TRUE, r)>>
      BY <2>7, LeftOfTwo
    <3>2. LinkRow(<<CM(TRUE, r)>>)'
      BY <1>1, <1>2, <1>5, <2>7, LinkFacts DEF LinkRow, On, Off, Disconnecting, GivenUp
    <3>3. QED BY <3>1, <3>2
  <2>8. ASSUME NEW r \in BOOLEAN, conn_state = "DISCONNECTING", is_roam, On, fw_conn = "idle", l = <<DM(r), CM(FALSE, r)>>
        PROVE  LinkRow(Tail(l))'
    <3>1. Tail(l) = <<CM(FALSE, r)>>
      BY <2>8, LeftOfTwo
    <3>2. LinkRow(<<CM(FALSE, r)>>)'
      BY <1>1, <1>2, <1>5, <2>8, LinkFacts DEF LinkRow, On, Off, Disconnecting, GivenUp
    <3>3. QED BY <3>1, <3>2
  <2>9. ASSUME NEW r \in BOOLEAN, conn_state = "DISCONNECTING", is_roam, On, fw_conn = "idle", l = <<DM(r), CM(TRUE, r), DM(FALSE)>>
        PROVE  LinkRow(Tail(l))'
    <3>1. Tail(l) = <<CM(TRUE, r), DM(FALSE)>>
      BY <2>9, LeftOfThree
    <3>2. LinkRow(<<CM(TRUE, r), DM(FALSE)>>)'
      BY <1>1, <1>2, <1>5, <2>9, LinkFacts DEF LinkRow, On, Off, Disconnecting, GivenUp
    <3>3. QED BY <3>1, <3>2
  <2>10. ASSUME conn_state = "DISCONNECTING", ~is_roam, ap_valid, fw_conn = "idle", l = <<DM(FALSE)>>
        PROVE  LinkRow(Tail(l))'
    <3>1. Tail(l) = <<>>
      BY <2>10
    <3>2. LinkRow(<<>>)'
      BY <1>1, <1>2, <1>5, <2>10, LinkFacts DEF LinkRow, On, Off, Disconnected
    <3>3. QED BY <3>1, <3>2
  <2>11. ASSUME Connected(l) PROVE LinkRow(Tail(l))'
    BY <1>2, <2>1, <2>11 DEF Connected, Linked
  <2>12. ASSUME Roaming(l) PROVE LinkRow(Tail(l))'
    <3>1. conn_state = "ROAMING" /\ is_roam
      BY <2>12 DEF Roaming
    <3>2. CASE conn_op = "connect"
      BY <1>2, <2>2, <2>12, <3>1, <3>2 DEF Roaming, Linked
    <3>3. CASE conn_op # "connect"
      <4>1. PICK r \in BOOLEAN : On /\ Retried(r, fw_conn, l)
        BY <1>3, <2>12, <3>3 DEF Roaming
      <4>2. QED BY <2>3, <2>4, <2>5, <2>6, <3>1, <3>3, <4>1 DEF Retried
    <3>4. QED BY <3>2, <3>3
  <2>13. ASSUME Disconnecting(l) PROVE LinkRow(Tail(l))'
    <3>1. conn_state = "DISCONNECTING"
      BY <2>13 DEF Disconnecting
    <3>2. CASE is_roam
      <4>1. PICK r \in BOOLEAN : On /\ RetryGivenUp(r, fw_conn, l)
        BY <1>3, <2>13, <3>2 DEF Disconnecting
      <4>2. QED BY <2>7, <2>8, <2>9, <3>1, <3>2, <4>1 DEF RetryGivenUp
    <3>3. CASE ~is_roam
      BY <1>2, <1>3, <2>10, <2>13, <3>1, <3>3 DEF Disconnecting, Left
    <3>4. QED BY <3>2, <3>3
  <2>14. QED BY <1>4, <2>11, <2>12, <2>13
<1>7. ScanRow(k)'
  BY <1>1 DEF ConnRows, ScanRow, scans
<1>8. Closing' /\ ~null_used'
  <2>1. conn_state' = "DISCONNECTED" \/ conn_state' = conn_state
    BY <1>1, <1>2, <1>5
  <2>2. conn_state = "CONNECTED" => conn_state' = "DISCONNECTED"
    BY <1>1, <1>2, <1>5
  <2>3. conn_op = "connect" => conn_state' = conn_state
    BY <1>1, <1>2, <1>5 DEF ConnRows, Closing
  <2>4. QED BY <1>1, <1>2, <1>5, <2>1, <2>2, <2>3 DEF ConnRows, Closing, scans
<1>9. ConnTypes'
  <2>1. is_roam' \in BOOLEAN /\ ap_valid' \in BOOLEAN /\ chan_linked' \in BOOLEAN /\ carrier' \in BOOLEAN /\ told' \in {"up", "down"}
    BY <1>1, <1>2, <1>5 DEF ConnRows, ConnTypes
  <2>2. QED BY <1>1, <1>2, <2>1 DEF ConnRows, ConnTypes, scans
<1>10. QED BY <1>2, <1>6, <1>7, <1>8, <1>9 DEF ConnRows

-----------------------------------------------------------------------------
\* What has happened has happened.
LEMMA UpsetStays == ASSUME ConnNext, conn_upset' = {} PROVE conn_upset = {}
<1>1. CASE Open
  BY <1>1 DEF Open, Free, Upsets
<1>2. CASE rwnx_cfg80211_connect
  BY <1>2 DEF rwnx_cfg80211_connect, Free, Upsets
<1>3. CASE ConnectSent
  BY <1>3 DEF ConnectSent, Free, Upsets
<1>4. CASE rwnx_cfg80211_disconnect
  BY <1>4 DEF rwnx_cfg80211_disconnect, Free, Upsets
<1>5. CASE rwnx_cfg80211_external_auth
  BY <1>5 DEF rwnx_cfg80211_external_auth, Free, Upsets
<1>6. CASE rwnx_cfg80211_scan
  BY <1>6 DEF rwnx_cfg80211_scan, Free, Upsets
<1>7. CASE CloseBegins
  BY <1>7 DEF CloseBegins, Free, Upsets
<1>8. CASE CloseWaits
  BY <1>8 DEF CloseWaits, Free, Upsets
<1>9. CASE CloseAbortsScan
  BY <1>9 DEF CloseAbortsScan, Free, Upsets
<1>10. CASE CloseCancels
  BY <1>10 DEF CloseCancels, Free, Upsets
<1>11. CASE CloseDisconnects
  BY <1>11 DEF CloseDisconnects, Free, Upsets
<1>12. CASE CloseWaitsInd
  BY <1>12 DEF CloseWaitsInd, Free, Upsets, WaitForInd
<1>13. CASE CloseRemoves
  BY <1>13 DEF CloseRemoves, Free, Upsets
<1>14. CASE CloseEnds
  BY <1>14 DEF CloseEnds, Free, Upsets
<1>15. CASE FwEndsJoin
  BY <1>15 DEF FwEndsJoin, Free, Upsets
<1>16. CASE FwLosesAp
  BY <1>16 DEF FwLosesAp, Free, Upsets
<1>17. CASE FwLeaves
  BY <1>17 DEF FwLeaves, Free, Upsets
<1>18. CASE FwAsksAuth
  BY <1>18 DEF FwAsksAuth, Free, Upsets
<1>19. CASE FwEndsScan
  BY <1>19 DEF FwEndsScan, Free, Upsets
<1>20. CASE rwnx_rx_sm_connect_ind
  BY <1>20 DEF rwnx_rx_sm_connect_ind, Free, Upsets
<1>21. CASE rwnx_rx_sm_disconnect_ind
  BY <1>21 DEF rwnx_rx_sm_disconnect_ind, Free, Upsets
<1>22. CASE rwnx_rx_sm_external_auth_required_ind
  BY <1>22 DEF rwnx_rx_sm_external_auth_required_ind, Free, Upsets
<1>23. CASE rwnx_rx_scanu_start_cfm
  BY <1>23 DEF rwnx_rx_scanu_start_cfm, Free, Upsets
<1>24. CASE ConnectIgnored
  BY <1>24 DEF ConnectIgnored, Free
<1>25. QED BY <1>1, <1>2, <1>3, <1>4, <1>5, <1>6, <1>7, <1>8, <1>9, <1>10, <1>11, <1>12, <1>13, <1>14, <1>15, <1>16, <1>17, <1>18, <1>19, <1>20, <1>21, <1>22, <1>23, <1>24 DEF ConnNext, CloseGoesOn, RxHandles

\* A step keeps the invariant.
LEMMA ConnStep ==
    ASSUME ConnConstants, ConnIInv, [ConnNext]_connVars
    PROVE  ConnIInv'
<1>1. ASSUME UNCHANGED connVars PROVE ConnIInv'
  <2>1. ASSUME NEW l, NEW k, ConnRows(l, k) PROVE ConnRows(l, k)'
    <3>1. LinkRow(l)'
      BY <1>1, <2>1 DEF ConnRows, LinkRow, Disconnected, Connected, Connecting, Roaming, Disconnecting, On, Off, connVars, link
    <3>2. ScanRow(k)' /\ ConnTypes' /\ Closing' /\ ~null_used' /\ Heard(conn_msgs', l, k)
      BY <1>1, <2>1 DEF ConnRows, ScanRow, ConnTypes, Closing, connVars, link, scans
    <3>3. QED BY <3>1, <3>2 DEF ConnRows
  <2>2. conn_upset' = conn_upset
    BY <1>1 DEF connVars
  <2>3. QED BY <2>1, <2>2 DEF ConnIInv
<1>2. ASSUME ConnNext, conn_upset' = {} PROVE \E n \in Seq(LinkMsgs), j \in Seq(ScanMsgs) : ConnRows(n, j)'
  <2>1. conn_upset = {}
    BY <1>2, UpsetStays
  <2>2. PICK l \in Seq(LinkMsgs), k \in Seq(ScanMsgs) : ConnRows(l, k)
    BY <2>1 DEF ConnIInv
  <2>3. CASE Open
    BY <1>2, <2>1, <2>2, <2>3, OpenKeeps
  <2>4. CASE rwnx_cfg80211_connect
    BY <1>2, <2>1, <2>2, <2>4, ConnectKeeps
  <2>5. CASE ConnectSent
    BY <1>2, <2>1, <2>2, <2>5, ConnectSentKeeps
  <2>6. CASE rwnx_cfg80211_disconnect
    BY <1>2, <2>1, <2>2, <2>6, DisconnectKeeps
  <2>7. CASE rwnx_cfg80211_external_auth
    BY <1>2, <2>1, <2>2, <2>7, ExternalAuthKeeps
  <2>8. CASE rwnx_cfg80211_scan
    BY <1>2, <2>1, <2>2, <2>8, ScanKeeps
  <2>9. CASE CloseBegins
    BY <1>2, <2>1, <2>2, <2>9, CloseKeeps
  <2>10. CASE CloseWaits
    BY <1>2, <2>1, <2>2, <2>10, CloseWaitsKeeps
  <2>11. CASE CloseAbortsScan
    BY <1>2, <2>1, <2>2, <2>11, CloseAbortsScanKeeps
  <2>12. CASE CloseCancels
    BY <1>2, <2>1, <2>2, <2>12, CloseCancelsKeeps
  <2>13. CASE CloseDisconnects
    BY <1>2, <2>1, <2>2, <2>13, CloseDisconnectsKeeps
  <2>14. CASE CloseWaitsInd
    BY <1>2, <2>1, <2>2, <2>14, CloseWaitsIndKeeps
  <2>15. CASE CloseRemoves
    BY <1>2, <2>1, <2>2, <2>15, CloseRemovesKeeps
  <2>16. CASE CloseEnds
    BY <1>2, <2>1, <2>2, <2>16, CloseEndsKeeps
  <2>17. CASE FwEndsJoin
    BY <1>2, <2>1, <2>2, <2>17, FwEndsJoinKeeps
  <2>18. CASE FwLosesAp
    BY <1>2, <2>1, <2>2, <2>18, FwLosesApKeeps
  <2>19. CASE FwLeaves
    BY <1>2, <2>1, <2>2, <2>19, FwLeavesKeeps
  <2>20. CASE FwAsksAuth
    BY <1>2, <2>1, <2>2, <2>20, FwAsksAuthKeeps
  <2>21. CASE FwEndsScan
    BY <1>2, <2>1, <2>2, <2>21, FwEndsScanKeeps
  <2>22. CASE rwnx_rx_sm_connect_ind
    BY <1>2, <2>1, <2>2, <2>22, ConnectIndKeeps
  <2>23. CASE rwnx_rx_sm_disconnect_ind
    BY <1>2, <2>1, <2>2, <2>23, DisconnectIndKeeps
  <2>24. CASE rwnx_rx_sm_external_auth_required_ind
    BY <1>2, <2>1, <2>2, <2>24, AuthIndKeeps
  <2>25. CASE rwnx_rx_scanu_start_cfm
    BY <1>2, <2>1, <2>2, <2>25, ScanCfmKeeps
  <2>26. CASE ConnectIgnored
    BY <1>2, <2>1, <2>2, <2>26, IgnoredKeeps
  <2>27. QED BY <1>2, <2>3, <2>4, <2>5, <2>6, <2>7, <2>8, <2>9, <2>10, <2>11, <2>12, <2>13, <2>14, <2>15, <2>16, <2>17, <2>18, <2>19, <2>20, <2>21, <2>22, <2>23, <2>24, <2>25, <2>26 DEF ConnNext, CloseGoesOn, RxHandles
<1>3. QED BY <1>1, <1>2 DEF ConnIInv

\* In every reachable state in which the two sides are not apart: at rest driver,
\* firmware and cfg80211 agree on the connection, no indication has found its interface
\* or its access point gone, and a scan that is reported is the one that has ended
\* (rwnx_cfg80211_connect, rwnx_cfg80211_disconnect, rwnx_close,
\* rwnx_rx_sm_connect_ind, rwnx_rx_sm_disconnect_ind, rwnx_rx_scanu_start_cfm).
THEOREM ConnIsSound ==
    ASSUME ConnConstants
    PROVE  ConnSpec => []ConnSound
<1>1. ConnInit => ConnIInv
  <2>1. ASSUME ConnInit PROVE ConnRows(<<>>, <<>>)
    <3>1. ConnTypes /\ Closing /\ ~null_used
      <4>1. conn_msgs \in Seq(Inds)
        BY <2>1 DEF ConnInit
      <4>2. QED BY <2>1, <4>1 DEF ConnInit, ConnTypes, Closing
    <3>2. LinkRow(<<>>) /\ ScanRow(<<>>)
      BY <2>1 DEF ConnInit, LinkRow, Disconnected, Off, ScanRow
    <3>3. QED BY <2>1, <3>1, <3>2, HeardNothing DEF ConnRows, ConnInit
  <2>2. <<>> \in Seq(LinkMsgs) /\ <<>> \in Seq(ScanMsgs)
    OBVIOUS
  <2>3. QED BY <2>1, <2>2 DEF ConnIInv
<1>2. ConnIInv /\ [ConnNext]_connVars => ConnIInv'
  BY ConnStep
<1>3. ConnIInv => ConnSound
  <2>1. ASSUME ConnIInv, conn_upset = {} PROVE ConnSound
    <3>1. PICK l \in Seq(LinkMsgs), k \in Seq(ScanMsgs) : ConnRows(l, k)
      BY <2>1 DEF ConnIInv
    <3>2. NothingNull /\ ScanIsOwn
      BY <3>1 DEF ConnRows, ScanRow, NothingNull, ScanIsOwn
    <3>3. ASSUME conn_op = "idle", conn_msgs = <<>>, fw_conn \in {"off", "idle", "joined"}
          PROVE  /\ conn_state = IF fw_conn = "joined" THEN "CONNECTED" ELSE "DISCONNECTED"
                 /\ ap_valid = (fw_conn = "joined") /\ chan_linked = (fw_conn = "joined")
                 /\ carrier = (fw_conn = "joined") /\ (told = "up") = (fw_conn = "joined")
      <4>1. l = <<>>
        BY <3>1, <3>3, HeardNothing DEF ConnRows
      <4>2. Disconnected(l) \/ (Connected(l) /\ fw_conn = "joined")
        BY <3>1, <3>3, <4>1, LinkFacts, SMTT(30) DEF ConnRows, LinkRow, Disconnected, Connected, Connecting, Roaming, Disconnecting, On, Off, Tried, GivenUp, Linked, Left, Retried, RetryGivenUp
      <4>3. ap_valid \in BOOLEAN /\ chan_linked \in BOOLEAN /\ carrier \in BOOLEAN
        BY <3>1 DEF ConnRows, ConnTypes
      <4>4. QED BY <4>2, <4>3 DEF Disconnected, Connected, On, Off
    <3>4. LinkAgrees
      BY <3>3 DEF LinkAgrees
    <3>5. QED BY <3>2, <3>4 DEF ConnSound
  <2>2. ASSUME conn_upset # {} PROVE ConnSound
    BY <2>2 DEF ConnSound, LinkAgrees, NothingNull, ScanIsOwn
  <2>3. QED BY <2>1, <2>2
<1>4. QED BY <1>1, <1>2, <1>3, PTL DEF ConnSpec

-----------------------------------------------------------------------------
(* Channel contexts                                                        *)

\* The interfaces of a channel context.
Users(c) == {v \in Vifs : ch_index[v] = c}

\* The counts count.
ChanBooks ==
    /\ ch_index \in [Vifs -> Chans \cup {NULL}] /\ chan_count \in [Chans -> Nat] /\ chan_def \subseteq Chans
    /\ \A c \in Chans : chan_count[c] = Cardinality(Users(c)) /\ (c \in chan_def => chan_count[c] > 0)

\* What the receive thread may be told.
Switch == {<<"switch", c>> : c \in Chans}
ChanInds == {<<"pre">>} \cup Switch \cup {<<"csa", v, c, ok>> : v \in ApVifs \cup StaVifs, c \in Chans, ok \in BOOLEAN}

\* A request for a switch has its announcement.
ChanOpShape ==
    \/ chan_op = <<"idle">> \/ chan_op = <<"left">>
    \/ \E v \in ApVifs \cup MeshVifs, c \in Chans : chan_op = <<"start", v, c>>
    \/ \E v \in ApVifs : chan_op = <<"stop", v>> \/ (chan_op = <<"csa", v>> /\ csa[v] # NULL)

ChanTypes ==
    /\ cur_chanctx \in Chans \cup {NULL} /\ started \subseteq ApVifs \cup MeshVifs
    /\ csa \in [ApVifs -> Announced \cup {NULL}] /\ \A v \in ApVifs : csa[v] # NULL /\ csa[v].ok = TRUE => csa[v].ch \in Chans
    /\ radar_on \in BOOLEAN /\ radar_hit \in BOOLEAN /\ switching \in {"no", "pre", "started"}

\* A check is for an access point that is not started and is not being started.
Check ==
    /\ cac_vif \in ApVifs \cup {NULL} /\ (cac_vif = NULL <=> cac_work = "idle") /\ cac_work \in {"idle", "armed", "runs"}
    /\ cac_vif \notin started /\ (chan_op[1] = "start" => chan_op[2] # cac_vif)

\* A pre-switch is followed by its switch, which the receive thread then has in hand.
InOrder ==
    /\ chan_msgs \in Seq(ChanInds)
    /\ \A i \in 1 .. Len(chan_msgs) : chan_msgs[i] = <<"pre">> => i + 1 <= Len(chan_msgs) /\ chan_msgs[i + 1] \in Switch
    /\ switching # "no" => chan_msgs # <<>> /\ chan_msgs[1] \in Switch

\* A started interface has a channel, and its context knows which.
Homes == \A v \in started : ch_index[v] \in chan_def

\* Whose queues follow the radio, and how: between switches, before and after
\* those of the new channel are started.
Followers == started \cup {s \in StaVifs : ch_index[s] # NULL}
Follow ==
    /\ switching = "no" => \A v \in Followers : v \in chan_stopped <=> ch_index[v] # cur_chanctx
    /\ switching = "pre" => Followers \subseteq chan_stopped
    /\ switching = "started" => \A v \in Followers : v \in chan_stopped <=> ch_index[v] # chan_msgs[1][2]

\* Somebody looks for radar.
Watched ==
    (switching = "no" /\ cur_chanctx \in RadarChans /\ \E v \in started : ch_index[v] = cur_chanctx)
        => radar_on = TRUE \/ radar_hit = TRUE

\* The inductive invariant; after one of the events only the counts are claimed,
\* and not those after something was linked twice.
ChanRest == ChanTypes /\ ChanOpShape /\ Check /\ InOrder /\ Homes /\ Follow /\ Watched
ChanIInv == ("relink" \notin chan_upset => ChanBooks) /\ (chan_upset = {} => ChanRest)

LEMMA UsersFinite == \A c : IsFiniteSet(Users(c))
BY ChanAssumption, FS_Subset DEF Users

\* Interface v is now on channel context x (a context, or NULL); the others are
\* where they were, and their contexts keep their channels.
Moved(v, x) ==
    /\ ChanBooks' /\ ch_index' = [ch_index EXCEPT ![v] = x]
    /\ \A u \in Vifs \ {v} : ch_index[u] \in chan_def => ch_index[u] \in chan_def'

\* A context that loses its last interface had no other.
LEMMA CountsWithout ==
    ASSUME ChanBooks, NEW v \in Vifs
    PROVE  /\ CountWithout(v) \in [Chans -> Nat]
           /\ \A c \in Chans : CountWithout(v)[c] = Cardinality(Users(c) \ {v})
           /\ \A u \in Vifs \ {v} : ch_index[u] \notin EmptiedBy(v)
<1>1. ASSUME NEW c \in Chans, c # ch_index[v] PROVE Users(c) \ {v} = Users(c)
  BY <1>1 DEF Users
<1>2. ASSUME ch_index[v] \in Chans
      PROVE  /\ chan_count[ch_index[v]] \in Nat /\ chan_count[ch_index[v]] # 0
             /\ Cardinality(Users(ch_index[v]) \ {v}) = chan_count[ch_index[v]] - 1
  <2>1. v \in Users(ch_index[v])
    BY DEF Users
  <2>2. chan_count[ch_index[v]] = Cardinality(Users(ch_index[v])) /\ chan_count[ch_index[v]] \in Nat
    BY <1>2 DEF ChanBooks
  <2>3. Cardinality(Users(ch_index[v]) \ {v}) = Cardinality(Users(ch_index[v])) - 1
    BY <2>1, UsersFinite, FS_RemoveElement
  <2>4. Cardinality(Users(ch_index[v]) \ {v}) \in Nat
    BY UsersFinite, FS_RemoveElement, FS_CardinalityType, <2>1
  <2>5. QED BY <2>2, <2>3, <2>4
<1>3. ch_index[v] \in Chans \cup {NULL} /\ NULL \notin Chans /\ chan_count \in [Chans -> Nat]
  BY ChanAssumption DEF ChanBooks
<1>4. CountWithout(v) \in [Chans -> Nat]
  BY <1>2, <1>3 DEF CountWithout
<1>5. ASSUME NEW c \in Chans PROVE CountWithout(v)[c] = Cardinality(Users(c) \ {v})
  <2>1. CASE c = ch_index[v]
    BY <2>1, <1>2, <1>3 DEF CountWithout
  <2>2. CASE c # ch_index[v]
    <3>1. CountWithout(v)[c] = chan_count[c]
      BY <2>2, <1>3 DEF CountWithout
    <3>2. QED BY <3>1, <2>2, <1>1 DEF ChanBooks
  <2>3. QED BY <2>1, <2>2
<1>6. ASSUME NEW u \in Vifs \ {v}, ch_index[u] \in EmptiedBy(v) PROVE FALSE
  <2>1. ch_index[u] \in Chans /\ CountWithout(v)[ch_index[u]] = 0
    BY <1>6 DEF EmptiedBy
  <2>2. u \in Users(ch_index[u]) \ {v} /\ IsFiniteSet(Users(ch_index[u]) \ {v})
    BY UsersFinite, FS_Subset DEF Users
  <2>3. Users(ch_index[u]) \ {v} = {}
    BY <1>5, <2>1, <2>2, FS_EmptySet
  <2>4. QED BY <2>2, <2>3
<1>7. QED BY <1>4, <1>5, <1>6

LEMMA UnlinkMoves ==
    ASSUME ChanBooks, NEW v \in Vifs, rwnx_chanctx_unlink(v)
    PROVE  Moved(v, NULL)
<1>1. ch_index' \in [Vifs -> Chans \cup {NULL}] /\ ch_index' = [ch_index EXCEPT ![v] = NULL]
  BY DEF rwnx_chanctx_unlink, ChanBooks
<1>2. chan_count' \in [Chans -> Nat] /\ chan_def' \subseteq Chans
  BY CountsWithout DEF rwnx_chanctx_unlink, ChanBooks
<1>3. ASSUME NEW c \in Chans PROVE chan_count'[c] = Cardinality(Users(c)')
  <2>1. Users(c)' = Users(c) \ {v}
    BY <1>1, ChanAssumption DEF Users, ChanBooks
  <2>2. QED BY <2>1, CountsWithout DEF rwnx_chanctx_unlink
<1>4. ASSUME NEW c \in chan_def' PROVE chan_count'[c] > 0
  <2>1. c \in Chans /\ c \in chan_def /\ chan_count'[c] \in Nat /\ chan_count[c] > 0
    BY <1>2 DEF rwnx_chanctx_unlink, ChanBooks
  <2>2. CASE c = ch_index[v]
    BY <2>1, <2>2 DEF rwnx_chanctx_unlink, EmptiedBy
  <2>3. CASE c # ch_index[v]
    BY <2>1, <2>3 DEF rwnx_chanctx_unlink, CountWithout, ChanBooks
  <2>4. QED BY <2>2, <2>3
<1>5. ASSUME NEW u \in Vifs \ {v}, ch_index[u] \in chan_def PROVE ch_index[u] \in chan_def'
  BY <1>5, CountsWithout DEF rwnx_chanctx_unlink
<1>6. QED BY <1>1, <1>2, <1>3, <1>4, <1>5 DEF Moved, ChanBooks

LEMMA RelinkMoves ==
    ASSUME ChanBooks, NEW v \in Vifs, NEW c \in Chans, NEW defs \in SUBSET {c}, Relink(v, c, defs)
    PROVE  Moved(v, c) /\ defs \subseteq chan_def'
<1>1. ch_index' \in [Vifs -> Chans \cup {NULL}] /\ ch_index' = [ch_index EXCEPT ![v] = c]
  BY DEF Relink, ChanBooks
<1>2. chan_count' \in [Chans -> Nat] /\ chan_def' \subseteq Chans
  BY CountsWithout DEF Relink, ChanBooks
<1>3. ASSUME NEW d \in Chans PROVE chan_count'[d] = Cardinality(Users(d)')
  <2>1. CASE d = c
    <3>1. Users(d)' = (Users(d) \ {v}) \cup {v}
      BY <1>1, <2>1 DEF Users, ChanBooks
    <3>2. IsFiniteSet(Users(d) \ {v}) /\ v \notin Users(d) \ {v}
      BY UsersFinite, FS_Subset
    <3>3. Cardinality(Users(d)') = Cardinality(Users(d) \ {v}) + 1
      BY <3>1, <3>2, FS_AddElement
    <3>4. QED BY <3>3, <2>1, CountsWithout DEF Relink
  <2>2. CASE d # c
    <3>1. Users(d)' = Users(d) \ {v}
      BY <1>1, <2>2 DEF Users, ChanBooks
    <3>2. QED BY <3>1, <2>2, CountsWithout DEF Relink
  <2>3. QED BY <2>1, <2>2
<1>4. ASSUME NEW d \in chan_def' PROVE chan_count'[d] > 0
  <2>1. d \in Chans /\ (d \in chan_def \/ d = c) /\ CountWithout(v) \in [Chans -> Nat]
    BY <1>2, CountsWithout DEF Relink
  <2>2. CASE d = c
    BY <2>1, <2>2 DEF Relink
  <2>3. CASE d # c /\ d = ch_index[v]
    <3>1. CountWithout(v)[d] # 0
      BY <2>1, <2>3 DEF Relink, EmptiedBy
    <3>2. QED BY <2>1, <2>3, <3>1 DEF Relink
  <2>4. CASE d # c /\ d # ch_index[v]
    <3>1. CountWithout(v)[d] = chan_count[d]
      BY <2>1, <2>4 DEF CountWithout, ChanBooks
    <3>2. QED BY <2>1, <2>4, <3>1 DEF Relink, ChanBooks
  <2>5. QED BY <2>2, <2>3, <2>4
<1>5. ASSUME NEW u \in Vifs \ {v}, ch_index[u] \in chan_def PROVE ch_index[u] \in chan_def'
  BY <1>5, CountsWithout DEF Relink
<1>6. defs \subseteq chan_def'
  BY DEF Relink
<1>7. QED BY <1>1, <1>2, <1>3, <1>4, <1>5, <1>6 DEF Moved, ChanBooks

\* To link an interface that has no channel is to link it again.
LEMMA LinkMoves ==
    ASSUME ChanBooks, NEW v \in Vifs, NEW c \in Chans, NEW defs \in SUBSET {c}, ch_index[v] = NULL, rwnx_chanctx_link(v, c, defs)
    PROVE  Moved(v, c) /\ defs \subseteq chan_def' /\ chan_def \subseteq chan_def'
<1>1. CountWithout(v) = chan_count /\ EmptiedBy(v) = {}
  BY ChanAssumption DEF CountWithout, EmptiedBy
<1>2. Relink(v, c, defs)
  BY <1>1 DEF Relink, rwnx_chanctx_link
<1>3. chan_def \subseteq chan_def'
  BY DEF rwnx_chanctx_link
<1>4. QED BY <1>2, <1>3, RelinkMoves

-----------------------------------------------------------------------------
\* What the steps do to the interfaces that follow the radio.

\* Interface v, which follows the radio in none of them, changes its channel.
LEMMA AsideKeeps ==
    ASSUME ChanRest, ChanBooks, NEW v \in Vifs \ (started \cup StaVifs), NEW x \in Chans \cup {NULL}, Moved(v, x),
           UNCHANGED <<cur_chanctx, chan_stopped, started, switching, chan_msgs>>
    PROVE  Homes' /\ Follow'
<1>1. \A u \in Vifs \ {v} : ch_index'[u] = ch_index[u]
  BY DEF Moved, ChanBooks
<1>2. started \subseteq Vifs \ {v} /\ StaVifs \subseteq Vifs \ {v}
  BY DEF Vifs, ChanRest, ChanTypes
<1>3. Homes'
  BY <1>1, <1>2 DEF Moved, Homes, ChanRest
<1>4. Followers' = Followers /\ \A u \in Followers : ch_index'[u] = ch_index[u]
  BY <1>1, <1>2 DEF Followers
<1>5. Follow'
  BY <1>4 DEF Follow, ChanRest
<1>6. QED BY <1>3, <1>5

\* It takes its channel from the firmware, and its queues are stopped if that is not the radio's.
LEMMA TakesKeeps ==
    ASSUME ChanRest, ChanBooks, NEW v \in Vifs, NEW c \in Chans, Moved(v, c), StopUnlessCurrent(v, c),
           switching = "no", UNCHANGED <<cur_chanctx, switching>>,
           started' \subseteq started \cup {v}, v \in started' => c \in chan_def'
    PROVE  Homes' /\ Follow'
<1>1. ch_index'[v] = c /\ \A u \in Vifs \ {v} : ch_index'[u] = ch_index[u]
  BY DEF Moved, ChanBooks
<1>2. started \subseteq Vifs /\ StaVifs \subseteq Vifs
  BY DEF Vifs, ChanRest, ChanTypes
<1>3. Homes'
  BY <1>1, <1>2 DEF Moved, Homes, ChanRest
<1>4. Followers' \subseteq Followers \cup {v} /\ Followers \subseteq Vifs
  BY <1>1, <1>2 DEF Followers
<1>5. ASSUME NEW u \in Followers' PROVE u \in chan_stopped' <=> ch_index'[u] # cur_chanctx'
  <2>1. CASE u = v
    BY <2>1, <1>1 DEF StopUnlessCurrent
  <2>2. CASE u # v
    <3>1. u \in Followers /\ ch_index'[u] = ch_index[u]
      BY <1>1, <1>4, <1>5, <2>2
    <3>2. u \in chan_stopped' <=> u \in chan_stopped
      BY <2>2 DEF StopUnlessCurrent
    <3>3. QED BY <3>1, <3>2 DEF Follow, ChanRest
  <2>3. QED BY <2>1, <2>2
<1>6. Follow'
  BY <1>5 DEF Follow
<1>7. QED BY <1>3, <1>6

\* It gives its channel up, and is not among the started ones any more.
LEMMA LeavesKeeps ==
    ASSUME ChanRest, ChanBooks, NEW v \in Vifs, Moved(v, NULL), chan_stopped' = chan_stopped \ {v}, started' = started \ {v},
           UNCHANGED <<cur_chanctx, switching, chan_msgs>>
    PROVE  Homes' /\ Follow'
<1>1. ch_index'[v] = NULL /\ \A u \in Vifs \ {v} : ch_index'[u] = ch_index[u]
  BY DEF Moved, ChanBooks
<1>2. started \subseteq Vifs /\ StaVifs \subseteq Vifs
  BY DEF Vifs, ChanRest, ChanTypes
<1>3. Homes'
  BY <1>1, <1>2 DEF Moved, Homes, ChanRest
<1>4. Followers' \subseteq Followers \ {v} /\ \A u \in Followers' : ch_index'[u] = ch_index[u]
  BY <1>1, <1>2 DEF Followers
<1>5. \A u \in Followers' : u \in chan_stopped' <=> u \in chan_stopped
  BY <1>4
<1>6. Follow'
  BY <1>4, <1>5 DEF Follow, ChanRest
<1>7. QED BY <1>3, <1>6

\* Nothing of all this changes.
LEMMA QuietKeeps ==
    ASSUME ChanRest, UNCHANGED <<books_, cur_chanctx, chan_stopped, started, switching>>,
           switching = "started" => chan_msgs'[1] = chan_msgs[1]
    PROVE  Homes' /\ Follow'
BY DEF ChanRest, Homes, Follow, Followers, books_

\* Detection ends when the last interface leaves the current channel: nobody that is
\* started is there then.
LEMMA UnwatchKeeps ==
    ASSUME ChanRest, ChanBooks, NEW v \in Vifs, NEW x \in Chans \cup {NULL}, Moved(v, x), RadarAfterUnlink(v),
           UNCHANGED <<cur_chanctx, switching>>, started' \subseteq started, v \notin started' \/ x # cur_chanctx
    PROVE  Watched'
<1> SUFFICES ASSUME switching = "no", cur_chanctx \in RadarChans, NEW u \in started', ch_index'[u] = cur_chanctx
             PROVE  radar_on' = TRUE \/ radar_hit' = TRUE
  BY DEF Watched
<1>1. u \in Vifs /\ u # v /\ ch_index'[u] = ch_index[u]
  BY DEF Moved, ChanBooks, ChanRest, ChanTypes, Vifs
<1>2. radar_on = TRUE \/ radar_hit = TRUE
  BY <1>1 DEF Watched, ChanRest
<1>3. cur_chanctx \notin EmptiedBy(v)
  BY <1>1, CountsWithout
<1>4. QED BY <1>2, <1>3 DEF RadarAfterUnlink, ChanRest, ChanTypes

\* Detection follows the channel the radio stays on, which is looked up when somebody started is there.
LEMMA EnableKeeps ==
    ASSUME ChanRest, ChanBooks, NEW v \in Vifs, NEW c \in Chans, Moved(v, c), c = cur_chanctx,
           rwnx_radar_detection_enable_on_cur_channel(c), UNCHANGED <<cur_chanctx, switching>>,
           started' \subseteq started \cup {v}, v \in started' => c \in chan_def'
    PROVE  Watched'
<1> SUFFICES ASSUME switching = "no", cur_chanctx \in RadarChans, NEW u \in started', ch_index'[u] = cur_chanctx
             PROVE  radar_on' = TRUE \/ radar_hit' = TRUE
  BY DEF Watched
<1>1. CASE c \in chan_def'
  BY <1>1 DEF rwnx_radar_detection_enable_on_cur_channel
<1>2. CASE c \notin chan_def'
  <2>1. u \in started /\ u \in Vifs /\ u # v /\ ch_index'[u] = ch_index[u]
    BY <1>2 DEF Moved, ChanBooks, ChanRest, ChanTypes, Vifs
  <2>2. radar_on = TRUE \/ radar_hit = TRUE
    BY <2>1 DEF Watched, ChanRest
  <2>3. QED BY <1>2, <2>2 DEF rwnx_radar_detection_enable_on_cur_channel, ChanRest, ChanTypes
<1>3. QED BY <1>1, <1>2

\* Another channel is linked: what was on the radio's is still watched.
LEMMA ElsewhereKeeps ==
    ASSUME ChanRest, ChanBooks, NEW v \in Vifs, NEW x \in Chans \cup {NULL}, Moved(v, x), radar_on => radar_on', radar_hit => radar_hit',
           UNCHANGED <<cur_chanctx, switching>>, started' \subseteq started \cup {v}, v \notin started' \/ x # cur_chanctx
    PROVE  Watched'
<1> SUFFICES ASSUME switching = "no", cur_chanctx \in RadarChans, NEW u \in started', ch_index'[u] = cur_chanctx
             PROVE  radar_on' = TRUE \/ radar_hit' = TRUE
  BY DEF Watched
<1>1. u \in started /\ u \in Vifs /\ u # v /\ ch_index'[u] = ch_index[u]
  BY DEF Moved, ChanBooks, ChanRest, ChanTypes, Vifs
<1>2. radar_on = TRUE \/ radar_hit = TRUE
  BY <1>1 DEF Watched, ChanRest
<1>3. QED BY <1>2 

-----------------------------------------------------------------------------
\* The steps, by what they do to the interfaces.

\* What is left to show of a step: the counts, and when nothing went wrong the followers and the radar.
ChanGoal == ("relink" \notin chan_upset' => ChanBooks') /\ (chan_upset' = {} => Homes' /\ Follow' /\ Watched')

LEMMA QuietGoal ==
    ASSUME ChanRest, ChanBooks, UNCHANGED <<books_, cur_chanctx, chan_stopped, started, switching, radarVars>>,
           switching = "started" => chan_msgs'[1] = chan_msgs[1]
    PROVE  ChanGoal
<1>1. ChanBooks'
  BY DEF ChanBooks, Users, books_
<1>2. Homes' /\ Follow'
  BY QuietKeeps
<1>3. Watched'
  BY DEF Watched, ChanRest, books_, radarVars
<1>4. QED BY <1>1, <1>2, <1>3 DEF ChanGoal

LEMMA StartLinkGoal == ASSUME ChanRest, ChanBooks, chan_upset = {}, StartLink PROVE ChanGoal
<1>1. PICK v \in ApVifs \cup MeshVifs, c \in Chans : chan_op = <<"start", v, c>>
  BY DEF StartLink, ChanRest, ChanOpShape
<1>2. v \in Vifs /\ chan_op[2] = v /\ chan_op[3] = c
  BY <1>1 DEF Vifs
<1>3. /\ rwnx_chanctx_link(v, c, {c}) /\ StopUnlessCurrent(v, c) /\ started' = started \cup {v}
      /\ IF c = cur_chanctx THEN rwnx_radar_detection_enable_on_cur_channel(c) ELSE UNCHANGED radarVars
      /\ Upset(If(Crossed, "crossed") \cup If(ch_index[v] # NULL, "relink"))
      /\ UNCHANGED <<cur_chanctx, switching>>
  BY <1>2 DEF StartLink
<1> SUFFICES ASSUME "relink" \notin chan_upset' PROVE ChanBooks' /\ (chan_upset' = {} => Homes' /\ Follow' /\ Watched')
  BY DEF ChanGoal
<1>4. ch_index[v] = NULL
  BY <1>3 DEF Upset, If
<1>5. Moved(v, c) /\ c \in chan_def'
  BY <1>2, <1>3, <1>4, LinkMoves
<1>6. ASSUME chan_upset' = {} PROVE switching = "no"
  BY <1>3, <1>6 DEF Upset, If, Crossed
<1>7. ASSUME switching = "no" PROVE Homes' /\ Follow'
  BY <1>2, <1>3, <1>5, <1>7, TakesKeeps
<1>8. CASE c = cur_chanctx
  <2>1. Watched'
    BY <1>2, <1>3, <1>5, <1>8, EnableKeeps
  <2>2. QED BY <1>5, <1>6, <1>7, <2>1 DEF Moved
<1>9. CASE c # cur_chanctx
  <2>1. Watched'
    BY <1>2, <1>3, <1>5, <1>9, ElsewhereKeeps DEF radarVars
  <2>2. QED BY <1>5, <1>6, <1>7, <2>1 DEF Moved
<1>10. QED BY <1>8, <1>9

\* The check's interface is not started, and no station.
LEMMA CheckIsAside == ASSUME ChanRest, cac_vif # NULL PROVE cac_vif \in Vifs \ (started \cup StaVifs)
BY ChanAssumption DEF ChanRest, Check, Vifs

\* stop_ap, and leave_mesh after its unlink, end any check.
LEMMA CancelGoal ==
    ASSUME ChanRest, ChanBooks, (\E v \in Vifs : rwnx_cfg80211_stop_ap(v)) \/ LeaveCancels
    PROVE  ChanGoal
<1>1. /\ rwnx_radar_cancel_cac /\ UNCHANGED <<cur_chanctx, chan_stopped, started, switching, chan_msgs>>
  BY DEF rwnx_cfg80211_stop_ap, LeaveCancels
<1>2. CASE cac_vif # NULL /\ cac_work = "armed"
  <2>1. cac_vif \in Vifs \ (started \cup StaVifs) /\ rwnx_chanctx_unlink(cac_vif) /\ RadarAfterUnlink(cac_vif)
    BY <1>1, <1>2, CheckIsAside DEF rwnx_radar_cancel_cac
  <2>2. Moved(cac_vif, NULL)
    BY <2>1, UnlinkMoves
  <2>3. Homes' /\ Follow'
    BY <1>1, <2>1, <2>2, AsideKeeps
  <2>4. Watched'
    BY <1>1, <2>1, <2>2, UnwatchKeeps
  <2>5. QED BY <2>2, <2>3, <2>4 DEF ChanGoal, Moved
<1>3. CASE ~(cac_vif # NULL /\ cac_work = "armed")
  <2>1. UNCHANGED <<books_, radarVars>>
    BY <1>1, <1>3 DEF rwnx_radar_cancel_cac
  <2>2. QED BY <1>1, <2>1, QuietGoal
<1>4. QED BY <1>2, <1>3

LEMMA StopUnlinkGoal == ASSUME ChanRest, ChanBooks, StopUnlink PROVE ChanGoal
<1>1. PICK v \in ApVifs : chan_op = <<"stop", v>>
  BY DEF StopUnlink, ChanRest, ChanOpShape
<1>2. v \in Vifs /\ chan_op[2] = v
  BY <1>1 DEF Vifs
<1>3. /\ rwnx_chanctx_unlink(v) /\ RadarAfterUnlink(v)
      /\ chan_stopped' = chan_stopped \ {v} /\ started' = started \ {v} /\ UNCHANGED <<cur_chanctx, switching, chan_msgs>>
  BY <1>2 DEF StopUnlink
<1>4. Moved(v, NULL)
  BY <1>2, <1>3, UnlinkMoves
<1>5. Homes' /\ Follow'
  BY <1>2, <1>3, <1>4, LeavesKeeps
<1>6. Watched'
  BY <1>2, <1>3, <1>4, UnwatchKeeps
<1>7. QED BY <1>4, <1>5, <1>6 DEF ChanGoal, Moved

LEMMA LeaveMeshGoal == ASSUME ChanRest, ChanBooks, NEW v \in Vifs, rwnx_cfg80211_leave_mesh(v) PROVE ChanGoal
<1>1. /\ rwnx_chanctx_unlink(v) /\ RadarAfterUnlink(v)
      /\ chan_stopped' = chan_stopped \ {v} /\ started' = started \ {v} /\ UNCHANGED <<cur_chanctx, switching, chan_msgs>>
  BY DEF rwnx_cfg80211_leave_mesh
<1>2. Moved(v, NULL)
  BY <1>1, UnlinkMoves
<1>3. Homes' /\ Follow'
  BY <1>1, <1>2, LeavesKeeps
<1>4. Watched'
  BY <1>1, <1>2, UnwatchKeeps
<1>5. QED BY <1>2, <1>3, <1>4 DEF ChanGoal, Moved

LEMMA MeshPeerGoal == ASSUME NEW v \in Vifs, rwnx_rx_mesh_peer_update_ind(v) PROVE ChanGoal
BY DEF rwnx_rx_mesh_peer_update_ind, Upset, ChanGoal

LEMMA MonitorGoal == ASSUME ChanRest, ChanBooks, NEW v \in Vifs, rwnx_cfg80211_set_monitor_channel(v) PROVE ChanGoal
<1>1. v \in Vifs \ (started \cup StaVifs)
  BY ChanAssumption DEF rwnx_cfg80211_set_monitor_channel, ChanRest, ChanTypes
<1>2. RadarAfterUnlink(v) /\ UNCHANGED <<cur_chanctx, chan_stopped, started, switching, chan_msgs>>
  BY DEF rwnx_cfg80211_set_monitor_channel
<1>3. ASSUME NEW x \in Chans \cup {NULL}, Moved(v, x) PROVE ChanGoal
  <2>1. Homes' /\ Follow'
    BY <1>1, <1>2, <1>3, AsideKeeps
  <2>2. Watched'
    BY <1>1, <1>2, <1>3, UnwatchKeeps
  <2>3. QED BY <1>3, <2>1, <2>2 DEF ChanGoal, Moved
<1>4. CASE \E c \in Chans : \E defs \in {{}, {c}} : Relink(v, c, defs)
  <2>1. PICK c \in Chans : \E defs \in {{}, {c}} : Relink(v, c, defs)
    BY <1>4
  <2>2. PICK defs \in SUBSET {c} : Relink(v, c, defs)
    BY <2>1
  <2>3. Moved(v, c)
    BY <2>2, RelinkMoves
  <2>4. QED BY <1>3, <2>3
<1>5. CASE rwnx_chanctx_unlink(v)
  BY <1>3, <1>5, UnlinkMoves
<1>6. QED BY <1>4, <1>5 DEF rwnx_cfg80211_set_monitor_channel

LEMMA StationLinksGoal == ASSUME ChanRest, ChanBooks, chan_upset = {}, NEW v \in Vifs, StationLinks(v) PROVE ChanGoal
<1>1. PICK c \in Chans : rwnx_chanctx_link(v, c, {c}) /\ StopUnlessCurrent(v, c) /\ Upset(If(ch_index[v] # NULL, "relink"))
  BY DEF StationLinks
<1>2. switching = "no" /\ UNCHANGED <<cur_chanctx, started, radarVars, switching>> /\ v \notin started
  BY ChanAssumption DEF StationLinks, ChanRest, ChanTypes
<1>3. CASE ch_index[v] # NULL
  BY <1>1, <1>3 DEF ChanGoal, Upset, If
<1>4. CASE ch_index[v] = NULL
  <2>1. Moved(v, c) /\ c \in chan_def'
    BY <1>1, <1>4, LinkMoves
  <2>2. Homes' /\ Follow'
    BY <1>1, <1>2, <2>1, TakesKeeps
  <2>3. Watched'
    BY <1>1, <1>2, <2>1, ElsewhereKeeps DEF radarVars
  <2>4. QED BY <2>1, <2>2, <2>3 DEF ChanGoal, Moved
<1>5. QED BY <1>3, <1>4

LEMMA StationUnlinksGoal == ASSUME ChanRest, ChanBooks, NEW v \in Vifs, StationUnlinks(v) PROVE ChanGoal
<1>1. /\ rwnx_chanctx_unlink(v) /\ RadarAfterUnlink(v) /\ chan_stopped' = chan_stopped \ {v}
      /\ UNCHANGED <<cur_chanctx, started, switching, chan_msgs>>
  BY DEF StationUnlinks
<1>2. started' = started \ {v}
  BY <1>1, ChanAssumption DEF StationUnlinks, ChanRest, ChanTypes
<1>3. Moved(v, NULL)
  BY <1>1, UnlinkMoves
<1>4. Homes' /\ Follow'
  BY <1>1, <1>2, <1>3, LeavesKeeps
<1>5. Watched'
  BY <1>1, <1>2, <1>3, UnwatchKeeps
<1>6. QED BY <1>3, <1>4, <1>5 DEF ChanGoal, Moved

\* An interface takes the channel it was told to switch to.
LEMMA SwitchedGoal ==
    ASSUME ChanRest, ChanBooks, NEW v \in Vifs, NEW c \in Chans, NEW defs \in SUBSET {c}, v \in started => c \in defs,
           chan_upset' = {} => switching = "no",
           Relink(v, c, defs), StopUnlessCurrent(v, c), UNCHANGED <<cur_chanctx, started, switching>>,
           IF c = cur_chanctx THEN rwnx_radar_detection_enable_on_cur_channel(c) ELSE RadarAfterUnlink(v)
    PROVE  ChanGoal
<1>1. Moved(v, c) /\ defs \subseteq chan_def'
  BY RelinkMoves
<1>2. started' \subseteq started \cup {v} /\ (v \in started' => c \in chan_def')
  BY <1>1
<1>3. ASSUME switching = "no" PROVE Homes' /\ Follow'
  BY <1>1, <1>2, <1>3, TakesKeeps
<1>4. CASE c = cur_chanctx
  <2>1. Watched'
    BY <1>1, <1>2, <1>4, EnableKeeps
  <2>2. QED BY <1>1, <1>3, <2>1 DEF ChanGoal, Moved
<1>5. CASE c # cur_chanctx
  <2>1. Watched'
    BY <1>1, <1>5, UnwatchKeeps
  <2>2. QED BY <1>1, <1>3, <2>1 DEF ChanGoal, Moved
<1>6. QED BY <1>4, <1>5

\* The indication the receive thread has in hand.
LEMMA CsaIndIs ==
    ASSUME ChanRest, chan_msgs # <<>>, Head(chan_msgs)[1] = "csa"
    PROVE  /\ Head(chan_msgs)[2] \in ApVifs \cup StaVifs /\ Head(chan_msgs)[3] \in Chans /\ Head(chan_msgs)[4] \in BOOLEAN
<1>1. Head(chan_msgs) \in ChanInds
  BY DEF ChanRest, InOrder
<1>2. PICK v \in ApVifs \cup StaVifs, c \in Chans, ok \in BOOLEAN : Head(chan_msgs) = <<"csa", v, c, ok>>
  BY <1>1 DEF ChanInds, Switch
<1>3. QED BY <1>2

LEMMA CsaFinishIndGoal == ASSUME ChanRest, ChanBooks, rwnx_rx_csa_finish_ind PROVE ChanGoal
<1> DEFINE v == Head(chan_msgs)[2]
           c == Head(chan_msgs)[3]
           ok == Head(chan_msgs)[4]
<1>1. v \in ApVifs \cup StaVifs /\ c \in Chans /\ switching = "no" /\ UNCHANGED <<cur_chanctx, started, switching>>
  BY CsaIndIs DEF rwnx_rx_csa_finish_ind
<1>2. CASE v \notin ApVifs /\ ok
  <2>1. /\ Relink(v, c, {}) /\ StopUnlessCurrent(v, c)
        /\ IF c = cur_chanctx THEN rwnx_radar_detection_enable_on_cur_channel(c) ELSE RadarAfterUnlink(v)
    BY <1>2 DEF rwnx_rx_csa_finish_ind
  <2>2. v \in Vifs /\ v \notin started
    BY <1>1, <1>2, ChanAssumption DEF Vifs, ChanRest, ChanTypes
  <2> HIDE DEF v, c, ok
  <2>3. {} \in SUBSET {c}
    OBVIOUS
  <2>4. QED BY <1>1, <2>1, <2>2, <2>3, SwitchedGoal
<1>3. CASE v \in ApVifs \/ ~ok
  <2>1. UNCHANGED <<books_, chan_stopped, radarVars>>
    BY <1>3 DEF rwnx_rx_csa_finish_ind
  <2>2. QED BY <1>1, <2>1, QuietGoal
<1>4. QED BY <1>2, <1>3

LEMMA CsaFinishGoal == ASSUME ChanRest, ChanBooks, chan_upset = {}, NEW v \in ApVifs, rwnx_csa_finish(v) PROVE ChanGoal
<1>1. csa[v] # NULL /\ UNCHANGED <<cur_chanctx, started, switching, chan_msgs>> /\ v \in Vifs
  BY DEF rwnx_csa_finish, Vifs
<1>2. CASE UNCHANGED <<books_, chan_stopped, radarVars>>
  BY <1>1, <1>2, QuietGoal
<1>3. CASE ~UNCHANGED <<books_, chan_stopped, radarVars>>
  <2> DEFINE c == csa[v].ch
  <2>1. /\ csa[v].ok /\ Relink(v, c, {c}) /\ StopUnlessCurrent(v, c)
        /\ IF c = cur_chanctx THEN rwnx_radar_detection_enable_on_cur_channel(c) ELSE RadarAfterUnlink(v)
        /\ Upset(If(Crossed, "crossed"))
    BY <1>3 DEF rwnx_csa_finish
  <2>2. c \in Chans
    BY <1>1, <2>1 DEF ChanRest, ChanTypes
  <2>3. chan_upset' = {} => switching = "no"
    BY <2>1 DEF Upset, If, Crossed
  <2> HIDE DEF c
  <2>4. QED BY <1>1, <2>1, <2>2, <2>3, SwitchedGoal
<1>4. QED BY <1>2, <1>3

LEMMA StartRadarGoal ==
    ASSUME ChanRest, ChanBooks, chan_upset = {}, NEW v \in Vifs, rwnx_cfg80211_start_radar_detection(v)
    PROVE  ChanGoal
<1>1. /\ v \in Vifs \ (started \cup StaVifs) /\ ch_index[v] = NULL
      /\ UNCHANGED <<cur_chanctx, chan_stopped, started, switching, chan_msgs>>
  BY ChanAssumption DEF rwnx_cfg80211_start_radar_detection
<1>2. CASE UNCHANGED <<books_, radarVars>>
  BY <1>1, <1>2, QuietGoal
<1>3. CASE ~UNCHANGED <<books_, radarVars>>
  <2>1. PICK c \in Chans : /\ rwnx_chanctx_link(v, c, {c})
                           /\ radar_on' = (radar_on \/ c = cur_chanctx) /\ UNCHANGED <<radar_hit, chan_upset>>
    BY <1>3 DEF rwnx_cfg80211_start_radar_detection
  <2>2. Moved(v, c)
    BY <1>1, <2>1, LinkMoves
  <2>3. Homes' /\ Follow'
    BY <1>1, <2>2, AsideKeeps
  <2>4. Watched'
    BY <1>1, <2>1, <2>2, ElsewhereKeeps
  <2>5. QED BY <2>2, <2>3, <2>4 DEF ChanGoal, Moved
<1>4. QED BY <1>2, <1>3

LEMMA CacWorkGoal == ASSUME ChanRest, ChanBooks, rwnx_radar_cac_work PROVE ChanGoal
<1>1. /\ rwnx_chanctx_unlink(cac_vif) /\ RadarAfterUnlink(cac_vif) /\ cac_vif # NULL
      /\ UNCHANGED <<cur_chanctx, chan_stopped, started, switching, chan_msgs>>
  BY DEF rwnx_radar_cac_work, ChanRest, Check
<1>2. cac_vif \in Vifs \ (started \cup StaVifs)
  BY <1>1, CheckIsAside
<1>3. Moved(cac_vif, NULL)
  BY <1>1, <1>2, UnlinkMoves
<1>4. Homes' /\ Follow'
  BY <1>1, <1>2, <1>3, AsideKeeps
<1>5. Watched'
  BY <1>1, <1>2, <1>3, UnwatchKeeps
<1>6. QED BY <1>3, <1>4, <1>5 DEF ChanGoal, Moved

LEMMA DetectedGoal == ASSUME ChanRest, ChanBooks, rwnx_radar_detected PROVE ChanGoal
<1>1. /\ radar_hit' = TRUE /\ UNCHANGED <<cur_chanctx, chan_stopped, started, switching, chan_msgs>>
  BY DEF rwnx_radar_detected
<1>2. Watched'
  BY <1>1 DEF Watched
<1>3. CASE cac_vif # NULL /\ cac_work = "armed"
  <2>1. cac_vif \in Vifs \ (started \cup StaVifs) /\ rwnx_chanctx_unlink(cac_vif)
    BY <1>3, CheckIsAside DEF rwnx_radar_detected
  <2>2. Moved(cac_vif, NULL)
    BY <2>1, UnlinkMoves
  <2>3. Homes' /\ Follow'
    BY <1>1, <2>1, <2>2, AsideKeeps
  <2>4. QED BY <1>2, <2>2, <2>3 DEF ChanGoal, Moved
<1>4. CASE ~(cac_vif # NULL /\ cac_work = "armed")
  <2>1. UNCHANGED books_
    BY <1>4 DEF rwnx_radar_detected
  <2>2. ChanBooks' /\ Homes' /\ Follow'
    BY <1>1, <2>1, QuietKeeps DEF ChanBooks, Users, books_
  <2>3. QED BY <1>2, <2>2 DEF ChanGoal
<1>5. QED BY <1>3, <1>4

-----------------------------------------------------------------------------
\* The radio changes channel: the queues of the old one are stopped, those of the
\* new one started, and then the new one is the current one.

LEMMA PreSwitchGoal == ASSUME ChanRest, ChanBooks, rwnx_rx_chan_pre_switch_ind PROVE ChanGoal
<1>1. /\ switching = "no" /\ switching' = "pre" /\ UNCHANGED <<books_, cur_chanctx, started>>
      /\ chan_stopped' = chan_stopped \cup {v \in Vifs \ MonVifs : ch_index[v] = cur_chanctx /\ ch_index[v] # NULL}
  BY DEF rwnx_rx_chan_pre_switch_ind
<1>2. ChanBooks' /\ Homes' /\ Watched'
  BY <1>1 DEF ChanBooks, Users, books_, Homes, Watched, ChanRest
<1>3. Followers' = Followers
  BY <1>1 DEF Followers, books_
<1>4. ASSUME NEW v \in Followers PROVE v \in chan_stopped'
  <2>1. v \in Vifs \ MonVifs /\ ch_index[v] # NULL
    BY <1>4, ChanAssumption DEF Followers, ChanRest, ChanTypes, Homes, ChanBooks, Vifs
  <2>2. ch_index[v] # cur_chanctx => v \in chan_stopped
    BY <1>1, <1>4 DEF ChanRest, Follow
  <2>3. QED BY <1>1, <2>1, <2>2
<1>5. Follow'
  BY <1>1, <1>3, <1>4 DEF Follow
<1>6. QED BY <1>2, <1>5 DEF ChanGoal

LEMMA SwitchGoal == ASSUME ChanRest, ChanBooks, rwnx_rx_chan_switch_ind PROVE ChanGoal
<1>1. /\ switching = "pre" /\ switching' = "started" /\ UNCHANGED <<books_, cur_chanctx, started, chan_msgs>>
      /\ chan_stopped' = chan_stopped \ {v \in Vifs : ch_index[v] = chan_msgs[1][2]}
  BY DEF rwnx_rx_chan_switch_ind
<1>2. ChanBooks' /\ Homes' /\ Watched'
  BY <1>1 DEF ChanBooks, Users, books_, Homes, Watched, ChanRest
<1>3. Followers' = Followers /\ Followers \subseteq Vifs /\ Followers \subseteq chan_stopped
  BY <1>1 DEF Followers, books_, ChanRest, ChanTypes, Follow, Vifs
<1>4. Follow'
  BY <1>1, <1>3 DEF Follow, books_
<1>5. QED BY <1>2, <1>4 DEF ChanGoal

LEMMA SetCurrentGoal == ASSUME ChanRest, ChanBooks, SetCurrent PROVE ChanGoal
<1>1. /\ switching = "started" /\ switching' = "no" /\ cur_chanctx' = chan_msgs[1][2] /\ chan_def' = chan_def
      /\ UNCHANGED <<ch_index, chan_count, chan_stopped, started>>
      /\ rwnx_radar_detection_enable_on_cur_channel(cur_chanctx')
  BY DEF SetCurrent
<1>2. ChanBooks' /\ Homes'
  BY <1>1 DEF ChanBooks, Users, Homes, ChanRest
<1>3. Followers' = Followers
  BY <1>1 DEF Followers
<1>4. Follow'
  BY <1>1, <1>3 DEF Follow, ChanRest
<1>5. Watched'
  BY <1>1, <1>2 DEF Watched, Homes, rwnx_radar_detection_enable_on_cur_channel
<1>6. QED BY <1>2, <1>4, <1>5 DEF ChanGoal

\* The other steps.
LEMMA OthersGoal ==
    ASSUME ChanRest, ChanBooks,
           \/ \E v \in Vifs : \/ rwnx_cfg80211_start_ap(v) \/ rwnx_cfg80211_join_mesh(v)
                              \/ rwnx_cfg80211_channel_switch(v) \/ FwEndsCsa(v)
           \/ \E v \in ApVifs : CsaWorkStarts(v)
           \/ ChannelSwitchReturns \/ CacWorkStarts \/ FwSwitches
    PROVE  ChanGoal
<1>1. UNCHANGED <<books_, cur_chanctx, chan_stopped, started, switching, radarVars>>
  BY DEF rwnx_cfg80211_start_ap, rwnx_cfg80211_join_mesh, rwnx_cfg80211_channel_switch, FwEndsCsa, CsaWorkStarts,
         ChannelSwitchReturns, CacWorkStarts, FwSwitches
<1>2. ASSUME NEW m, chan_msgs' = Append(chan_msgs, m), switching = "started" PROVE chan_msgs'[1] = chan_msgs[1]
  BY <1>2 DEF ChanRest, InOrder
<1>3. ASSUME FwSwitches, switching = "started" PROVE FALSE
  <2>1. 1 \in DOMAIN chan_msgs /\ chan_msgs[1] \in Switch
    BY <1>3 DEF ChanRest, InOrder
  <2>2. QED BY <1>3, <2>1 DEF FwSwitches, Switch
<1>4. ASSUME NEW v \in Vifs, FwEndsCsa(v), switching = "started" PROVE chan_msgs'[1] = chan_msgs[1]
  BY <1>2, <1>4 DEF FwEndsCsa
<1>5. switching = "started" => chan_msgs'[1] = chan_msgs[1]
  BY <1>3, <1>4 DEF rwnx_cfg80211_start_ap, rwnx_cfg80211_join_mesh, rwnx_cfg80211_channel_switch, CsaWorkStarts,
         ChannelSwitchReturns, CacWorkStarts
<1>6. QED BY <1>1, <1>5, QuietGoal

-----------------------------------------------------------------------------
\* The rest of the invariant.

LEMMA CurrentKept == ASSUME ChanRest, ChanNext PROVE cur_chanctx' \in Chans \cup {NULL}
<1>1. CASE SetCurrent
  <2>1. chan_msgs[1] \in Switch /\ cur_chanctx' = chan_msgs[1][2]
    BY <1>1 DEF SetCurrent, ChanRest, InOrder
  <2>2. QED BY <2>1 DEF Switch
<1>2. CASE ~SetCurrent
  <2>1. UNCHANGED cur_chanctx
    BY <1>2 DEF ChanNext, ReceiveThread, rwnx_cfg80211_start_ap, rwnx_cfg80211_join_mesh, rwnx_cfg80211_stop_ap, rwnx_cfg80211_leave_mesh,
         rwnx_rx_mesh_peer_update_ind, rwnx_cfg80211_set_monitor_channel, StationLinks, StationUnlinks,
         rwnx_cfg80211_channel_switch, rwnx_cfg80211_start_radar_detection, FwEndsCsa, CsaWorkStarts, rwnx_csa_finish,
         StartLink, StopUnlink, LeaveCancels, ChannelSwitchReturns, CacWorkStarts, rwnx_radar_cac_work, rwnx_radar_detected,
         rwnx_rx_csa_finish_ind, rwnx_rx_chan_pre_switch_ind, rwnx_rx_chan_switch_ind, FwSwitches
  <2>2. QED BY <2>1 DEF ChanRest, ChanTypes
<1>3. QED BY <1>1, <1>2

LEMMA StartedKept == ASSUME ChanRest, ChanNext PROVE started' \subseteq ApVifs \cup MeshVifs
<1>1. CASE StartLink
  BY <1>1 DEF StartLink, ChanRest, ChanTypes, ChanOpShape
<1>2. CASE ~StartLink
  <2>1. started' \subseteq started
    BY <1>2 DEF ChanNext, ReceiveThread, rwnx_cfg80211_start_ap, rwnx_cfg80211_join_mesh, rwnx_cfg80211_stop_ap, rwnx_cfg80211_leave_mesh,
         rwnx_rx_mesh_peer_update_ind, rwnx_cfg80211_set_monitor_channel, StationLinks, StationUnlinks,
         rwnx_cfg80211_channel_switch, rwnx_cfg80211_start_radar_detection, FwEndsCsa, CsaWorkStarts, rwnx_csa_finish,
         StopUnlink, LeaveCancels, ChannelSwitchReturns, CacWorkStarts, rwnx_radar_cac_work, rwnx_radar_detected,
         rwnx_rx_csa_finish_ind, rwnx_rx_chan_pre_switch_ind, rwnx_rx_chan_switch_ind, SetCurrent, FwSwitches
  <2>2. QED BY <2>1 DEF ChanRest, ChanTypes
<1>3. QED BY <1>1, <1>2

LEMMA SwitchingKept == ASSUME ChanRest, ChanNext PROVE switching' \in {"no", "pre", "started"}
BY DEF ChanRest, ChanTypes, ChanNext, ReceiveThread, rwnx_cfg80211_start_ap, rwnx_cfg80211_join_mesh, rwnx_cfg80211_stop_ap, rwnx_cfg80211_leave_mesh,
       rwnx_rx_mesh_peer_update_ind, rwnx_cfg80211_set_monitor_channel, StationLinks, StationUnlinks,
       rwnx_cfg80211_channel_switch, rwnx_cfg80211_start_radar_detection, FwEndsCsa, CsaWorkStarts, rwnx_csa_finish,
       StartLink, StopUnlink, LeaveCancels, ChannelSwitchReturns, CacWorkStarts, rwnx_radar_cac_work, rwnx_radar_detected,
       rwnx_rx_csa_finish_ind, rwnx_rx_chan_pre_switch_ind, rwnx_rx_chan_switch_ind, SetCurrent, FwSwitches

LEMMA RadarKept == ASSUME ChanRest, ChanNext PROVE radar_on' \in BOOLEAN /\ radar_hit' \in BOOLEAN
<1>1. radar_on \in BOOLEAN /\ radar_hit \in BOOLEAN
  BY DEF ChanRest, ChanTypes
<1>2. ASSUME UNCHANGED radarVars PROVE radar_on' \in BOOLEAN /\ radar_hit' \in BOOLEAN
  BY <1>1, <1>2 DEF radarVars
<1>3. ASSUME NEW v, RadarAfterUnlink(v) PROVE radar_on' \in BOOLEAN /\ radar_hit' \in BOOLEAN
  BY <1>1, <1>3 DEF RadarAfterUnlink
<1>4. ASSUME NEW c, rwnx_radar_detection_enable_on_cur_channel(c) PROVE radar_on' \in BOOLEAN /\ radar_hit' \in BOOLEAN
  <2>1. (c \in RadarChans) \in BOOLEAN /\ (radar_hit /\ c = cur_chanctx) \in BOOLEAN
    OBVIOUS
  <2>2. (radar_on' = radar_on \/ radar_on' = (c \in RadarChans)) /\ radar_hit' = (radar_hit /\ c = cur_chanctx)
    BY <1>4 DEF rwnx_radar_detection_enable_on_cur_channel
  <2>3. QED BY <1>1, <2>1, <2>2
<1>5. CASE \/ \E v \in Vifs : rwnx_cfg80211_start_ap(v) \/ rwnx_cfg80211_join_mesh(v) \/ rwnx_rx_mesh_peer_update_ind(v)
                              \/ StationLinks(v) \/ rwnx_cfg80211_channel_switch(v) \/ FwEndsCsa(v)
           \/ \E v \in ApVifs : CsaWorkStarts(v)
           \/ ChannelSwitchReturns \/ CacWorkStarts \/ rwnx_rx_chan_pre_switch_ind \/ rwnx_rx_chan_switch_ind \/ FwSwitches
  BY <1>2, <1>5 DEF rwnx_cfg80211_start_ap, rwnx_cfg80211_join_mesh, rwnx_rx_mesh_peer_update_ind, StationLinks,
        rwnx_cfg80211_channel_switch, FwEndsCsa, CsaWorkStarts, ChannelSwitchReturns, CacWorkStarts,
        rwnx_rx_chan_pre_switch_ind, rwnx_rx_chan_switch_ind, FwSwitches
<1>6. CASE \/ \E v \in Vifs : rwnx_cfg80211_leave_mesh(v) \/ rwnx_cfg80211_set_monitor_channel(v) \/ StationUnlinks(v)
           \/ StopUnlink \/ rwnx_radar_cac_work
  BY <1>3, <1>6 DEF rwnx_cfg80211_leave_mesh, rwnx_cfg80211_set_monitor_channel, StationUnlinks, StopUnlink, rwnx_radar_cac_work
<1>7. CASE (\E v \in Vifs : rwnx_cfg80211_stop_ap(v)) \/ LeaveCancels
  BY <1>2, <1>3, <1>7 DEF rwnx_cfg80211_stop_ap, LeaveCancels, rwnx_radar_cancel_cac, radarVars
<1>8. CASE \/ StartLink \/ rwnx_rx_csa_finish_ind \/ SetCurrent \/ \E v \in ApVifs : rwnx_csa_finish(v)
  BY <1>2, <1>3, <1>4, <1>8 DEF StartLink, rwnx_rx_csa_finish_ind, SetCurrent, rwnx_csa_finish
<1>9. CASE (\E v \in Vifs : rwnx_cfg80211_start_radar_detection(v)) \/ rwnx_radar_detected
  BY <1>1, <1>2, <1>9 DEF rwnx_cfg80211_start_radar_detection, rwnx_radar_detected
<1>10. QED BY <1>5, <1>6, <1>7, <1>8, <1>9 DEF ChanNext, ReceiveThread

\* The announcements.
CsaShape == /\ csa \in [ApVifs -> Announced \cup {NULL}]
            /\ \A v \in ApVifs : csa[v] # NULL /\ csa[v].ok = TRUE => csa[v].ch \in Chans

LEMMA CsaKept == ASSUME ChanRest, ChanNext PROVE CsaShape'
<1>1. CsaShape
  BY DEF CsaShape, ChanRest, ChanTypes
<1>2. ASSUME NEW v \in ApVifs, NEW a \in Announced \cup {NULL}, csa' = [csa EXCEPT ![v] = a],
             a # NULL /\ a.ok = TRUE => a.ch \in Chans
      PROVE  CsaShape'
  BY <1>1, <1>2 DEF CsaShape
<1>3. ASSUME UNCHANGED csa PROVE CsaShape'
  BY <1>1, <1>3 DEF CsaShape
<1>4. ASSUME NEW v \in ApVifs, csa' = [csa EXCEPT ![v] = NULL] PROVE CsaShape'
  BY <1>2, <1>4
<1>5. ASSUME NEW v \in ApVifs, csa[v] # NULL, NEW w \in {"idle", "runs"}, csa' = [csa EXCEPT ![v].work = w] PROVE CsaShape'
  <2>1. csa[v] \in Announced /\ csa' = [csa EXCEPT ![v] = [csa[v] EXCEPT !.work = w]]
    BY <1>1, <1>5 DEF CsaShape
  <2>2. [csa[v] EXCEPT !.work = w] \in Announced
    BY <2>1 DEF Announced
  <2>3. [csa[v] EXCEPT !.work = w].ok = csa[v].ok /\ [csa[v] EXCEPT !.work = w].ch = csa[v].ch
    BY <2>1 DEF Announced
  <2>4. csa[v].ok = TRUE => csa[v].ch \in Chans
    BY <1>1, <1>5 DEF CsaShape
  <2>5. QED BY <1>2, <2>1, <2>2, <2>3, <2>4
<1>6. CASE StartLink
  <2>1. csa' = csa \/ \E v \in ApVifs : csa' = [csa EXCEPT ![v] = NULL]
    BY <1>6 DEF StartLink
  <2>2. QED BY <1>3, <1>4, <2>1
<1>7. CASE StopUnlink
  <2>1. PICK v \in ApVifs : chan_op = <<"stop", v>>
    BY <1>7 DEF StopUnlink, ChanRest, ChanOpShape
  <2>2. csa' = [csa EXCEPT ![v] = NULL]
    BY <1>7, <2>1 DEF StopUnlink, rwnx_del_csa
  <2>3. QED BY <1>4, <2>2
<1>8. CASE \E v \in Vifs : rwnx_cfg80211_channel_switch(v)
  <2>1. PICK v \in ApVifs : csa' = [csa EXCEPT ![v] = [work |-> "raw", ch |-> NULL, ok |-> FALSE]]
    BY <1>8 DEF rwnx_cfg80211_channel_switch
  <2>2. [work |-> "raw", ch |-> NULL, ok |-> FALSE] \in Announced
    BY DEF Announced
  <2>3. QED BY <1>2, <2>1, <2>2
<1>9. CASE ChannelSwitchReturns
  <2>1. PICK v \in ApVifs : chan_op = <<"csa", v>>
    BY <1>9 DEF ChannelSwitchReturns, ChanRest, ChanOpShape
  <2>2. csa' = [csa EXCEPT ![v].work = "idle"] \/ csa' = [csa EXCEPT ![v] = NULL]
    BY <1>9, <2>1 DEF ChannelSwitchReturns, rwnx_del_csa
  <2>3. csa[v] # NULL
    BY <2>1 DEF ChanRest, ChanOpShape
  <2>4. QED BY <1>4, <1>5, <2>2, <2>3
<1>10. CASE rwnx_rx_csa_finish_ind
  <2> DEFINE v == Head(chan_msgs)[2]
             c == Head(chan_msgs)[3]
             ok == Head(chan_msgs)[4]
  <2>1. c \in Chans /\ ok \in BOOLEAN
    BY <1>10, CsaIndIs DEF rwnx_rx_csa_finish_ind
  <2>2. csa' = csa \/ (v \in ApVifs /\ csa' = [csa EXCEPT ![v] = QueueCsa(c, ok)])
    BY <1>10 DEF rwnx_rx_csa_finish_ind
  <2> HIDE DEF v, c, ok
  <2>3. QueueCsa(c, ok) \in Announced /\ QueueCsa(c, ok).ch = c
    BY <2>1 DEF QueueCsa, Announced
  <2>4. QED BY <1>2, <1>3, <2>1, <2>2, <2>3
<1>11. CASE \E v \in ApVifs : CsaWorkStarts(v)
  BY <1>5, <1>11 DEF CsaWorkStarts
<1>12. CASE \E v \in ApVifs : rwnx_csa_finish(v)
  BY <1>4, <1>5, <1>12 DEF rwnx_csa_finish
<1>13. CASE \/ \E v \in Vifs :
                 \/ rwnx_cfg80211_start_ap(v) \/ rwnx_cfg80211_join_mesh(v) \/ rwnx_cfg80211_stop_ap(v)
                 \/ rwnx_cfg80211_leave_mesh(v) \/ rwnx_rx_mesh_peer_update_ind(v)
                 \/ rwnx_cfg80211_set_monitor_channel(v) \/ StationLinks(v) \/ StationUnlinks(v)
                 \/ rwnx_cfg80211_start_radar_detection(v) \/ FwEndsCsa(v)
            \/ LeaveCancels \/ CacWorkStarts \/ rwnx_radar_cac_work \/ rwnx_radar_detected
            \/ rwnx_rx_chan_pre_switch_ind \/ rwnx_rx_chan_switch_ind \/ SetCurrent \/ FwSwitches
  BY <1>3, <1>13 DEF rwnx_cfg80211_start_ap, rwnx_cfg80211_join_mesh, rwnx_cfg80211_stop_ap, rwnx_cfg80211_leave_mesh,
       rwnx_rx_mesh_peer_update_ind, rwnx_cfg80211_set_monitor_channel, StationLinks, StationUnlinks,
       rwnx_cfg80211_start_radar_detection, FwEndsCsa, LeaveCancels, CacWorkStarts, rwnx_radar_cac_work, rwnx_radar_detected,
       rwnx_rx_chan_pre_switch_ind, rwnx_rx_chan_switch_ind, SetCurrent, FwSwitches
<1>14. QED BY <1>6, <1>7, <1>8, <1>9, <1>10, <1>11, <1>12, <1>13 DEF ChanNext, ReceiveThread

\* A step keeps the operation's shape, and the check away from it.
LEMMA CheckKept == ASSUME ChanRest, ChanNext, chan_upset' = {} PROVE ChanOpShape' /\ Check'
<1>1. ChanOpShape /\ Check /\ started \subseteq ApVifs \cup MeshVifs /\ chan_upset = {}
  BY DEF ChanRest, ChanTypes, ChanNext
<1>2. NULL \notin ApVifs \cup MeshVifs
  BY ChanAssumption DEF Vifs
<1>3. ASSUME UNCHANGED <<chan_op, cacVars>>, started' \subseteq started, \A v \in ApVifs : csa[v] # NULL => csa'[v] # NULL PROVE ChanOpShape' /\ Check'
  BY <1>1, <1>3 DEF ChanOpShape, Check, cacVars
<1>4. ASSUME UNCHANGED <<chan_op, started, csa>>, cac_vif' = NULL, cac_work' = "idle" PROVE ChanOpShape' /\ Check'
  BY <1>1, <1>2, <1>4 DEF ChanOpShape, Check
<1>5. ASSUME UNCHANGED <<cacVars, started>>, chan_op' = <<"idle">> \/ \E v \in ApVifs : chan_op' = <<"stop", v>> \/ (chan_op' = <<"csa", v>> /\ csa'[v] # NULL)
      PROVE  ChanOpShape' /\ Check'
  <2>1. ChanOpShape' /\ chan_op'[1] # "start"
    BY <1>5 DEF ChanOpShape
  <2>2. QED BY <1>1, <1>5, <2>1 DEF Check, cacVars
<1>6. ASSUME NEW v \in ApVifs \cup MeshVifs, v # cac_vif, NEW c \in Chans, chan_op' = <<"start", v, c>>, UNCHANGED <<cacVars, started>>
      PROVE  ChanOpShape' /\ Check'
  BY <1>1, <1>6 DEF ChanOpShape, Check, cacVars
<1>7. CASE \E v \in Vifs : rwnx_cfg80211_start_ap(v)
  BY <1>6, <1>7 DEF rwnx_cfg80211_start_ap
<1>8. CASE \E v \in Vifs : rwnx_cfg80211_join_mesh(v)
  <2>1. PICK v \in MeshVifs, c \in Chans : chan_op' = <<"start", v, c>>
    BY <1>8 DEF rwnx_cfg80211_join_mesh
  <2>2. v # cac_vif
    BY <1>1, <1>2, ChanAssumption DEF Check
  <2>3. UNCHANGED <<cacVars, started>>
    BY <1>8 DEF rwnx_cfg80211_join_mesh
  <2>4. QED BY <1>6, <2>1, <2>2, <2>3
<1>9. CASE StartLink
  <2>1. PICK v \in ApVifs \cup MeshVifs, c \in Chans : chan_op = <<"start", v, c>>
    BY <1>1, <1>9 DEF StartLink, ChanOpShape
  <2>2. started' = started \cup {v} /\ chan_op' = <<"idle">> /\ UNCHANGED cacVars
    BY <1>9, <2>1 DEF StartLink
  <2>3. cac_vif # v /\ chan_op'[1] # "start"
    BY <1>1, <2>1, <2>2 DEF Check
  <2>4. QED BY <1>1, <2>2, <2>3 DEF ChanOpShape, Check, cacVars
<1>10. CASE (\E v \in Vifs : rwnx_cfg80211_stop_ap(v)) \/ LeaveCancels
  <2>1. chan_op' = <<"idle">> \/ \E v \in ApVifs : chan_op' = <<"stop", v>>
    BY <1>10 DEF rwnx_cfg80211_stop_ap, LeaveCancels
  <2>2. cac_vif' = NULL /\ (cac_work = "armed" /\ cac_vif # NULL => cac_work' = "idle") /\ cac_work # "runs" /\ UNCHANGED started
        /\ (cac_vif = NULL => UNCHANGED cac_work)
    BY <1>10 DEF rwnx_cfg80211_stop_ap, LeaveCancels, rwnx_radar_cancel_cac, Upset, If
  <2>3. cac_work \in {"idle", "armed", "runs"}
    BY DEF ChanRest, Check
  <2>4. cac_work' = "idle"
    BY <1>1, <2>2, <2>3 DEF Check
  <2>5. chan_op'[1] # "start"
    BY <2>1
  <2>6. QED BY <1>1, <1>2, <2>1, <2>2, <2>4, <2>5 DEF ChanOpShape, Check
<1>11. CASE StopUnlink
  <2>1. chan_op' = <<"idle">> /\ UNCHANGED cacVars /\ started' \subseteq started
    BY <1>11 DEF StopUnlink
  <2>2. chan_op'[1] # "start"
    BY <2>1
  <2>3. QED BY <1>1, <2>1, <2>2 DEF ChanOpShape, Check, cacVars
<1>12. CASE ChannelSwitchReturns
  BY <1>5, <1>12 DEF ChannelSwitchReturns
<1>13. CASE \E v \in Vifs : rwnx_cfg80211_channel_switch(v)
  <2> DEFINE raw == [work |-> "raw", ch |-> NULL, ok |-> FALSE]
  <2>1. PICK v \in ApVifs : csa' = [csa EXCEPT ![v] = raw] /\ chan_op' = <<"csa", v>> /\ UNCHANGED <<cacVars, started>>
    BY <1>13 DEF rwnx_cfg80211_channel_switch
  <2>2. raw # NULL
    <3>1. raw \in Announced
      BY DEF Announced
    <3>2. QED BY <3>1, ChanAssumption
  <2>3. csa'[v] # NULL
    BY <2>1, <2>2 DEF ChanRest, ChanTypes
  <2>4. QED BY <1>5, <2>1, <2>3
<1>14. CASE \E v \in ApVifs : rwnx_csa_finish(v)
  <2>1. PICK v \in ApVifs : rwnx_csa_finish(v)
    BY <1>14
  <2>2. (chan_op' = <<"idle">> \/ chan_op' = <<"stop", v>>) /\ UNCHANGED <<cacVars, started>>
    BY <2>1 DEF rwnx_csa_finish
  <2>3. QED BY <1>5, <2>2
<1>15. CASE \E v \in Vifs : rwnx_cfg80211_start_radar_detection(v)
  <2>1. PICK v \in ApVifs \ started : cac_vif' = v /\ cac_work' = "armed" /\ UNCHANGED <<started, chan_op>> /\ chan_op = <<"idle">>
    BY <1>15 DEF rwnx_cfg80211_start_radar_detection, ChanIdle
  <2>2. chan_op'[1] # "start" /\ v # NULL
    BY <1>2, <2>1
  <2>3. QED BY <1>1, <2>1, <2>2 DEF ChanOpShape, Check
<1>16. CASE CacWorkStarts
  BY <1>1, <1>16 DEF CacWorkStarts, ChanOpShape, Check
<1>17. CASE rwnx_radar_cac_work
  BY <1>4, <1>17 DEF rwnx_radar_cac_work
<1>18. CASE rwnx_radar_detected
  <2>1. cac_vif' = NULL /\ (cac_work = "armed" /\ cac_vif # NULL => cac_work' = "idle") /\ cac_work # "runs" /\ UNCHANGED <<chan_op, started, csa>>
        /\ (cac_vif = NULL => UNCHANGED cac_work)
    BY <1>18 DEF rwnx_radar_detected, Upset, If
  <2>2. cac_work' = "idle"
    BY <1>1, <2>1 DEF Check
  <2>3. QED BY <1>4, <2>1, <2>2
<1>19. CASE \E v \in ApVifs : CsaWorkStarts(v)
  <2>1. PICK v \in ApVifs : csa[v] # NULL /\ csa' = [csa EXCEPT ![v].work = "runs"]
    BY <1>19 DEF CsaWorkStarts
  <2>2. csa[v] \in Announced /\ csa' = [csa EXCEPT ![v] = [csa[v] EXCEPT !.work = "runs"]] /\ csa'[v] = [csa[v] EXCEPT !.work = "runs"]
    BY <2>1 DEF ChanRest, ChanTypes
  <2>3. [csa[v] EXCEPT !.work = "runs"] \in Announced
    BY <2>2 DEF Announced
  <2>4. csa'[v] # NULL
    BY <2>2, <2>3, ChanAssumption
  <2>5. \A u \in ApVifs : csa[u] # NULL => csa'[u] # NULL
    BY <2>2, <2>4 DEF ChanRest, ChanTypes
  <2>6. UNCHANGED <<chan_op, cacVars, started>>
    BY <1>19 DEF CsaWorkStarts
  <2>7. QED BY <1>3, <2>5, <2>6
<1>20. CASE rwnx_rx_csa_finish_ind
  <2> DEFINE v == Head(chan_msgs)[2]
             c == Head(chan_msgs)[3]
             ok == Head(chan_msgs)[4]
  <2>1. c \in Chans /\ ok \in BOOLEAN
    BY <1>20, CsaIndIs DEF rwnx_rx_csa_finish_ind
  <2>2. csa' = csa \/ (v \in ApVifs /\ csa' = [csa EXCEPT ![v] = QueueCsa(c, ok)])
    BY <1>20 DEF rwnx_rx_csa_finish_ind
  <2>3. UNCHANGED <<chan_op, cacVars, started>>
    BY <1>20 DEF rwnx_rx_csa_finish_ind
  <2> HIDE DEF v, c, ok
  <2>4. QueueCsa(c, ok) # NULL
    BY <2>1, ChanAssumption DEF QueueCsa, Announced
  <2>5. \A u \in ApVifs : csa[u] # NULL => csa'[u] # NULL
    BY <2>2, <2>4 DEF ChanRest, ChanTypes
  <2>6. QED BY <1>3, <2>3, <2>5
<1>21. CASE \/ \E v \in Vifs :
                 \/ rwnx_rx_mesh_peer_update_ind(v)
                 \/ rwnx_cfg80211_set_monitor_channel(v) \/ StationLinks(v) \/ StationUnlinks(v) \/ FwEndsCsa(v)
            \/ rwnx_rx_chan_pre_switch_ind \/ rwnx_rx_chan_switch_ind \/ SetCurrent \/ FwSwitches
  BY <1>3, <1>21 DEF rwnx_rx_mesh_peer_update_ind, rwnx_cfg80211_set_monitor_channel,
       StationLinks, StationUnlinks, FwEndsCsa, rwnx_rx_chan_pre_switch_ind,
       rwnx_rx_chan_switch_ind, SetCurrent, FwSwitches
<1>22. CASE \E v \in Vifs : rwnx_cfg80211_leave_mesh(v)
  <2>1. chan_op' = <<"left">> /\ UNCHANGED cacVars /\ started' \subseteq started
    BY <1>22 DEF rwnx_cfg80211_leave_mesh
  <2>2. chan_op'[1] # "start"
    BY <2>1
  <2>3. QED BY <1>1, <2>1, <2>2 DEF ChanOpShape, Check, cacVars
<1>23. QED BY <1>7, <1>8, <1>9, <1>10, <1>11, <1>12, <1>14, <1>15, <1>16, <1>17, <1>18, <1>21, <1>13, <1>19, <1>20, <1>22 DEF ChanNext, ReceiveThread

\* The receive thread takes the indications in their order, the firmware adds to them.
LEMMA OrderKept == ASSUME ChanRest, ChanNext PROVE InOrder'
<1>1. /\ InOrder /\ chan_msgs \in Seq(ChanInds)
  BY DEF ChanRest, InOrder
<1>2. ASSUME UNCHANGED <<chan_msgs, switching>> PROVE InOrder'
  BY <1>1, <1>2 DEF InOrder
<1>3. ASSUME chan_msgs # <<>>, chan_msgs' = Tail(chan_msgs), switching' # "no" => chan_msgs[1] = <<"pre">>
      PROVE  InOrder'
  <2>1. chan_msgs' \in Seq(ChanInds) /\ Len(chan_msgs') = Len(chan_msgs) - 1
        /\ \A i \in 1 .. Len(chan_msgs') : chan_msgs'[i] = chan_msgs[i + 1]
    BY <1>1, <1>3
  <2>2. \A i \in 1 .. Len(chan_msgs') : i + 1 \in 1 .. Len(chan_msgs)
    BY <1>1, <2>1
  <2>3. ASSUME NEW i \in 1 .. Len(chan_msgs'), chan_msgs'[i] = <<"pre">>
        PROVE  i + 1 <= Len(chan_msgs') /\ chan_msgs'[i + 1] \in Switch
    <3>1. chan_msgs[i + 1] = <<"pre">> /\ i + 1 \in 1 .. Len(chan_msgs)
      BY <2>1, <2>2, <2>3
    <3>2. (i + 1) + 1 <= Len(chan_msgs) /\ chan_msgs[(i + 1) + 1] \in Switch
      BY <1>1, <3>1 DEF InOrder
    <3>3. Len(chan_msgs) \in Nat /\ i \in Nat
      BY <1>1, <2>3
    <3>4. i + 1 <= Len(chan_msgs') /\ i + 1 \in 1 .. Len(chan_msgs')
      BY <2>1, <3>2, <3>3
    <3>5. QED BY <2>1, <3>2, <3>4
  <2>4. ASSUME chan_msgs[1] = <<"pre">> PROVE chan_msgs' # <<>> /\ chan_msgs'[1] \in Switch
    <3>1. 1 \in 1 .. Len(chan_msgs)
      BY <1>1, <1>3
    <3>2. 1 + 1 <= Len(chan_msgs) /\ chan_msgs[1 + 1] \in Switch
      BY <1>1, <2>4, <3>1 DEF InOrder
    <3>3. Len(chan_msgs) \in Nat /\ 1 \in 1 .. Len(chan_msgs')
      BY <1>1, <2>1, <3>2
    <3>4. chan_msgs'[1] = chan_msgs[1 + 1] /\ Len(chan_msgs') # 0
      BY <2>1, <3>3
    <3>5. QED BY <2>1, <3>2, <3>4
  <2>5. QED BY <1>3, <2>1, <2>3, <2>4 DEF InOrder
<1>4. ASSUME NEW m \in ChanInds, m # <<"pre">>, chan_msgs' = Append(chan_msgs, m), UNCHANGED switching PROVE InOrder'
  <2>1. /\ chan_msgs' \in Seq(ChanInds) /\ Len(chan_msgs') = Len(chan_msgs) + 1 /\ Len(chan_msgs) \in Nat
        /\ \A i \in 1 .. Len(chan_msgs) : chan_msgs'[i] = chan_msgs[i]
        /\ chan_msgs'[Len(chan_msgs) + 1] = m
    BY <1>1, <1>4
  <2>2. ASSUME NEW i \in 1 .. Len(chan_msgs'), chan_msgs'[i] = <<"pre">>
        PROVE  i + 1 <= Len(chan_msgs') /\ chan_msgs'[i + 1] \in Switch
    <3>1. i \in 1 .. Len(chan_msgs) \/ i = Len(chan_msgs) + 1
      BY <2>1, <2>2
    <3>2. i # Len(chan_msgs) + 1
      BY <1>4, <2>1, <2>2
    <3>3. i \in 1 .. Len(chan_msgs) /\ chan_msgs[i] = <<"pre">>
      BY <2>1, <2>2, <3>1, <3>2
    <3>4. i + 1 <= Len(chan_msgs) /\ chan_msgs[i + 1] \in Switch
      BY <1>1, <3>3 DEF InOrder
    <3>5. i + 1 <= Len(chan_msgs') /\ i + 1 \in 1 .. Len(chan_msgs)
      BY <2>1, <3>3, <3>4
    <3>6. QED BY <2>1, <3>4, <3>5
  <2>3. switching # "no" => chan_msgs' # <<>> /\ chan_msgs'[1] \in Switch
    <3>1. ASSUME switching # "no" PROVE 1 \in 1 .. Len(chan_msgs) /\ chan_msgs[1] \in Switch
      BY <1>1, <3>1 DEF InOrder
    <3>2. QED BY <2>1, <3>1
  <2>4. QED BY <1>4, <2>1, <2>2, <2>3 DEF InOrder
<1>5. CASE FwSwitches
  <2>1. PICK c \in Chans : chan_msgs' = chan_msgs \o <<<<"pre">>, <<"switch", c>>>>
    BY <1>5 DEF FwSwitches
  <2> DEFINE two == <<<<"pre">>, <<"switch", c>>>>
             n == Len(chan_msgs)
  <2>2. two \in Seq(ChanInds) /\ Len(two) = 2 /\ two[1] = <<"pre">> /\ two[2] = <<"switch", c>> /\ <<"switch", c>> \in Switch
    BY DEF ChanInds, Switch
  <2> HIDE DEF two
  <2>3. chan_msgs' = chan_msgs \o two
    BY <2>1 DEF two
  <2>4. /\ chan_msgs' \in Seq(ChanInds) /\ Len(chan_msgs') = n + 2 /\ n \in Nat
        /\ \A i \in 1 .. n : chan_msgs'[i] = chan_msgs[i]
        /\ chan_msgs'[n + 1] = <<"pre">> /\ chan_msgs'[n + 2] = <<"switch", c>>
    <3>1. /\ chan_msgs \o two \in Seq(ChanInds)
          /\ Len(chan_msgs \o two) = n + Len(two)
          /\ \A i \in 1 .. n + Len(two) : (chan_msgs \o two)[i] = IF i <= n THEN chan_msgs[i] ELSE two[i - n]
      BY <1>1, <2>2, ConcatProperties
    <3>2. n \in Nat
      BY <1>1
    <3>3. n \in Nat /\ chan_msgs' \in Seq(ChanInds) /\ Len(chan_msgs') = n + 2
      BY <2>2, <2>3, <3>1, <3>2
    <3>4. \A i \in 1 .. n + 2 : chan_msgs'[i] = IF i <= n THEN chan_msgs[i] ELSE two[i - n]
      BY <2>2, <2>3, <3>1
    <3>5. n + 1 \in 1 .. n + 2 /\ n + 2 \in 1 .. n + 2 /\ (n + 1) - n = 1 /\ (n + 2) - n = 2 /\ ~(n + 1 <= n) /\ ~(n + 2 <= n)
      BY <3>3
    <3>6. \A i \in 1 .. n : i <= n /\ i \in 1 .. n + 2
      BY <3>3
    <3>7. QED BY <2>2, <3>3, <3>4, <3>5, <3>6
  <2>5. <<"switch", c>> # <<"pre">>
    OBVIOUS
  <2>6. ASSUME NEW i \in 1 .. Len(chan_msgs'), chan_msgs'[i] = <<"pre">>
        PROVE  i + 1 <= Len(chan_msgs') /\ chan_msgs'[i + 1] \in Switch
    <3>1. CASE i \in 1 .. n
      <4>1. i + 1 <= n /\ chan_msgs[i + 1] \in Switch
        BY <1>1, <2>4, <2>6, <3>1 DEF InOrder
      <4>2. QED BY <2>4, <3>1, <4>1
    <3>2. CASE i = n + 1
      <4>1. i + 1 = n + 2 /\ i + 1 <= Len(chan_msgs')
        BY <2>4, <3>2
      <4>2. QED BY <2>2, <2>4, <4>1
    <3>3. CASE i = n + 2
      BY <2>4, <2>5, <2>6, <3>3
    <3>4. i = n + 1 \/ i = n + 2 \/ i \in 1 .. n
      BY <2>4, <2>6
    <3>5. QED BY <3>1, <3>2, <3>3, <3>4
  <2>7. switching = "no"
    <3>1. ASSUME switching # "no" PROVE FALSE
      <4>1. 1 \in DOMAIN chan_msgs /\ chan_msgs[1] \in Switch
        BY <1>1, <3>1 DEF InOrder
      <4>2. QED BY <1>5, <4>1 DEF FwSwitches, Switch
    <3>2. QED BY <3>1
  <2>8. UNCHANGED switching
    BY <1>5 DEF FwSwitches
  <2>9. QED BY <2>4, <2>6, <2>7, <2>8 DEF InOrder
<1>6. CASE \E v \in Vifs : FwEndsCsa(v)
  <2>1. PICK v \in ApVifs \cup StaVifs, c \in Chans, ok \in BOOLEAN : chan_msgs' = Append(chan_msgs, <<"csa", v, c, ok>>)
    BY <1>6 DEF FwEndsCsa
  <2>2. <<"csa", v, c, ok>> \in ChanInds /\ <<"csa", v, c, ok>> # <<"pre">>
    BY DEF ChanInds
  <2>3. UNCHANGED switching
    BY <1>6 DEF FwEndsCsa
  <2>4. QED BY <1>4, <2>1, <2>2, <2>3
<1>7. CASE rwnx_rx_csa_finish_ind \/ SetCurrent
  <2>1. switching' = "no" /\ chan_msgs' = Tail(chan_msgs) /\ chan_msgs # <<>>
    BY <1>1, <1>7 DEF rwnx_rx_csa_finish_ind, SetCurrent, InOrder
  <2>2. QED BY <1>3, <2>1
<1>8. CASE rwnx_rx_chan_pre_switch_ind
  <2>1. chan_msgs[1] \in ChanInds /\ chan_msgs[1][1] = "pre" /\ chan_msgs' = Tail(chan_msgs) /\ chan_msgs # <<>>
    BY <1>1, <1>8 DEF rwnx_rx_chan_pre_switch_ind
  <2>2. chan_msgs[1] = <<"pre">>
    BY <2>1 DEF ChanInds, Switch
  <2>3. QED BY <1>3, <2>1, <2>2
<1>9. CASE rwnx_rx_chan_switch_ind
  BY <1>1, <1>9 DEF rwnx_rx_chan_switch_ind, InOrder
<1>10. CASE \/ \E v \in Vifs :
                 \/ rwnx_cfg80211_start_ap(v) \/ rwnx_cfg80211_join_mesh(v) \/ rwnx_cfg80211_stop_ap(v)
                 \/ rwnx_cfg80211_leave_mesh(v) \/ rwnx_rx_mesh_peer_update_ind(v)
                 \/ rwnx_cfg80211_set_monitor_channel(v) \/ StationLinks(v) \/ StationUnlinks(v)
                 \/ rwnx_cfg80211_channel_switch(v) \/ rwnx_cfg80211_start_radar_detection(v)
            \/ \E v \in ApVifs : CsaWorkStarts(v) \/ rwnx_csa_finish(v)
            \/ StartLink \/ StopUnlink \/ LeaveCancels \/ ChannelSwitchReturns
            \/ CacWorkStarts \/ rwnx_radar_cac_work \/ rwnx_radar_detected
  BY <1>2, <1>10 DEF rwnx_cfg80211_start_ap, rwnx_cfg80211_join_mesh, rwnx_cfg80211_stop_ap, rwnx_cfg80211_leave_mesh,
       rwnx_rx_mesh_peer_update_ind, rwnx_cfg80211_set_monitor_channel, StationLinks, StationUnlinks, rwnx_cfg80211_channel_switch,
       rwnx_cfg80211_start_radar_detection, CsaWorkStarts, rwnx_csa_finish, StartLink, StopUnlink, LeaveCancels, ChannelSwitchReturns,
       CacWorkStarts, rwnx_radar_cac_work, rwnx_radar_detected
<1>11. QED BY <1>5, <1>6, <1>7, <1>8, <1>9, <1>10 DEF ChanNext, ReceiveThread

-----------------------------------------------------------------------------
LEMMA ChanBegins == ASSUME ChanInit PROVE ChanIInv
<1>1. ChanBooks
  <2>1. \A c \in Chans : Users(c) = {}
    BY ChanAssumption DEF Users, ChanInit
  <2>2. QED BY <2>1, FS_EmptySet DEF ChanBooks, ChanInit
<1>2. ChanTypes /\ ChanOpShape /\ Check
  BY ChanAssumption DEF ChanTypes, ChanOpShape, Check, ChanInit
<1>3. InOrder
  BY DEF InOrder, ChanInit
<1>4. Homes /\ Watched
  BY DEF Homes, Watched, ChanInit
<1>5. Follow
  BY DEF Follow, Followers, ChanInit, Vifs
<1>6. QED BY <1>1, <1>2, <1>3, <1>4, <1>5 DEF ChanIInv, ChanRest

LEMMA ChanStep == ASSUME ChanIInv, ChanNext PROVE ChanIInv'
<1>1. chan_upset = {} /\ ChanBooks /\ ChanRest
  BY DEF ChanNext, ChanIInv
<1>2. ChanGoal
  <2>1. CASE \E v \in Vifs : \/ rwnx_cfg80211_start_ap(v) \/ rwnx_cfg80211_join_mesh(v)
                             \/ rwnx_cfg80211_channel_switch(v) \/ FwEndsCsa(v)
    BY <1>1, <2>1, OthersGoal
  <2>2. CASE \E v \in Vifs : rwnx_cfg80211_stop_ap(v) \/ rwnx_cfg80211_leave_mesh(v)
    BY <1>1, <2>2, CancelGoal, LeaveMeshGoal
  <2>3. CASE \E v \in Vifs : rwnx_rx_mesh_peer_update_ind(v) \/ rwnx_cfg80211_set_monitor_channel(v)
    BY <1>1, <2>3, MeshPeerGoal, MonitorGoal
  <2>4. CASE \E v \in Vifs : StationLinks(v) \/ StationUnlinks(v)
    BY <1>1, <2>4, StationLinksGoal, StationUnlinksGoal
  <2>5. CASE \E v \in Vifs : rwnx_cfg80211_start_radar_detection(v)
    BY <1>1, <2>5, StartRadarGoal
  <2>6. CASE \E v \in ApVifs : CsaWorkStarts(v) \/ rwnx_csa_finish(v)
    BY <1>1, <2>6, OthersGoal, CsaFinishGoal
  <2>7. CASE StartLink \/ StopUnlink \/ LeaveCancels \/ ChannelSwitchReturns
    BY <1>1, <2>7, StartLinkGoal, StopUnlinkGoal, CancelGoal, OthersGoal
  <2>8. CASE CacWorkStarts \/ rwnx_radar_cac_work \/ rwnx_radar_detected
    BY <1>1, <2>8, OthersGoal, CacWorkGoal, DetectedGoal
  <2>9. CASE ReceiveThread \/ FwSwitches
    BY <1>1, <2>9, CsaFinishIndGoal, PreSwitchGoal, SwitchGoal, SetCurrentGoal, OthersGoal DEF ReceiveThread
  <2>10. QED BY <2>1, <2>2, <2>3, <2>4, <2>5, <2>6, <2>7, <2>8, <2>9 DEF ChanNext
<1>3. ChanTypes'
  BY <1>1, CurrentKept, StartedKept, SwitchingKept, RadarKept, CsaKept DEF ChanTypes, CsaShape
<1>4. InOrder'
  BY <1>1, OrderKept
<1>5. chan_upset' = {} => ChanOpShape' /\ Check'
  BY <1>1, CheckKept
<1>6. QED BY <1>2, <1>3, <1>4, <1>5 DEF ChanIInv, ChanRest, ChanGoal

LEMMA ChanIInvIsSound == ASSUME ChanIInv PROVE ChanSound
<1>1. ChanCounted
  BY DEF ChanIInv, ChanBooks, ChanCounted, Users
<1>2. QueuesFollow
  BY DEF ChanIInv, ChanRest, Follow, Followers, QueuesFollow
<1>3. RadarWatched
  BY DEF ChanIInv, ChanRest, Watched, RadarWatched, ChanTypes
<1>4. QED BY <1>1, <1>2, <1>3 DEF ChanSound

\* The counts of the channel contexts, the queues and the radar detection agree
\* with what rwnx_chanctx_link, rwnx_rx_chan_switch_ind and start_ap have done.
THEOREM ChanIsSound == ChanSpec => []ChanSound
<1>1. ASSUME ChanIInv, UNCHANGED chanVars PROVE ChanIInv'
  <2>1. ChanBooks => ChanBooks'
    BY <1>1 DEF ChanBooks, Users, chanVars, books_
  <2>2. ChanTypes => ChanTypes'
    BY <1>1 DEF ChanTypes, chanVars, radarVars
  <2>3. ChanOpShape => ChanOpShape'
    BY <1>1 DEF ChanOpShape, chanVars
  <2>4. Check => Check'
    BY <1>1 DEF Check, chanVars, cacVars
  <2>5. InOrder => InOrder'
    BY <1>1 DEF InOrder, chanVars
  <2>6. Homes => Homes'
    BY <1>1 DEF Homes, chanVars, books_
  <2>7. Follow => Follow'
    BY <1>1 DEF Follow, Followers, chanVars, books_
  <2>8. Watched => Watched'
    BY <1>1 DEF Watched, chanVars, books_, radarVars
  <2>9. chan_upset' = chan_upset
    BY <1>1 DEF chanVars
  <2>10. QED BY <1>1, <2>1, <2>2, <2>3, <2>4, <2>5, <2>6, <2>7, <2>8, <2>9 DEF ChanIInv, ChanRest
<1>2. ChanIInv /\ [ChanNext]_chanVars => ChanIInv'
  BY <1>1, ChanStep
<1>3. QED BY <1>2, ChanBegins, ChanIInvIsSound, PTL DEF ChanSpec

=============================================================================
