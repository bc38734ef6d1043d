------------------------------- MODULE Radar -------------------------------
(***************************************************************************)
(* Radar detection (rwnx_radar.c): the pulses the firmware reports, the    *)
(* work that takes them, the detectors that look for patterns among them,  *)
(* and the status that says whether anybody listens.  The status follows   *)
(* availability checks and stations only in a build with                   *)
(* CONFIG_RADAR_OR_IR_DETECT; the Makefile's default leaves it idle, and   *)
(* then no pulse is looked at.  Times are in microseconds.                 *)
(***************************************************************************)
EXTENDS Integers, Sequences, FiniteSets, SequencesExt, Null

CONSTANTS PulseMax,     \* RWNX_RADAR_PULSE_MAX
          Radars,       \* bound: what is looked at, sets of [pulses, max, mixed, opts]: the kinds of
                        \* pulses, [gap, off, len], how many of them, whether the other handlers
                        \* still run once the first has been reported, and the builds
          MaxServed     \* bound: stations

VARIABLES radar_opt,      \* CONFIG_RADAR_OR_IR_DETECT
          radar_in,       \* the pulses of this behaviour; never changes
          radar_status, sta_num, radar_enabled,
          region,         \* dpd->region
          dets,           \* dpd->detectors: type -> sequence of detectors
          last_pulse_ts, prev_jiffies,
          clock, nr,      \* the time, and the pulses reported so far
          ring, ind,      \* radar->pulses, and the pulse a message handler is about to store
          batch,          \* pulses the work has copied with the time it started, or NULL
          cac_on, served, \* an availability check is under way; stations the firmware has
          heard,          \* the pulses looked at since the detectors were last reset
          alarm,          \* the last pattern reported, with the pulses heard by then
          radar_upset     \* what has happened that the code does not survive

books == <<dets, last_pulse_ts, prev_jiffies, heard, alarm>>
radarVars == <<radar_opt, radar_in, radar_status, sta_num, radar_enabled, region, books, clock, nr,
               ring, ind, batch, cac_on, served, radar_upset>>

-----------------------------------------------------------------------------
(* The patterns                                                            *)

PRI_TOLERANCE == 16
PPB_THRESH(ppb) == (ppb * 50 + 50) \div 100
PRF2PRI(prf) == (1000000 + prf \div 2) \div prf

\* struct radar_detector_specs
Pattern(wmin, wmax, pmin, pmax, num_pri, ppb, thresh, type) ==
    [wmin |-> wmin, wmax |-> wmax, pri_min |-> pmin - PRI_TOLERANCE, pri_max |-> pmax + PRI_TOLERANCE,
     num_pri |-> num_pri, ppb |-> ppb, thresh |-> thresh, type |-> type]

ETSI_PATTERN_SHORT(wmin, wmax, prfmin, prfmax, ppb) ==
    Pattern(wmin, wmax, PRF2PRI(prfmax), PRF2PRI(prfmin), 1, ppb, PPB_THRESH(ppb), "short")

ETSI_PATTERN_INTERLEAVED(wmin, wmax, prfmin, prfmax, few, many, ppb) ==
    Pattern(wmin, wmax, PRF2PRI(prfmax) * few, PRF2PRI(prfmin) * many, many, ppb * many,
            PPB_THRESH(ppb), "interleaved")

FCC_PATTERN(wmin, wmax, pmin, pmax, ppb, type) ==
    Pattern(wmin, wmax, pmin, pmax, 1, ppb, PPB_THRESH(ppb), type)

etsi_radar_ref_types_v17_riu ==
    << ETSI_PATTERN_SHORT(0, 8, 700, 700, 18), ETSI_PATTERN_SHORT(0, 10, 200, 1000, 10),
       ETSI_PATTERN_SHORT(0, 22, 200, 1600, 15), ETSI_PATTERN_SHORT(0, 22, 2300, 4000, 25),
       ETSI_PATTERN_SHORT(20, 38, 2000, 4000, 20), ETSI_PATTERN_INTERLEAVED(0, 8, 300, 400, 2, 3, 10),
       ETSI_PATTERN_INTERLEAVED(0, 8, 400, 1200, 2, 3, 15) >>

fcc_radar_ref_types_riu ==
    << FCC_PATTERN(0, 8, 1428, 1428, 18, "short"), FCC_PATTERN(0, 8, 518, 3066, 102, "weather"),
       FCC_PATTERN(0, 8, 150, 230, 23, "short"), FCC_PATTERN(6, 20, 200, 500, 16, "short"),
       FCC_PATTERN(10, 28, 200, 500, 12, "short"), FCC_PATTERN(50, 110, 1000, 2000, 8, "long"),
       FCC_PATTERN(0, 8, 333, 333, 9, "short") >>

jp_radar_ref_types_riu ==
    << FCC_PATTERN(0, 8, 1428, 1428, 18, "short"), FCC_PATTERN(2, 8, 3846, 3846, 18, "short"),
       FCC_PATTERN(0, 8, 1388, 1388, 18, "short"), FCC_PATTERN(0, 8, 4000, 4000, 18, "short"),
       FCC_PATTERN(0, 8, 150, 230, 23, "short"), FCC_PATTERN(6, 20, 200, 500, 16, "short"),
       FCC_PATTERN(10, 28, 200, 500, 12, "short"), FCC_PATTERN(50, 110, 1000, 2000, 8, "long"),
       FCC_PATTERN(0, 8, 333, 333, 9, "short") >>

\* dfs_domains; a region that is not there leaves the detector UNSET.
Regions == {"ETSI", "FCC", "JP"}
dfs_domains(reg) == CASE reg = "ETSI" -> etsi_radar_ref_types_v17_riu
                      [] reg = "FCC" -> fcc_radar_ref_types_riu
                      [] reg = "JP" -> jp_radar_ref_types_riu

Types == 1 .. 9    \* get_dfs_max_radar_types
SpecsOf(reg) == IF reg \in Regions THEN dfs_domains(reg) ELSE <<>>

-----------------------------------------------------------------------------
(* A detector: its frequency, the time of its last pulse, its pulses and   *)
(* its sequences, newest first.                                            *)

pri_detector_init(freq) == [freq |-> freq, last |-> 0, pulses |-> <<>>, seqs |-> <<>>]
pri_detector_reset(pde, ts) == [pde EXCEPT !.last = ts, !.pulses = <<>>, !.seqs = <<>>]

Long(rs) == rs.type = "long"
Window(rs) == IF Long(rs) THEN 12000000 ELSE rs.pri_max * rs.ppb * rs.num_pri
MaxCount(rs) == IF Long(rs) THEN 20 ELSE rs.ppb * 2

\* Mutant of pulse_queue_check_window: the start of the window wraps before time 0.
WrapsBelowZero(pde, rs) ==
    IF pde.last <= Window(rs) THEN [pde EXCEPT !.pulses = <<>>]
    ELSE [pde EXCEPT !.pulses = SelectSeq(@, LAMBDA t : t >= pde.last - Window(rs))]

\* Pulses older than the window leave from the end of the list.
pulse_queue_check_window(pde, rs) ==
    IF Len(pde.pulses) < 2 \/ pde.last <= Window(rs) THEN pde
    ELSE [pde EXCEPT !.pulses = SelectSeq(@, LAMBDA t : t >= pde.last - Window(rs))]

pulse_queue_enqueue(pde, rs, ts) ==
    LET more == pulse_queue_check_window([pde EXCEPT !.pulses = <<ts>> \o @, !.last = ts], rs)
    IN  IF Len(more.pulses) >= MaxCount(rs) THEN [more EXCEPT !.pulses = Front(@)] ELSE more

\* How many times fraction goes into val, 0 if it does not within the tolerance.
pde_get_multiple(val, fraction, tolerance) ==
    CASE fraction = 0 -> 0
      [] fraction # 0 /\ val - fraction \in -tolerance .. tolerance -> 1
      [] fraction # 0 /\ val - fraction \notin -tolerance .. tolerance ->
            LET rest == val % fraction
            IN  IF rest <= tolerance THEN val \div fraction
                ELSE IF fraction - rest <= tolerance THEN val \div fraction + 1 ELSE 0

Matches(val, pri) == pde_get_multiple(val, pri, PRI_TOLERANCE) > 0

\* The sequence that ends with a pulse at ts and has the distance to the i-th queued
\* pulse for its interval: the older pulses that fit, and as false ones those between.
NewSequence(pde, rs, ts, i) ==
    LET pri == ts - pde.pulses[i]
        dur == pri * (rs.ppb - 1) + 2 * PRI_TOLERANCE
        fit == {j \in i + 1 .. Len(pde.pulses) :
                   pde.pulses[j] >= ts - dur /\ Matches(ts - pde.pulses[j], pri)}
        end == CHOOSE j \in fit \cup {i} : \A k \in fit : k <= j
    IN  [pri |-> pri, dur |-> dur, count |-> 2 + Cardinality(fit), last |-> ts, first |-> pde.pulses[end],
         falses |-> end - 1 - Cardinality(fit), deadline |-> pde.pulses[end] + dur,
         thresh |-> IF rs.type = "weather" THEN PPB_THRESH(19000000 \div (360 * pri)) % 256 ELSE rs.thresh]

\* Those with more pulses than a sequence the pulse has been added to; the last one
\* created comes first.
pde_short_create_sequences(pde, rs, ts, min_count) ==
    LET fits  == {i \in 1 .. Len(pde.pulses) :
                     /\ ts - pde.pulses[i] \in rs.pri_min .. rs.pri_max
                     /\ NewSequence(pde, rs, ts, i).count > min_count}
        news  == SetToSortSeq(fits, LAMBDA i, j : i > j)
    IN  [pde EXCEPT !.seqs = [k \in DOMAIN news |-> NewSequence(pde, rs, ts, news[k])] \o @]

\* Sequences past their deadline go; the others take the pulse or count it false.
pde_short_add_to_existing_seqs(pde, ts) ==
    LET alive == SelectSeq(pde.seqs, LAMBDA s : ts <= s.deadline)
    IN  [pde EXCEPT !.seqs =
            [k \in DOMAIN alive |->
                IF Matches(ts - alive[k].last, alive[k].pri)
                THEN [alive[k] EXCEPT !.last = ts, !.count = @ + 1]
                ELSE [alive[k] EXCEPT !.falses = @ + 1]]]

\* The most pulses in a sequence that the pulse at ts has been added to.
MaxUpdated(pde, ts) ==
    LET counts == {pde.seqs[k].count : k \in {j \in DOMAIN pde.seqs : pde.seqs[j].last = ts}}
    IN  CHOOSE n \in counts \cup {0} : \A m \in counts : m <= n

\* The first sequence with enough pulses and more matching than false ones.
pde_short_check_detection(pde, rs) ==
    LET done == {k \in DOMAIN pde.seqs : /\ pde.seqs[k].count >= pde.seqs[k].thresh
                                         /\ pde.seqs[k].count * rs.num_pri > pde.seqs[k].falses}
    IN  IF done = {} THEN NULL ELSE pde.seqs[CHOOSE k \in done : \A j \in done : k <= j]

\* Each add_pulse: the detector afterwards and the sequence it found, or NULL.  mem
\* is FALSE when kmalloc fails: a pulse is then not queued, and sequences that
\* cannot be created reset the detector.
pde_short_add_pulse(pde, rs, ts, mem) ==
    LET added == pde_short_add_to_existing_seqs(pde, ts)
        more  == pde_short_create_sequences(added, rs, ts, MaxUpdated(added, ts))
        ps    == pde_short_check_detection(more, rs)
        Queued(d) == IF mem THEN pulse_queue_enqueue(d, rs, ts) ELSE d
    IN  CASE pde.pulses = <<>> -> <<Queued(pde), NULL>>
          [] pde.pulses # <<>> /\ ts - pde.last < PRI_TOLERANCE -> <<pde, NULL>>
          [] pde.pulses # <<>> /\ ts - pde.last >= PRI_TOLERANCE /\ ~mem /\ more # added ->
                <<pri_detector_reset(pde, ts), NULL>>
          [] OTHER -> <<IF ps = NULL THEN Queued(more) ELSE more, ps>>

\* The oldest pulses of a long sequence leave, each with its count, once its deadline
\* has passed.
Overdue(pde, rs, ps, ts) ==
    LET late == {k \in DOMAIN pde.pulses : pde.pulses[k] < ts - Window(rs)}
        kept == SubSeq(pde.pulses, 1, Len(pde.pulses) - Cardinality(late))
    IN  IF ts <= ps.deadline THEN <<pde, ps>>
        ELSE << [pde EXCEPT !.pulses = kept],
                IF kept = <<>> THEN [ps EXCEPT !.count = @ - Cardinality(late)]
                ELSE [ps EXCEPT !.count = @ - Cardinality(late), !.first = Last(kept),
                                !.deadline = Last(kept) + Window(rs)] >>

\* One sequence of bursts, of each of which the first pulse is queued.
pde_long_add_pulse(pde, rs, ts, mem) ==
    LET new == [count |-> 1, falses |-> 1, first |-> ts, last |-> ts, deadline |-> ts + Window(rs),
                pri |-> 0, dur |-> 0, thresh |-> rs.thresh]
        old == pde.seqs[1]
        delta == ts - old.last
        due == Overdue(pde, rs, [old EXCEPT !.last = ts, !.count = @ + 1, !.falses = 1], ts)
        With(d, ps) == [d EXCEPT !.seqs = <<ps>>]
    IN  CASE pde.seqs = <<>> ->
                <<IF mem THEN pulse_queue_enqueue(With(pde, new), rs, ts) ELSE pde, NULL>>
          [] pde.seqs # <<>> /\ delta < rs.pri_max -> <<With(pde, [old EXCEPT !.last = ts]), NULL>>
          [] pde.seqs # <<>> /\ delta = rs.pri_max ->
                <<With(pde, [old EXCEPT !.last = ts, !.falses = @ + 1]), NULL>>
          [] pde.seqs # <<>> /\ delta > rs.pri_max /\ old.count > 2 /\ old.dur + delta < 600000 ->
                <<With(pde, [old EXCEPT !.last = ts]), NULL>>
          [] OTHER ->
                IF due[2].count > rs.thresh /\ ts - due[2].first > Window(rs) \div 2
                THEN <<With(due[1], due[2]), due[2]>>
                ELSE LET d == With(due[1], [due[2] EXCEPT !.dur = delta])
                     IN  <<IF mem THEN pulse_queue_enqueue(d, rs, ts) ELSE d, NULL>>

-----------------------------------------------------------------------------
(* The detectors of a region                                               *)

Near(pde, freq) == pde.freq - freq \in {-2, 0, 2}

\* The first detector near the frequency that has pulses, or else its own empty one,
\* or else a new one at the head of the list: the list and the place in it.
pri_detector_get(list, freq) ==
    LET busy == {k \in DOMAIN list : Near(list[k], freq) /\ list[k].pulses # <<>>}
        own  == {k \in DOMAIN list : list[k].freq = freq /\ list[k].pulses = <<>>}
    IN  CASE busy # {} -> <<list, CHOOSE k \in busy : \A j \in busy : k <= j>>
          [] busy = {} /\ own # {} -> <<list, CHOOSE k \in own : \A j \in own : k >= j>>
          [] OTHER -> <<<<pri_detector_init(freq)>> \o list, 1>>

dfs_pattern_detector_reset(ds, ts) ==
    [t \in Types |-> [k \in DOMAIN ds[t] |-> pri_detector_reset(ds[t][k], ts)]]

dfs_pattern_detector_pri_overflow(ds, specs, ts) ==
    [t \in Types |-> IF t \in DOMAIN specs /\ ~Long(specs[t])
                     THEN [k \in DOMAIN ds[t] |-> pri_detector_reset(ds[t][k], ts)] ELSE ds[t]]

\* One pulse through the detectors of the types that its width is in, until one has
\* found its pattern.
Through(specs, ds, freq, len, ts, mem, status) ==
    LET Step(acc, t) ==
            LET rs  == specs[t]
                at  == pri_detector_get(acc.dets[t], freq)
                res == CASE ~Long(rs) -> pde_short_add_pulse(at[1][at[2]], rs, ts, mem)
                         [] Long(rs) /\ status = "CAC_BUSY" -> pde_long_add_pulse(at[1][at[2]], rs, ts, mem)
                         [] OTHER -> <<at[1][at[2]], NULL>>
            IN  IF acc.ps # NULL \/ len \notin rs.wmin .. rs.wmax THEN acc
                ELSE [dets |-> [acc.dets EXCEPT ![t] = [at[1] EXCEPT ![at[2]] = res[1]]],
                      ps |-> res[2], type |-> t]
    IN  FoldLeft(Step, [dets |-> ds, ps |-> NULL, type |-> 0], [t \in DOMAIN specs |-> t])

-----------------------------------------------------------------------------
(* The handlers                                                            *)

Upset(events) == radar_upset' = radar_upset \cup events
If(c, e) == IF c THEN {e} ELSE {}

\* rwnx_radar_detection_init and, with the option, rwnx_radar_set_domain(FCC).
RadarInit ==
    /\ radar_in \in Radars /\ radar_opt \in radar_in.opts
    /\ radar_status = "IDLE" /\ sta_num = 0 /\ radar_enabled = FALSE
    /\ region = IF radar_opt THEN "FCC" ELSE "UNSET"
    /\ dets = [t \in Types |-> <<>>] /\ last_pulse_ts = 0 /\ prev_jiffies = 0 /\ clock = 0
    /\ ring = <<>> /\ ind = NULL /\ batch = NULL /\ heard = <<>> /\ alarm = NULL /\ nr = 0
    /\ cac_on = FALSE /\ served = 0 /\ radar_upset = {}

\* The regulatory hint: another region replaces the detectors, an unknown one leaves
\* them and makes every pulse a radar.
dfs_pattern_detector_set_domain(reg) ==
    /\ radar_opt /\ reg # region
    /\ IF reg \in Regions
       THEN region' = reg /\ dets' = [t \in Types |-> <<>>] /\ heard' = <<>>
       ELSE region' = "UNSET" /\ UNCHANGED <<dets, heard>>
    /\ UNCHANGED <<radar_opt, radar_in, radar_status, sta_num, radar_enabled, last_pulse_ts, prev_jiffies,
                   alarm, clock, nr, ring, ind, batch, cac_on, served, radar_upset>>

\* rwnx_radar_detection_enable from the channel's handlers.
rwnx_radar_detection_enable(on) ==
    /\ radar_enabled # on /\ radar_enabled' = on
    /\ UNCHANGED <<radar_opt, radar_in, radar_status, sta_num, region, books, clock, nr, ring, ind, batch,
                   cac_on, served, radar_upset>>

Listening == radar_status \in {"CAC_BUSY", "INSERVICE_BUSY"}

\* Bound: long sequences of pulses only while they are looked at.
Worthwhile == radar_in.mixed \/ (radar_enabled /\ Listening)

\* A pulse is reported and, if detection is on, about to be stored; the time since
\* the one before is reported in 16 bits.
rwnx_radar_detect_ind ==
    /\ ind = NULL /\ nr < radar_in.max /\ Worthwhile
    /\ \E p \in radar_in.pulses :
          /\ clock' = clock + p.gap
          /\ ind' = IF ~radar_enabled THEN NULL
                    ELSE [pri |-> IF p.gap > 65535 THEN 0 ELSE p.gap, off |-> p.off, len |-> p.len,
                          at |-> clock']
    /\ nr' = nr + 1
    /\ UNCHANGED <<radar_opt, radar_in, radar_status, sta_num, radar_enabled, region, books, ring, batch,
                   cac_on, served, radar_upset>>

\* The ring keeps the last pulses.
StorePulse ==
    /\ ind # NULL /\ ind' = NULL
    /\ ring' = IF Len(ring) < PulseMax THEN Append(ring, ind) ELSE Append(Tail(ring), ind)
    /\ UNCHANGED <<radar_opt, radar_in, radar_status, sta_num, radar_enabled, region, books, clock, nr, batch,
                   cac_on, served, radar_upset>>

\* The work copies the pulses under the lock.
rwnx_radar_process_pulse ==
    /\ batch = NULL /\ ring # <<>>
    /\ batch' = [ps |-> ring, now |-> clock] /\ ring' = <<>>
    /\ UNCHANGED <<radar_opt, radar_in, radar_status, sta_num, radar_enabled, region, books, clock, nr, ind,
                   cac_on, served, radar_upset>>

\* The pulse's time stamp: by pri, or by jiffies since the last one without.
TimeOf(p) == last_pulse_ts + (IF p.pri = 0 THEN batch.now - prev_jiffies ELSE p.pri)

\* The radar is reported, a check ends, and detection goes off; pulses that came in
\* the meantime are thrown away.
rwnx_radar_detected ==
    IF radar_enabled
    THEN /\ radar_enabled' = FALSE /\ ring' = <<>> /\ cac_on' = FALSE
         /\ radar_status' = IF cac_on THEN "CAC_DONE" ELSE radar_status
    ELSE UNCHANGED <<radar_enabled, ring, cac_on, radar_status>>

\* One copied pulse (dfs_pattern_detector_add_pulse); nobody listens, and the rest is
\* dropped.
AddPulse ==
    /\ batch # NULL /\ batch.ps # <<>>
    /\ \E specs \in {SpecsOf(region)} :
       LET p == Head(batch.ps)
           ts == TimeOf(p)
           ds == IF p.pri = 0 THEN dfs_pattern_detector_pri_overflow(dets, specs, ts) ELSE dets
           now == Append(IF p.pri = 0 THEN <<>> ELSE heard, [ts |-> ts, at |-> p.at, off |-> p.off, len |-> p.len])
       IN  \E mem \in {TRUE, ~radar_in.mixed} :
           \E res \in {Through(specs, ds, p.off, p.len, ts, mem, radar_status)} :
             CASE ~Listening ->
                    /\ mem /\ batch' = NULL
                    /\ UNCHANGED <<books, radar_enabled, ring, cac_on, radar_status, radar_upset>>
               [] Listening /\ region = "UNSET" ->
                    /\ mem /\ batch' = NULL /\ alarm' = [ps |-> NULL, type |-> 0, heard |-> <<>>]
                    /\ rwnx_radar_detected
                    /\ Upset(If(cac_on /\ sta_num > 0, "served"))
                    /\ UNCHANGED <<dets, last_pulse_ts, prev_jiffies, heard>>
               [] Listening /\ region # "UNSET" /\ res.ps = NULL ->
                    /\ batch' = [batch EXCEPT !.ps = Tail(@)]
                    /\ dets' = res.dets /\ last_pulse_ts' = ts /\ heard' = now
                    /\ prev_jiffies' = IF p.pri = 0 THEN batch.now ELSE prev_jiffies
                    /\ Upset(If(~mem, "nomem"))
                    /\ UNCHANGED <<alarm, radar_enabled, ring, cac_on, radar_status>>
               [] OTHER ->
                    /\ mem /\ batch' = NULL /\ alarm' = [ps |-> res.ps, type |-> res.type, heard |-> now]
                    /\ dets' = dfs_pattern_detector_reset(res.dets, ts)
                    /\ last_pulse_ts' = 0 /\ prev_jiffies' = clock /\ heard' = <<>>
                    /\ rwnx_radar_detected
                    /\ Upset(If(cac_on /\ sta_num > 0, "served"))
    /\ UNCHANGED <<radar_opt, radar_in, sta_num, region, clock, nr, ind, served>>

WorkEnds ==
    /\ batch # NULL /\ batch.ps = <<>> /\ batch' = NULL
    /\ UNCHANGED <<radar_opt, radar_in, radar_status, sta_num, radar_enabled, region, books, clock, nr, ring, ind,
                   cac_on, served, radar_upset>>

\* rwnx_send_apm_start_cac_req
StartCac ==
    /\ ~cac_on /\ cac_on' = TRUE
    /\ radar_status' = IF radar_opt THEN "CAC_BUSY" ELSE radar_status
    /\ Upset(If(sta_num > 0, "served"))
    /\ UNCHANGED <<radar_opt, radar_in, sta_num, radar_enabled, region, books, clock, nr, ring, ind, batch, served>>

\* rwnx_send_apm_stop_cac_req
StopCac ==
    /\ cac_on /\ cac_on' = FALSE
    /\ radar_status' = IF radar_opt THEN "CAC_DONE" ELSE radar_status
    /\ Upset(If(sta_num > 0, "served"))
    /\ UNCHANGED <<radar_opt, radar_in, sta_num, radar_enabled, region, books, clock, nr, ring, ind, batch, served>>

\* rwnx_send_me_sta_add: the status changes before the firmware is asked, which may
\* refuse the station.
StationAsked ==
    /\ sta_num < MaxServed
    /\ sta_num' = IF radar_opt THEN sta_num + 1 ELSE sta_num
    /\ radar_status' = IF radar_opt /\ sta_num = 0 THEN "INSERVICE_BUSY" ELSE radar_status
    /\ served' \in {served, served + 1} /\ served' <= MaxServed
    /\ UNCHANGED <<radar_opt, radar_in, radar_enabled, region, books, clock, nr, ring, ind, batch, cac_on,
                   radar_upset>>

\* The status once one of n stations is deleted.
AfterLeave(n, st) == IF n = 1 /\ st = "INSERVICE_BUSY" THEN "INSERVICE_DONE" ELSE st

\* rwnx_send_me_sta_del
StationLeaves ==
    /\ served > 0 /\ served' = served - 1
    /\ radar_status' = IF radar_opt THEN AfterLeave(sta_num, radar_status) ELSE radar_status
    /\ sta_num' = IF sta_num > 0 THEN sta_num - 1 ELSE 0
    /\ UNCHANGED <<radar_opt, radar_in, radar_enabled, region, books, clock, nr, ring, ind, batch, cac_on,
                   radar_upset>>

RadarNext ==
    /\ radar_upset = {}
    /\ \/ rwnx_radar_detect_ind \/ StorePulse \/ rwnx_radar_process_pulse \/ AddPulse \/ WorkEnds
       \/ /\ nr = 0 \/ radar_in.mixed
          /\ \/ \E reg \in {"ETSI", "FCC", "NONE"} : dfs_pattern_detector_set_domain(reg)
             \/ \E on \in BOOLEAN : rwnx_radar_detection_enable(on)
             \/ StartCac \/ StopCac \/ StationAsked \/ StationLeaves

RadarSpec == RadarInit /\ [][RadarNext]_radarVars

-----------------------------------------------------------------------------
(* Properties                                                              *)

\* The last n pulses heard are a train: a width of the pattern, one interval within
\* its limits by the clock, nothing in between, and frequencies that no two pulses
\* heard are more than 2 apart in.
Train(rs, n) ==
    LET k == Len(heard)
        gap == heard[k].at - heard[k - 1].at
    IN  /\ k >= n /\ k > 1
        /\ gap \in rs.pri_min .. rs.pri_max
        /\ \A i, j \in 1 .. k : heard[i].off - heard[j].off \in -2 .. 2
        /\ \A i \in k - n + 1 .. k : heard[i].len \in rs.wmin .. rs.wmax
        /\ \A i \in k - n + 2 .. k : heard[i].at - heard[i - 1].at = gap

\* A clean train of as many pulses as a short pattern asks for does not go unnoticed,
\* whatever came before it on its own and the neighbouring frequency and whatever the
\* work had to throw away (pri_detector_get, pde_short_add_pulse).
TrainFound ==
    region # "UNSET" /\ heard # <<>> =>
        \A rs \in Range(SpecsOf(region)) : ~Long(rs) => ~Train(rs, rs.thresh)

\* A pattern is reported only if it was heard: as many pulses as its sequence counts,
\* enough of them, each a multiple of the interval after the one before it.
NoFalseAlarm ==
    alarm # NULL /\ alarm.ps # NULL /\ alarm.ps.pri > 0 =>
        /\ alarm.ps.count >= alarm.ps.thresh
        /\ \E S \in SUBSET DOMAIN alarm.heard :
              /\ Cardinality(S) = alarm.ps.count
              /\ \A i \in S : (\E j \in S : j < i) =>
                    LET j == CHOOSE j \in S : j < i /\ \A l \in S : l < i => l <= j
                        d == alarm.heard[i].ts - alarm.heard[j].ts
                        r == d % alarm.ps.pri
                    IN  r <= 2 * PRI_TOLERANCE \/ alarm.ps.pri - r <= 2 * PRI_TOLERANCE

\* The long pattern's sequence counts the bursts that are queued, until the queue is
\* full (pde_long_add_pulse, pulse_queue_enqueue).
LongCounted ==
    radar_upset = {} /\ region # "UNSET" =>
        \A t \in Types : \A k \in DOMAIN dets[t] :
            dets[t][k].seqs # <<>> /\ Long(SpecsOf(region)[t]) =>
                dets[t][k].seqs[1].count = Len(dets[t][k].pulses)

\* While stations are served and no check is under way pulses are looked at, unless
\* a check has begun while stations were counted: its end leaves the status at
\* CAC_DONE, and only the first station sets it again.
Listens ==
    radar_opt /\ radar_upset = {} /\ served > 0 /\ ~cac_on => Listening

\* The four (dfs_pattern_detector_add_pulse, rwnx_radar_process_pulse).
RadarSound == TrainFound /\ NoFalseAlarm /\ LongCounted /\ Listens
=============================================================================
