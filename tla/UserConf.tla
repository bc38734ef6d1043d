------------------------------ MODULE UserConf ------------------------------
(***************************************************************************)
(* The user configuration: aic_userconfig*.txt is read when a device is    *)
(* brought up, a parser that works one character at a time puts its        *)
(* numbers into global tables, and the power and calibration requests of   *)
(* the bring-up carry these tables to the firmware.  There are three       *)
(* parsers: the loader driver's (chip 8801), the main driver's (DC, DW,    *)
(* D81) and a copy of it for the two-antenna chips (X2).                   *)
(*                                                                         *)
(* A character is a token: the name of a key is one token, any run of      *)
(* other letters is one token with the length it has.  The tables are      *)
(* structures of arrays, an array is a sequence of bytes.                  *)
(***************************************************************************)
EXTENDS Integers, Sequences, SequencesExt, FiniteSets

CONSTANTS
    UcChips,        \* the kinds of chip plugged in
    UcSome,         \* for every chip, the keys the longer files are made of
    UcShapes,       \* the shapes of a line used in the longer files
    UcPartners,     \* the shapes of the line before or after it
    MaxPlugs      \* bound: devices brought up one after the other

VARIABLES
    uc_chip, uc_phase,  \* the device, and how far its bring-up is
    uc_file,         \* the lines of its file
    userconfig_info,
    uc_sent,         \* what the firmware received of each table
    uc_plugs, uc_upset  \* devices so far, and what went wrong with which key

ucVars == <<uc_chip, uc_phase, uc_file, userconfig_info, uc_sent, uc_plugs, uc_upset>>

(***************************************************************************)
(* The keys: the branches of the three set_value functions, an array of    *)
(* the tables for every family of names.                                   *)
(***************************************************************************)
Rates  == <<"1m", "2m", "5m5", "11m", "6m", "9m", "12m", "18m", "24m", "36m", "48m", "54m">>
Mcs(n) == SubSeq(<<"mcs0", "mcs1", "mcs2", "mcs3", "mcs4", "mcs5", "mcs6", "mcs7",
                   "mcs8", "mcs9", "mcs10", "mcs11">>, 1, n)
Grp2 == <<"1_4", "5_9", "10_13">>
Grp5 == <<"42", "58", "106", "122", "138", "155">>
\* The rows of a two-dimensional array one after the other.
Flat(rows, cols) == [i \in 1..Len(rows) * Len(cols) |->
    <<rows[((i - 1) \div Len(cols)) + 1], cols[((i - 1) % Len(cols)) + 1]>>]

\* The arrays of a structure, and the names of an array's slots in order.
LvlArrays == {"enable", "b_ag_2g4", "n_ac_2g4", "ax_2g4", "a_5g", "n_ac_5g", "ax_5g"}
LvlItems(f) == CASE f = "enable"                 -> <<"enable">>
                 [] f \in {"b_ag_2g4", "a_5g"}   -> Rates
                 [] f \in {"n_ac_2g4", "n_ac_5g"} -> Mcs(10)
                 [] OTHER                        -> Mcs(12)
CommonArrays == {"adj_enable", "adj_2g4", "adj_5g", "loss", "ofst_enable", "xtal"}
LossItems == <<"enable_2g4", "value_2g4", "enable_5g", "value_5g">>
XtalItems == <<"enable", "cap", "cap_fine">>
CommonItems(f) == CASE f = "adj_2g4" -> Grp2
                    [] f = "adj_5g"  -> Grp5
                    [] f = "loss"    -> LossItems
                    [] f = "xtal"    -> XtalItems
                    [] OTHER         -> <<"enable">>
OldItems(f) == IF f = "lvl"
               THEN <<"dsss", "lowrate_2g4", "64qam_2g4", "256qam_2g4", "1024qam_2g4",
                      "lowrate_5g", "64qam_5g", "256qam_5g", "1024qam_5g">>
               ELSE <<"1_4", "5_9", "10_13", "36_64", "100_120", "122_140", "142_165">>
AntArrays == {"ofst_2g4_ant0", "ofst_2g4_ant1", "ofst_5g_ant0", "ofst_5g_ant1"}

\* The key's place in its array, as the branches of the main driver's
\* function number it.
nvram_arrays == LvlArrays \cup CommonArrays \cup {"lvl", "ofst", "ofst_2g4", "ofst_5g"}
nvram_items(f) == CASE f \in LvlArrays      -> LvlItems(f)
                    [] f \in CommonArrays   -> CommonItems(f)
                    [] f \in {"lvl", "ofst"} -> OldItems(f)
                    [] f = "ofst_2g4"       -> Flat(<<"11b", "highrate", "lowrate">>, Grp2)
                    [] OTHER                -> Flat(<<"lowrate", "highrate", "midrate">>, Grp5)
\* The same in the copy for two antennas: the 5 GHz rates begin at 6 Mb/s,
\* and the tables of offsets have a row for each channel group.
nvram_arrays_x2 == LvlArrays \cup CommonArrays \cup AntArrays
nvram_items_x2(f) == CASE f = "a_5g"         -> SubSeq(Rates, 5, 12)
                       [] f \in LvlArrays \ {"a_5g"} -> LvlItems(f)
                       [] f \in CommonArrays -> CommonItems(f)
                       [] f \in {"ofst_2g4_ant0", "ofst_2g4_ant1"} -> Flat(Grp2, <<"11b", "highrate", "none">>)
                       [] OTHER              -> Flat(Grp5, <<"highrate", "none2", "none">>)
\* The loader driver knows the oldest tables only.
loader_arrays == {"enable", "ofst_enable", "xtal", "lvl", "ofst"}
loader_items(f) == CASE f = "enable" -> LvlItems(f)
                     [] f \in {"ofst_enable", "xtal"} -> CommonItems(f)
                     [] OTHER -> OldItems(f)

ItemsOf(c, f) == CASE c = "8801" -> loader_items(f)
                   [] c = "X2"   -> nvram_items_x2(f)
                   [] OTHER      -> nvram_items(f)
ArraysOf(c) == CASE c = "8801" -> loader_arrays [] c = "X2" -> nvram_arrays_x2 [] OTHER -> nvram_arrays
\* The columns of the two-antenna tables that no branch writes.
Hole(k) == k[1] \in AntArrays /\ k[2][2] \in {"none", "none2"}
Keys(c) == {k \in UNION {{<<f, x>> : x \in Range(ItemsOf(c, f))} : f \in ArraysOf(c)} : ~Hole(k)}
IndexOf(c, k) == LET xs == ItemsOf(c, k[1]) IN CHOOSE i \in DOMAIN xs : xs[i] = k[2]

\* The structures a branch of rwnx_plat_nvram_set_value writes.
nvram_targets(f) ==
    CASE f = "enable"                               -> {"lvl", "lvl_v2", "lvl_v3"}
      [] f = "lvl"                                  -> {"lvl"}
      [] f \in {"b_ag_2g4", "n_ac_2g4", "ax_2g4"}   -> {"lvl_v2", "lvl_v3"}
      [] f \in {"a_5g", "n_ac_5g", "ax_5g"}         -> {"lvl_v3"}
      [] f \in {"adj_enable", "adj_2g4", "adj_5g"}  -> {"adj"}
      [] f = "ofst_enable"                          -> {"ofst", "ofst2x"}
      [] f \in {"ofst_2g4", "ofst_5g"}              -> {"ofst2x"}
      [] OTHER                                      -> {f}
nvram_targets_x2(f) ==
    CASE f \in LvlArrays                            -> {"lvl_v4"}
      [] f \in {"adj_enable", "adj_2g4", "adj_5g"}  -> {"adj"}
      [] f \in {"loss", "xtal"}                     -> {f}
      [] OTHER                                      -> {"ofst2x_v2"}
loader_targets(f) ==
    CASE f \in {"enable", "lvl"}       -> {"loader_idx"}
      [] f \in {"ofst_enable", "ofst"} -> {"loader_ofst"}
      [] OTHER                         -> {"loader_xtal"}
TargetsOf(c, f) == CASE c = "8801" -> loader_targets(f)
                     [] c = "X2"   -> nvram_targets_x2(f)
                     [] OTHER      -> nvram_targets(f)

(***************************************************************************)
(* The tables before any file is read.                                     *)
(***************************************************************************)
NA == -128
Default(f, n) ==
    CASE f \in {"b_ag_2g4"}    -> <<20, 20, 20, 20, 20, 20, 20, 20, 18, 18, 16, 16>>
      [] f = "n_ac_2g4"        -> <<20, 20, 20, 20, 18, 18, 16, 16, 16, 16>>
      [] f = "ax_2g4"          -> <<20, 20, 20, 20, 18, 18, 16, 16, 16, 16, 15, 15>>
      [] f = "a_5g" /\ n = 12  -> <<NA, NA, NA, NA, 20, 20, 20, 20, 18, 18, 16, 16>>
      [] f = "a_5g"            -> <<20, 20, 20, 20, 18, 18, 16, 16>>
      [] f = "n_ac_5g"         -> <<20, 20, 20, 20, 18, 18, 16, 16, 16, 15>>
      [] f = "ax_5g"           -> <<20, 20, 20, 20, 18, 18, 16, 16, 16, 15, 14, 14>>
      [] f = "enable"          -> <<1>>
      [] f = "lvl"             -> <<9, 8, 8, 8, 8, 11, 10, 9, 9>>
      [] f = "xtal"            -> <<0, 24, 31>>
      [] OTHER                 -> [i \in 1..n |-> 0]
\* The arrays of each structure.
Fields(s) == CASE s \in {"lvl", "loader_idx"} -> {"enable", "lvl"}
               [] s = "lvl_v2"    -> {"enable", "b_ag_2g4", "n_ac_2g4", "ax_2g4"}
               [] s \in {"lvl_v3", "lvl_v4"} -> LvlArrays
               [] s = "adj"       -> {"adj_enable", "adj_2g4", "adj_5g"}
               [] s \in {"ofst", "loader_ofst"} -> {"ofst_enable", "ofst"}
               [] s = "ofst2x"    -> {"ofst_enable", "ofst_2g4", "ofst_5g"}
               [] s = "ofst2x_v2" -> {"ofst_enable"} \cup AntArrays
               [] s \in {"xtal", "loader_xtal"} -> {"xtal"}
               [] OTHER           -> {s}
Defaults(c, s, f) == IF f = "ofst_enable" /\ s \in {"ofst", "loader_ofst"} THEN <<1>>
                     ELSE Default(f, Len(ItemsOf(c, f)))

(***************************************************************************)
(* The characters of a file.                                               *)
(***************************************************************************)
Name(k)  == [t |-> "name", key |-> k, len |-> 1]
Digit(d) == [t |-> "digit", d |-> d, len |-> 1]
Ch(x)    == [t |-> x, len |-> 1]
Word(n)  == [t |-> "word", len |-> n]

\* Shapes of a line: what the parser meets in a hand-written file.
LineOf(shape, k) ==
    LET n == Name(k)
        eq == Ch("=")
    IN CASE shape = "plain"    -> <<n, eq, Digit(1)>>
         [] shape = "zero"     -> <<n, eq, Digit(0)>>
         [] shape = "other"    -> <<n, eq, Digit(5)>>
         [] shape = "negative" -> <<n, eq, Ch("-"), Digit(7)>>
         [] shape = "big"      -> <<n, eq, Digit(2), Digit(0), Digit(0)>>
         [] shape = "point"    -> <<n, eq, Digit(1), Word(1), Digit(5)>>
         [] shape = "dash"     -> <<n, eq, Digit(1), Ch("-"), Digit(5)>>
         [] shape = "trailing" -> <<n, eq, Digit(1), Word(1)>>
         [] shape = "remark"   -> <<n, eq, Digit(1), Ch("#"), Word(3), Digit(2)>>
         [] shape = "twice"    -> <<n, eq, Digit(1), eq, Digit(2)>>
         [] shape = "space"    -> <<n, Word(1), eq, Digit(1)>>
         [] shape = "empty"    -> <<n, eq>>
         [] shape = "bare"     -> <<n>>
         [] shape = "comment"  -> <<Ch("#"), n, eq, Digit(1)>>
         [] shape = "essay"    -> <<Ch("#"), Word(120)>>
         [] shape = "unknown"  -> <<Word(40), eq, Digit(1)>>
         [] shape = "value"    -> <<eq, Digit(1)>>
         [] OTHER              -> <<>>
\* The value a well-formed line gives to its key.
Meant(shape) == CASE shape = "plain" -> 1 [] shape = "trailing" -> 1
                  [] shape = "big" -> 200 [] shape = "other" -> 5 [] shape = "negative" -> -7 [] OTHER -> 0
WellFormed == {"plain", "zero", "big", "other", "negative", "trailing"}
\* A line of a file, and whether a newline ends it.
Line(shape, k, ended) == [shape |-> shape, key |-> k, ended |-> ended]
Text(f) == FoldLeft(LAMBDA acc, l : acc \o LineOf(l.shape, l.key) \o
                                    (IF l.ended THEN <<Ch("newline")>> ELSE <<>>), <<>>, f)

FilesOf(c) == {<<Line("other", k, TRUE)>> : k \in Keys(c)}
              \cup {<<Line(ss[1], k1, TRUE), Line(ss[2], k2, e)>> :
                        ss \in (UcShapes \X UcPartners) \cup (UcPartners \X UcShapes),
                        k1 \in UcSome[c], k2 \in UcSome[c], e \in BOOLEAN}
              \cup {<<>>}

(***************************************************************************)
(* The parser.                                                             *)
(***************************************************************************)
\* command[30] in the loader driver, command[64] in the main driver and a
\* hundred in its copy, of which 64 are cleared; value[100] in all.
CommandSize(c) == IF c = "8801" THEN 30 ELSE 64
ValueSize == 100

IsDigit(x) == x.t = "digit"
Number(ds) == FoldLeft(LAMBDA acc, x : acc * 10 + x.d, 0, ds)
Unsigned(v) == IF v # <<>> /\ v[1].t = "-" THEN Tail(v) ELSE v
AllDigits(v) == \A i \in DOMAIN v : IsDigit(v[i])
\* A character that is no digit ends the loop with zero.
rwnx_atoi(v) ==
    LET digits == Unsigned(v)
        n == IF AllDigits(digits) THEN Number(digits) ELSE 0
    IN IF digits # v THEN -n ELSE n
\* The loader driver's copy works in eight bits throughout, which gives the
\* same byte; the sign is looked at inside the loop.
loader_atoi(v) == rwnx_atoi(v)
S8(n) == ((n + 128) % 256) - 128
U8(n) == n % 256
Enables == {"enable", "adj_enable", "ofst_enable"}
Stored(c, k, n) == IF c # "8801" /\ (k[1] \in Enables \cup {"lvl", "xtal"}
                   \/ (k[1] = "loss" /\ k[2] \in {"enable_2g4", "enable_5g"}))
                THEN U8(n) ELSE S8(n)

\* userconfig_info keeps the slots that were written; the others have their
\* defaults.
Table(c, info, s) == [f \in Fields(s) |->
    LET d == Defaults(c, s, f)
    IN [i \in DOMAIN d |-> IF <<s, f, i>> \in DOMAIN info THEN info[<<s, f, i>>] ELSE d[i]]]
Cells(c, k) == {<<s, k[1], IndexOf(c, k)>> : s \in TargetsOf(c, k[1])}

\* Mutated form for the runs: a branch that forgets the second structure.
OneTarget(info, c, k, n) == ((CHOOSE x \in Cells(c, k) : TRUE) :> Stored(c, k, n)) @@ info
\* rwnx_plat_nvram_set_value, its copy and the loader driver's function.
set_value(info, c, k, n) == [x \in Cells(c, k) |-> Stored(c, k, n)] @@ info

\* The locals of the parser: its state, what it collected of the line, the
\* tables, and what went wrong with which key.
Start(c, info) == [c |-> c, parse_state |-> "INIT", command |-> <<>>, value |-> <<>>, char_counter |-> 0,
                   gap |-> FALSE, info |-> info, upset |-> {}]
Known(p) == Len(p.command) = 1 /\ p.command[1].t = "name"
\* The key the line is about, as its writer meant it.
About(p) == IF p.command # <<>> /\ p.command[1].t = "name" THEN {p.command[1].key} ELSE {}
When(cond, e, p) == IF cond THEN {e} \X About(p) ELSE {}
Overrun(p, size, x) == IF p.char_counter + x.len >= size THEN {<<"overrun", x.t>>} ELSE {}

\* A newline applies the line when both parts are there, and starts afresh.
Apply(p) ==
    LET n == rwnx_atoi(p.value)
        k == p.command[1].key
    IN IF p.command # <<>> /\ p.value # <<>> /\ p.parse_state = "GET_VALUE"
       THEN IF Known(p)
            THEN [p EXCEPT !.info = set_value(p.info, p.c, k, n),
                           !.upset = @ \cup When(Stored(p.c, k, n) # n, "wrapped", p)
                                       \cup When(~AllDigits(Unsigned(p.value)), "notnumber", p)]
            ELSE [p EXCEPT !.upset = @ \cup When(TRUE, "unknown", p)]
       ELSE p
EndLine(p) == [Start(p.c, Apply(p).info) EXCEPT !.upset = Apply(p).upset]

\* Put a character at char_counter; nothing compares it with the array.
FillComment(p, x) ==
    [p EXCEPT !.command = <<Ch("mark")>>, !.value = Append(@, x), !.char_counter = @ + x.len,
              !.upset = @ \cup Overrun(p, ValueSize, x)]
FillCommand(p, x) ==
    IF p.command # <<>> /\ x.t = "="
    THEN [p EXCEPT !.parse_state = "GET_VALUE", !.char_counter = 0]
    ELSE [p EXCEPT !.parse_state = "CMD", !.command = Append(@, x), !.char_counter = @ + x.len,
                   !.upset = @ \cup Overrun(p, CommandSize(p.c), x)]
\* The main driver leaves out what is neither a digit nor a minus; the loader
\* driver keeps everything.
FillValue(p, x) ==
    IF p.c # "8801" /\ ~IsDigit(x) /\ x.t # "-"
    THEN [p EXCEPT !.gap = (p.value # <<>>)]
    ELSE [p EXCEPT !.value = Append(@, x), !.char_counter = @ + x.len,
                   !.upset = @ \cup When(p.gap, "glued", p) \cup Overrun(p, ValueSize, x)]

\* One turn of the loop.  The first character of a line decides whether it
\* is a comment.
ReadChar(p, x) ==
    CASE x.t = "newline"                              -> EndLine(p)
      [] x.t # "newline" /\ p.parse_state = "INIT" /\ x.t = "#" -> [p EXCEPT !.parse_state = "PRINT"]
      [] x.t # "newline" /\ p.parse_state = "PRINT"     -> FillComment(p, x)
      [] x.t # "newline" /\ p.parse_state = "GET_VALUE" -> FillValue(p, x)
      [] OTHER                                         -> FillCommand(p, x)
\* Mutated form for the runs: the loop ends one character early.
ShortLoop(c, info, text) == FoldLeft(ReadChar, Start(c, info), SubSeq(text, 1, Len(text) - 1))
\* A line at the end of the buffer that no newline ends is not applied.
rwnx_plat_userconfig_parsing(c, info, text) ==
    LET p == FoldLeft(ReadChar, Start(c, info), text)
    IN [p EXCEPT !.upset = @ \cup When(p.parse_state = "GET_VALUE" /\ p.value # <<>>, "unended", p)]
\* The two copies are the same loop: one sets the keys of two antennas, the
\* other has a shorter array and keeps every character of a value.
rwnx_plat_userconfig_parsing_8800d80x2(info, text) == rwnx_plat_userconfig_parsing("X2", info, text)
loader_userconfig_parsing(info, text) == rwnx_plat_userconfig_parsing("8801", info, text)
Parsed(c, info, text) == CASE c = "X2"   -> rwnx_plat_userconfig_parsing_8800d80x2(info, text)
                           [] c = "8801" -> loader_userconfig_parsing(info, text)
                           [] OTHER      -> rwnx_plat_userconfig_parsing(c, info, text)

(***************************************************************************)
(* The bring-up: the file is read, then the requests are sent.             *)
(***************************************************************************)
\* The tables are global: those of an earlier device are still there.
Stale(c) == {k \in Keys(c) : Cells(c, k) \cap DOMAIN userconfig_info # {}}
\* rwnx_plat_userconfig_load: the file of the chip, or nothing when it is
\* not found or empty.
rwnx_plat_userconfig_load(c, f) ==
    /\ uc_phase = "idle" /\ uc_plugs < MaxPlugs
    /\ uc_chip' = c /\ uc_file' = f /\ uc_plugs' = uc_plugs + 1
    /\ uc_phase' = "rf"
    /\ \E p \in {Parsed(c, userconfig_info, Text(f))} :
         /\ userconfig_info' = p.info
         /\ uc_upset' = uc_upset \cup ({"kept"} \X Stale(c)) \cup p.upset
    /\ UNCHANGED uc_sent

\* The getters copy a structure out.
get_userconfig_txpwr_lvl_v2_in_fdrv == Table(uc_chip, userconfig_info, "lvl_v2")
get_userconfig_txpwr_lvl_v3_in_fdrv == Table(uc_chip, userconfig_info, "lvl_v3")
get_userconfig_txpwr_lvl_v4_in_fdrv == Table(uc_chip, userconfig_info, "lvl_v4")
get_userconfig_txpwr_lvl_adj_in_fdrv == Table(uc_chip, userconfig_info, "adj")
get_userconfig_txpwr_ofst_in_fdrv == Table(uc_chip, userconfig_info, "ofst")
get_userconfig_txpwr_ofst2x_in_fdrv == Table(uc_chip, userconfig_info, "ofst2x")
get_userconfig_txpwr_ofst2x_v2_in_fdrv == Table(uc_chip, userconfig_info, "ofst2x_v2")
get_userconfig_txpwr_loss == Table("DC", userconfig_info, "loss").loss
get_userconfig_xtal_cap == Table("DC", userconfig_info, "xtal").xtal
get_userconfig_txpwr_idx == Table(uc_chip, userconfig_info, "loader_idx")
get_userconfig_txpwr_ofst == Table(uc_chip, userconfig_info, "loader_ofst")

\* The loss is taken from every slot of a band, in a signed byte.
LossOf(f) == LET loss == get_userconfig_txpwr_loss IN
    CASE f \in {"b_ag_2g4", "n_ac_2g4", "ax_2g4"} /\ loss[1] = 1 -> loss[2]
      [] f \in {"a_5g", "n_ac_5g", "ax_5g"} /\ loss[3] = 1       -> loss[4]
      [] OTHER                                                  -> 0
Levels(lvl) == [f \in DOMAIN lvl \ {"enable"} |->
    LET loss == LossOf(f) IN [i \in DOMAIN lvl[f] |-> S8(lvl[f][i] - loss)]]
\* The slots marked as not available are no exception.
Unmarked == IF uc_chip = "D81" /\ get_userconfig_txpwr_loss[3] = 1
            THEN {<<"a_5g", Rates[i]>> : i \in {j \in 1..12 : get_userconfig_txpwr_lvl_v3_in_fdrv.a_5g[j] = NA}} ELSE {}
Sends(on, table) == IF on # 0 THEN {table} ELSE {}

rwnx_send_txpwr_lvl_req ==
    LET l == get_userconfig_txpwr_lvl_v2_in_fdrv IN
    Sends(l.enable[1],
          IF uc_chip # "DC0" THEN [of |-> "lvl_v2", t |-> Levels(l)]
          ELSE [of |-> "lvl", t |-> [lvl |->
                  <<Levels(l).b_ag_2g4[4], Levels(l).ax_2g4[5], Levels(l).ax_2g4[8], Levels(l).ax_2g4[10],
                    Levels(l).ax_2g4[12], 13, 13, 13, 13>>]])
rwnx_send_txpwr_lvl_v3_req ==
    LET l == get_userconfig_txpwr_lvl_v3_in_fdrv IN
    Sends(l.enable[1], [of |-> "lvl_v3", t |-> Levels(l)])
rwnx_send_txpwr_lvl_v4_req ==
    LET l == get_userconfig_txpwr_lvl_v4_in_fdrv IN
    Sends(l.enable[1], [of |-> "lvl_v4", t |-> Levels(l)])
rwnx_send_txpwr_lvl_adj_req ==
    LET a == get_userconfig_txpwr_lvl_adj_in_fdrv IN Sends(a.adj_enable[1], [of |-> "adj", t |-> a])
rwnx_send_txpwr_ofst_req ==
    LET o == IF uc_chip = "8801" THEN get_userconfig_txpwr_ofst ELSE get_userconfig_txpwr_ofst_in_fdrv
    IN Sends(o.ofst_enable[1], [of |-> (IF uc_chip = "8801" THEN "loader_ofst" ELSE "ofst"), t |-> o])
rwnx_send_txpwr_ofst2x_req ==
    LET o == get_userconfig_txpwr_ofst2x_in_fdrv IN Sends(o.ofst_enable[1], [of |-> "ofst2x", t |-> o])
rwnx_send_txpwr_ofst2x_v2_req ==
    LET o == get_userconfig_txpwr_ofst2x_v2_in_fdrv IN Sends(o.ofst_enable[1], [of |-> "ofst2x_v2", t |-> o])
rwnx_send_txpwr_idx_req == {[of |-> "loader_idx", t |-> get_userconfig_txpwr_idx]}
\* The crystal's capacitance goes with the calibration request.  The getter
\* is the main driver's own for every chip, also where the loader read it.
rwnx_send_rf_calib_req ==
    LET x == get_userconfig_xtal_cap
    IN {[of |-> "xtal", t |-> [xtal |-> IF x[1] # 0 THEN <<x[2], x[3]>> ELSE <<0, 0>>]]}

\* rwnx_ic_rf_init: the requests of the chip, in order.
ChipRequests == CASE uc_chip = "8801" -> rwnx_send_txpwr_idx_req \cup rwnx_send_txpwr_ofst_req \cup rwnx_send_rf_calib_req
                  [] uc_chip \in {"DC", "DC0"} -> rwnx_send_txpwr_lvl_req \cup rwnx_send_txpwr_ofst_req \cup rwnx_send_rf_calib_req
                  [] uc_chip = "D81"  -> rwnx_send_txpwr_lvl_v3_req \cup rwnx_send_txpwr_lvl_adj_req
                                      \cup rwnx_send_txpwr_ofst2x_req \cup rwnx_send_rf_calib_req
                  [] OTHER         -> rwnx_send_txpwr_lvl_v4_req \cup rwnx_send_txpwr_lvl_adj_req
                                      \cup rwnx_send_txpwr_ofst2x_v2_req \cup rwnx_send_rf_calib_req
rwnx_ic_rf_init ==
    /\ uc_phase = "rf"
    /\ uc_phase' = "up" /\ uc_sent' = ChipRequests
    /\ uc_upset' = uc_upset \cup ({"marked"} \X Unmarked) \cup
                (IF uc_chip = "8801" THEN {"unread"} \X {<<"xtal", x>> : x \in Range(XtalItems)} ELSE {})
    /\ UNCHANGED <<uc_chip, uc_file, userconfig_info, uc_plugs>>

\* Bound: files before and after a change of device have one line, of one of
\* the few keys.
Few(c, f) == Len(f) <= 1 /\ \A i \in DOMAIN f : f[i].key \in UcSome[c]
FewFiles(c) == {<<Line("other", k, TRUE)>> : k \in UcSome[c]} \cup {<<>>}
\* The device is unplugged; the module stays, and so do its tables.
Unplug ==
    /\ uc_phase = "up" /\ Few(uc_chip, uc_file)
    /\ uc_phase' = "idle" /\ uc_sent' = {} /\ uc_file' = <<>>
    /\ UNCHANGED <<uc_chip, userconfig_info, uc_plugs, uc_upset>>

UcInit ==
    /\ uc_chip = CHOOSE c \in UcChips : TRUE
    /\ uc_phase = "idle" /\ uc_file = <<>>
    /\ userconfig_info = <<>>
    /\ uc_sent = {} /\ uc_plugs = 0 /\ uc_upset = {}

Load == /\ uc_phase = "idle" /\ uc_plugs < MaxPlugs
        /\ \E c \in UcChips : \E f \in (IF uc_plugs = 0 THEN FilesOf(c) ELSE FewFiles(c)) :
              rwnx_plat_userconfig_load(c, f)
UcNext == Load \/ rwnx_ic_rf_init \/ Unplug

Spec == UcInit /\ [][UcNext]_ucVars

-----------------------------------------------------------------------------
TypeOK ==
    /\ uc_phase \in {"idle", "rf", "up"} /\ uc_plugs \in 0..MaxPlugs
    /\ \A x \in DOMAIN userconfig_info : userconfig_info[x] \in -128..255

\* What the file asks for a key of the chip: the last well-formed line that
\* names it, else the default.
Naming(k) == {i \in DOMAIN uc_file : uc_file[i].key = k /\ uc_file[i].shape \in WellFormed}
Asked(k) ==
    IF Naming(k) # {} THEN Meant(uc_file[CHOOSE i \in Naming(k) : \A j \in Naming(k) : j <= i].shape)
    ELSE Defaults(uc_chip, CHOOSE s \in TargetsOf(uc_chip, k[1]) : s \notin {"lvl", "ofst2x"} \/ TargetsOf(uc_chip, k[1]) = {s}, k[1])[IndexOf(uc_chip, k)]
Spoiled == {e[2] : e \in {x \in uc_upset : x[1] # "overrun"}}
Good(k) == k \notin Spoiled
Loss2g4 == IF Asked(<<"loss", "enable_2g4">>) = 1 THEN Asked(<<"loss", "value_2g4">>) ELSE 0
Loss5g  == IF Asked(<<"loss", "enable_5g">>) = 1 THEN Asked(<<"loss", "value_5g">>) ELSE 0
LossGood == \A x \in Range(LossItems) : Good(<<"loss", x>>)
\* The level the firmware should use for a key, given the loss of its band.
Level(k, loss) == IF Asked(k) = NA THEN NA ELSE Asked(k) - loss
\* An array of levels carries what was asked for each of its rates.
ArrayRight(f, levels, loss, spoiled) ==
    LET names == ItemsOf(uc_chip, f) IN
    \A i \in DOMAIN levels : <<f, names[i]>> \in spoiled \/ levels[i] = Level(<<f, names[i]>>, loss)

LevelsArrive == uc_chip # "8801" /\ LossGood =>
    \E loss2g4 \in {Loss2g4}, loss5g \in {Loss5g}, spoiled \in {Spoiled} :
    \A m \in uc_sent : m.of \in {"lvl_v2", "lvl_v3", "lvl_v4"} =>
        \A f \in DOMAIN m.t :
            ArrayRight(f, m.t[f], IF f \in {"b_ag_2g4", "n_ac_2g4", "ax_2g4"} THEN loss2g4 ELSE loss5g, spoiled)
\* The oldest revision of the DC chip takes five levels, of the rates named here.
OldRates == <<<<"b_ag_2g4", "11m">>, <<"ax_2g4", "mcs4">>, <<"ax_2g4", "mcs7">>, <<"ax_2g4", "mcs9">>,
              <<"ax_2g4", "mcs11">>>>
OldLevelsArrive ==
    \A m \in uc_sent : m.of = "lvl" /\ LossGood =>
        \A i \in DOMAIN OldRates : Good(OldRates[i]) => m.t.lvl[i] = Level(OldRates[i], Loss2g4)
\* The other tables carry what was asked for; the columns no key names are
\* exempt.
TablesArrive ==
    \E spoiled \in {Spoiled} :
    \A m \in uc_sent : m.of \in {"adj", "ofst", "ofst2x", "ofst2x_v2", "loader_idx", "loader_ofst"} =>
        \A f \in DOMAIN m.t :
            ArrayRight(f, m.t[f], 0, spoiled \cup {k \in {<<f, x>> : x \in Range(ItemsOf(uc_chip, f))} : Hole(k)})
\* The crystal's trim reaches the firmware when it is enabled.
CrystalArrives ==
    \A m \in uc_sent : m.of = "xtal" /\ (\A x \in Range(XtalItems) : Good(<<"xtal", x>>)) =>
        m.t.xtal = IF Asked(<<"xtal", "enable">>) # 0
                   THEN <<Asked(<<"xtal", "cap">>), Asked(<<"xtal", "cap_fine">>)>> ELSE <<0, 0>>
\* The table of a chip is sent exactly when its key enables it.
EnabledSent ==
    /\ uc_chip # "8801" /\ Good(<<"enable", "enable">>) =>
          ((\E m \in uc_sent : m.of \in {"lvl", "lvl_v2", "lvl_v3", "lvl_v4"}) <=> Asked(<<"enable", "enable">>) # 0)
    /\ Good(<<"ofst_enable", "enable">>) /\ Naming(<<"ofst_enable", "enable">>) # {} =>
          ((\E m \in uc_sent : m.of \in {"ofst", "ofst2x", "ofst2x_v2", "loader_ofst"})
              <=> Asked(<<"ofst_enable", "enable">>) # 0)

\* What the firmware is told is what the file says: each slot of each table
\* carries the last well-formed line of its key or the default, less the
\* loss of its band.  A key is exempt when its own line went wrong: digits
\* glued over other characters, a number beyond a byte, a line the parser
\* does not know or that no newline ends, a value left by an earlier device,
\* a slot without a rate the loss was taken from.  Nothing is claimed after
\* a line longer than the parser's arrays.
UserConfSound ==
    uc_phase = "up" /\ (\A e \in uc_upset : e[1] # "overrun") =>
        LevelsArrive /\ OldLevelsArrive /\ TablesArrive /\ CrystalArrives /\ EnabledSent
=============================================================================
