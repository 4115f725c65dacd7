-------------------------------- MODULE Ttlv --------------------------------
(* Data points on their way from the device to the entities: the fields of a  *)
(* payload (parse_fields), the dictionary made of them (fields_to_kv with the *)
(* tables of const.py), and what sensors, switches and selects look up in it  *)
(* (_get_field).  A name of the tables stands as the numbers that lead to it: *)
(* <<35, 1>> is host_packet_data_jdb / host_packet_electric_percentage.  A    *)
(* value is a sequence of integers: a bit, a number and its decimals, bytes   *)
(* (those of a text as well), or the count of a STRUCT.                       *)
EXTENDS Integers, SequencesExt

Byte == 0..255

Word(n) == <<n \div 256, n % 256>>
FromBytes(s) ==
    LET upTo[n \in 0 .. Len(s)] == IF n = 0 THEN 0 ELSE upTo[n - 1] * 256 + s[n]
    IN upTo[Len(s)]

\* A slice of Python's: n bytes from the i-th on, or what there is of them.
Slice(s, i, n) == SubSeq(s, i, IF i + n - 1 <= Len(s) THEN i + n - 1 ELSE Len(s))

-----------------------------------------------------------------------------
(* Fields.  A definition that only PROJECT.json uses (FitsAlways, KeepFirst,  *)
(* OneTooMany, StepInto) is a faulty variant of the one that follows it.      *)

Field(id, type, val) == [id |-> id, type |-> type, val |-> val]

\* A number is a byte of sign, decimals and size, and the bytes of its magnitude.
Size(meta) == (meta % 8) + 1
Number(meta, magnitude) ==
    <<IF meta \div 128 = 1 THEN -magnitude ELSE magnitude, (meta \div 8) % 16>>

FitsAlways(p, i) == i <= Len(p)
Fits(p, i) == i <= Len(p) /\ i + Size(p[i]) <= Len(p)

\* The fields of p from each of its bytes on, as far as they are whole.
ParseFrom(p) ==
    LET from[i \in Nat \ {0}] ==
            IF i >= Len(p) THEN <<>>
            ELSE LET id == FromBytes(Slice(p, i, 2)) \div 8
                     type == p[i + 1] % 8
                     at == i + 2
                     word == FromBytes(Slice(p, at, 2))
                 IN CASE type \in {0, 1} ->
                            <<Field(id, "BOOL", <<type>>)>> \o from[at]
                      [] type = 2 /\ Fits(p, at) ->
                            LET magnitude == FromBytes(Slice(p, at + 1, Size(p[at]))) IN
                            <<Field(id, "NUM", Number(p[at], magnitude))>> \o from[at + 1 + Size(p[at])]
                      [] type \in {3, 5} /\ at < Len(p) ->
                            <<Field(id, "BYTES", Slice(p, at + 2, word))>> \o from[at + 2 + word]
                      [] type = 4 /\ at < Len(p) ->
                            <<Field(id, "STRUCT", <<word>>)>> \o from[at + 2]
                      [] OTHER -> <<>>
    IN from

ParseFields(p) == ParseFrom(p)[1]

\* How the device writes a field.
BuildBytesField(f) == Word(f.id * 8 + 3) \o Word(Len(f.val)) \o f.val
BuildNumber(f) ==
    LET n == IF f.val[1] < 0 THEN -f.val[1] ELSE f.val[1]
        magnitude == IF n < 256 THEN <<n>> ELSE Word(n)
    IN Word(f.id * 8 + 2)
       \o <<(IF f.val[1] < 0 THEN 128 ELSE 0) + f.val[2] * 8 + Len(magnitude) - 1>> \o magnitude
BuildField(f) ==
    CASE f.type = "BOOL" -> Word(f.id * 8 + f.val[1])
      [] f.type = "NUM" -> BuildNumber(f)
      [] f.type = "BYTES" -> BuildBytesField(f)
      [] f.type = "STRUCT" -> Word(f.id * 8 + 4) \o Word(f.val[1])
BuildFields(fs) == FlattenSeq([i \in DOMAIN fs |-> BuildField(fs[i])])

-----------------------------------------------------------------------------
(* The dictionary that fields_to_kv makes of fields: an entry is the value or *)
(* the text of a data point, the dict of a STRUCT's members, or the list of   *)
(* packs.                                                                     *)

TslTop == (1..5) \cup (27..52) \cup {55, 56, 86, 87} \cup (89..95) \cup {100}
Packs == 36

Entry(shape, of) == [shape |-> shape, of |-> of]
NoEntry == Entry("none", <<>>)
Leaf(f) == Entry(IF f.type = "BYTES" THEN "text" ELSE "value", f.val)
Get(kv, id) == IF id \in DOMAIN kv THEN kv[id] ELSE NoEntry
KeepFirst(kv, id, entry) == [x \in DOMAIN kv \cup {id} |-> IF x \in DOMAIN kv THEN kv[x] ELSE entry]
Set(kv, id, entry) == [x \in DOMAIN kv \cup {id} |-> IF x = id THEN entry ELSE kv[x]]

OneTooMany(fs, i) == fs[i].val[1] + 1
Count(fs, i) == fs[i].val[1]

\* Where a pack ends: its fields are counted, the STRUCTs among them are not.
PackEnd(fs, j) ==
    LET Counted(k) == Cardinality({l \in j + 1 .. k - 1 : fs[l].type # "STRUCT"})
    IN Min({k \in j + 1 .. Len(fs) : Counted(k) = fs[j].val[1]} \cup {Len(fs) + 1})

IsPack(fs, i, j) == fs[i].id = Packs /\ fs[j].type = "STRUCT"
MemberEnd(fs, i, j) ==
    IF j > Len(fs) THEN j ELSE IF IsPack(fs, i, j) THEN PackEnd(fs, j) ELSE j + 1

\* Where the members of the STRUCT at i begin, the first being number 0.
MemberAt(fs, i) ==
    LET at[n \in 0 .. Count(fs, i)] == IF n = 0 THEN i + 1 ELSE MemberEnd(fs, i, at[n - 1])
    IN at
Members(fs, i) == {MemberAt(fs, i)[n] : n \in 0 .. Count(fs, i) - 1} \cap DOMAIN fs

\* Of several members with one number the last one wins.
Dict(fs, where) ==
    [id \in {fs[k].id : k \in where} |->
        Leaf(fs[CHOOSE k \in where : fs[k].id = id /\ \A l \in where : fs[l].id = id => l <= k])]
Pack(fs, j) == Dict(fs, {k \in j + 1 .. PackEnd(fs, j) - 1 : fs[k].type # "STRUCT"})

PacksIn(fs, i) ==
    FlattenSeq([n \in 1 .. Count(fs, i) |->
        LET j == MemberAt(fs, i)[n - 1] IN
        IF j \in DOMAIN fs /\ IsPack(fs, i, j) THEN <<Pack(fs, j)>> ELSE <<>>])

\* The packs go behind the ones of an earlier STRUCT, which must be a list.
PutStruct(fs, kv, i) ==
    LET packs == PacksIn(fs, i)
        old == Get(kv, fs[i].id)
    IN IF packs # <<>>
       THEN [ok |-> old.shape \in {"none", "list"}, kv |-> Set(kv, fs[i].id, Entry("list", old.of \o packs))]
       ELSE [ok |-> TRUE,
             kv |-> IF old.shape = "list" THEN kv
                    ELSE Set(kv, fs[i].id, Entry("dict", Dict(fs, Members(fs, i))))]

Put(fs, kv, i) ==
    IF fs[i].id \notin TslTop THEN [ok |-> TRUE, kv |-> kv]
    ELSE IF fs[i].type = "STRUCT" THEN PutStruct(fs, kv, i)
    ELSE [ok |-> TRUE, kv |-> Set(kv, fs[i].id, Leaf(fs[i]))]

\* A STRUCT that TSL_TOP does not know is passed over without its members, which
\* then count as data points of their own.
StepInto(fs, i) == i + 1
StepOver(fs, i) ==
    IF fs[i].type = "STRUCT" /\ fs[i].id \in TslTop THEN MemberAt(fs, i)[Count(fs, i)] ELSE i + 1

\* After so many rounds of the loop: ok as long as it has not raised, where it is,
\* and what it has made.
EmptyKv == <<>>
Round(fs, done) ==
    LET put == Put(fs, done.kv, done.i)
    IN [ok |-> put.ok, i |-> StepOver(fs, done.i), kv |-> put.kv]
Rounds(fs) ==
    LET after[n \in 0 .. Len(fs)] ==
            IF n = 0 THEN [ok |-> TRUE, i |-> 1, kv |-> EmptyKv]
            ELSE LET done == after[n - 1]
                 IN IF ~done.ok \/ done.i > Len(fs) THEN done ELSE Round(fs, done)
    IN after

\* No round goes back: there are no more of them than fields.
FieldsToKv(fs) == Rounds(fs)[Len(fs)]

-----------------------------------------------------------------------------
(* What the entities show.  A sensor that has no number here never finds a    *)
(* value: TSL_STRUCT names no member for the paths of the solar ports.        *)

SensorFields ==
    [battery_percent |-> <<<<35, 1>>, <<1>>>>, voltage |-> <<<<35, 2>>>>, current |-> <<<<35, 3>>>>,
     temperature |-> <<<<35, 4>>, <<47>>>>, battery_temp |-> <<<<47>>>>,
     charging_plate_temp |-> <<<<48>>>>, inverter_temp |-> <<<<49>>>>, charge_status |-> <<<<35, 5>>>>,
     total_input_power |-> <<<<4>>>>, total_output_power |-> <<<<5>>>>,
     ac_output_power |-> <<<<31, 4>>>>, ac_output_voltage |-> <<<<31, 2>>>>,
     ac_output_hz |-> <<<<31, 1>>>>, ac_output_pf |-> <<<<31, 3>>>>,
     ac_input_power |-> <<<<29, 1>>>>, dc_output_power |-> <<<<30, 1>>>>, dc_input_power |-> <<<<28, 1>>>>,
     remain_time |-> <<<<2>>>>, remain_charging_time |-> <<<<3>>>>,
     ac_charging_power |-> <<<<50>>>>, device_status_hm |-> <<<<37>>>>]

SwitchFields ==
    [ac_switch_hm |-> <<<<40>>>>, dc_switch_hm |-> <<<<38>>>>, ups_status_hm |-> <<<<27>>>>,
     device_touch_locking_as |-> <<<<42>>>>, auto_light_flag_as |-> <<<<43>>>>, eco_quite_mode_as |-> <<<<44>>>>]

SelectFields ==
    [ac_charging_power_ios |-> <<<<50>>>>, machine_screen_light_as |-> <<<<45>>>>,
     device_standy_times_as |-> <<<<51>>>>, ac_output_voltage_io |-> <<<<32>>>>,
     ac_output_frequency_io |-> <<<<33>>>>, noastime_io |-> <<<<34>>>>]

Options == [ac_charging_power_ios |-> 11, machine_screen_light_as |-> 5, device_standy_times_as |-> 5,
            ac_output_voltage_io |-> 6, ac_output_frequency_io |-> 2, noastime_io |-> 5]
Labels == [device_status_hm |-> 0..5, charge_status |-> 0..4]

Entities == DOMAIN SensorFields \cup DOMAIN SwitchFields \cup DOMAIN SelectFields
Paths ==
    [e \in Entities |-> IF e \in DOMAIN SensorFields THEN SensorFields[e]
                        ELSE IF e \in DOMAIN SwitchFields THEN SwitchFields[e] ELSE SelectFields[e]]

\* The entry that a path leads to, whatever it is, as a sequence of at most one.
At(kv, path) ==
    LET entry == Get(kv, path[1])
    IN CASE entry.shape # "none" /\ Len(path) = 1 -> <<entry>>
         [] entry.shape = "dict" /\ Len(path) = 2 /\ Last(path) \in DOMAIN entry.of -> <<entry.of[path[2]]>>
         [] OTHER -> <<>>
GetField(kv, paths) ==
    LET found == {n \in DOMAIN paths : At(kv, paths[n]) # <<>>}
    IN IF found = {} THEN <<>> ELSE At(kv, paths[Min(found)])

\* int() of a number: towards zero.
ToInt(v) ==
    LET magnitude == (IF v[1] < 0 THEN -v[1] ELSE v[1]) \div (IF Len(v) = 1 THEN 1 ELSE 10 ^ v[2])
    IN IF v[1] < 0 THEN -magnitude ELSE magnitude

\* bool(): of a number, or of what may be empty.
Truth(entry) == IF entry.shape = "value" THEN entry.of[1] # 0 ELSE entry.of # <<>>

\* What an entity makes of what it finds: a switch its truth; a select the option
\* by its index, which may count from the end; a label by its number; the rest as
\* it is.  What number a text spells is left open.
Display(e, entry) ==
    LET n == ToInt(entry.of)
        numbered == e \in DOMAIN Options \cup DOMAIN Labels
    IN CASE e \in DOMAIN SwitchFields -> <<"is_on", Truth(entry)>>
         [] numbered /\ entry.shape = "text" -> <<"by the number in", entry.of>>
         [] numbered /\ entry.shape \in {"dict", "list"} ->
               IF e \in DOMAIN Options THEN <<>> ELSE <<"raises">>
         [] e \in DOMAIN Options /\ entry.shape = "value" ->
               IF n \in -Options[e] .. Options[e] - 1 THEN <<"option", n % Options[e]>> ELSE <<>>
         [] e \in DOMAIN Labels /\ entry.shape = "value" /\ n \in Labels[e] -> <<"label", n>>
         [] OTHER -> <<"raw", entry>>

Shows(e, kv) ==
    LET found == GetField(kv, Paths[e])
    IN IF found = <<>> THEN <<>> ELSE Display(e, found[1])
=============================================================================
