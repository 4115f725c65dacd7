------------------------------ MODULE MCStatus ------------------------------
(* The reports of a small device: numbers of one byte, of two, negative and   *)
(* with decimals; packs, no packs, a STRUCT that TSL_TOP does not know, and   *)
(* one that a switch takes for its own value.                                 *)
EXTENDS Status

Num(id, n, decimals) == Field(id, "NUM", <<n, decimals>>)
Struct(id, count) == Field(id, "STRUCT", <<count>>)

Plain(field) == [field |-> field, members |-> <<>>]
Of(field, members) == [field |-> field, members |-> members]

MCReports ==
    << << Plain(Num(4, 300, 0)),
          Of(Struct(35, 2), << <<Num(4, -51, 1)>>, <<Num(5, 3, 0)>> >>),
          Plain(Field(40, "BOOL", <<1>>)) >>,
       << Plain(Struct(36, 0)),
          Of(Struct(35, 1), << <<Num(5, 19, 1)>> >>),
          Plain(Field(40, "BYTES", <<7, 200>>)),
          Plain(Num(33, -1, 0)) >>,
       << Of(Struct(36, 2), << <<Struct(1, 2), Num(1, 1, 0), Num(2, 60, 0)>>, <<Struct(2, 1), Num(2, 61, 0)>> >>),
          Of(Struct(38, 1), << <<Num(1, 1, 0)>> >>) >>,
       << Of(Struct(60, 1), << <<Num(4, 8, 0)>> >>),
          Plain(Field(40, "BOOL", <<0>>)) >> >>
=============================================================================
