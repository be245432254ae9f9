------------------------------ MODULE MCQueries ------------------------------
(***************************************************************************)
(* Queries with integers of four bits: every value that is at an edge of   *)
(* the conversions, and arguments that leave parameters out, are too many, *)
(* or fail after one of them was bound.                                    *)
(***************************************************************************)
EXTENDS Queries

Of(type, datas) == [i \in DOMAIN datas |-> Value(type, datas[i])]
Ints(type, first, last) == [i \in 1 .. last - first + 1 |-> Value(type, <<first + i - 1>>)]
One == Value("number", <<1>>)

Lists ==
    {Ints("bigint", -8, -1), Ints("bigint", 0, 7),
     Of("number", <<<<-4>>, <<-3>>, <<3>>, <<4>>, <<1, 2>>, <<>>>>)
     \o <<Value("boolean", <<1>>), Value("Date", <<50, 48>>)>>,
     Of("string", <<<<0>>, <<127>>, <<128>>, <<2047>>, <<2048>>, <<55296>>, <<65279>>, <<65535>>>>),
     Of("string", <<<<65536>>, <<1114111>>, <<>>, <<65, 0, 66>>, <<1114111, 65536>>,
                    <<65279, 2048, 127, 127>>, <<128, 65536, 2047, 127>>,
                    <<65536, 65279, 1114111>>>>),
     Of("Uint8Array", <<<<>>, <<0, 255>>>>) \o <<Value("undefined", <<>>), One>>}

MCArguments ==
    [known : {TRUE},
     values : Lists \cup {<<>>, <<One>>, [i \in 1 .. 9 |-> One],
                          <<One, Value("object", <<>>)>>,
                          <<One, Value("bigint", <<8>>)>>, <<Value("bigint", <<-9>>)>>}]
    \cup {[known |-> FALSE, values |-> <<One>>]}

\* A column is renamed.
MCSchemas == {<<"a", "b">>, <<"a", "c">>}

\* NaN, and an array without bytes
MCEmpty == [known : {TRUE}, values : {<<Value("number", <<>>), Value("Uint8Array", <<>>)>>}]
==============================================================================
