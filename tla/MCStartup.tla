------------------------------ MODULE MCStartup ------------------------------
(* A first file of a section line and up to three lines out of nine, good and  *)
(* bad, or one of a few special files, and a second file, as in the directory  *)
(* of further files; two scanner modules and the two built-in scan modules.    *)
EXTENDS Startup, TLC

W(v) == Lexeme("word", v)
Q(v) == Lexeme("quoted", v)
I(v) == Lexeme("int", v)
P(c) == Lexeme(c, "")
Key(name) == <<W(name), Blank, P("=")>>

OnDemand == <<P("["), W("ondemand"), P("]"), Newline>>
OnAccess == <<P("["), W("onaccess"), P("]"), Newline>>
Unknown == <<P("["), Q("my section"), P("]"), Newline>>
Quoted == <<P("["), Q("unknown"), P("]"), Newline>>
ModuleM1 == <<P("["), W("m1"), P("]"), Newline>>
Two == Key("modules") \o <<Blank, W("m1"), P(","), Blank, Q("m2"), Newline>>
Missing == Key("modules") \o <<W("m1"), P(","), W("m9"), Newline>>
One == Key("modules") \o <<W("m2"), Newline>>
All == Key("types") \o <<Blank, Q("*"), Blank, Newline>>
Size == Key("size") \o <<Blank, I("7"), Newline>>
Large == Key("size") \o <<Blank, I("4294967295"), Newline>>
Negative == Key("size") \o <<Blank, P("junk"), I("5"), Newline>>
Word == Key("size") \o <<Blank, W("m1"), Newline>>
NoValue == Key("size") \o <<Blank, Newline>>
Nothing == Key("size") \o <<Newline>>
Comment == <<P("comment")>>
HalfList == Key("modules") \o <<W("m1"), P(","), Newline>>
Unended == Key("white") \o <<Blank, W("m1")>>
White == Key("white") \o <<Blank, Q("m1"), Newline>>
OddKey == <<Q("1 key"), P("="), Q("m1"), Newline>>

Def(name, type, items) == [kind |-> "definition", name |-> name, value |-> Value(type, items)]
Section(name) == [kind |-> "section", name |-> name]
Bad == [kind |-> "bad", name |-> NULL]

MCMeaning ==
    OnDemand :> Section("ondemand") @@ OnAccess :> Section("onaccess") @@ Unknown :> Section("my section")
    @@ Quoted :> Section("unknown") @@ ModuleM1 :> Section("m1")
    @@ Two :> Def("modules", "list", <<"m1", "m2">>) @@ One :> Def("modules", "string", <<"m2">>)
    @@ Missing :> Def("modules", "list", <<"m1", "m9">>)
    @@ All :> Def("types", "string", <<"*">>) @@ Size :> Def("size", "int", <<"7">>)
    @@ Word :> Def("size", "string", <<"m1">>) @@ White :> Def("white", "string", <<"m1">>)
    @@ Large :> Def("size", "int", <<"-1">>) @@ OddKey :> Def("1 key", "string", <<"m1">>)
    @@ Negative :> Bad @@ Nothing :> Bad @@ Unended :> Bad
    @@ HalfList :> [kind |-> "unfinished", name |-> NULL] @@ NoValue :> [kind |-> "unfinished", name |-> NULL]
    @@ Comment :> [kind |-> "nothing", name |-> NULL]

Lines == {OnAccess, Two, One, All, Size, Negative, Word, NoValue, Comment}
First == UNION {{<<OnDemand>> \o f : f \in [1..i -> Lines]} : i \in 0..3}
         \cup {<<One>>, <<OnDemand, All, HalfList>>, <<OnDemand, Nothing, All>>, <<OnDemand, White, Unended>>,
               <<OnDemand, All, Unended>>, <<OnDemand, Large, All>>, <<OnDemand, All, OddKey>>, <<Quoted, White>>}
Second == {NULL, <<OnDemand, Size, All>>, <<Unknown, White>>, <<ModuleM1, Size, White, OnAccess, Missing>>}
MCStart == {<<f, g>> : f \in First, g \in Second}

MCNewValues == {Value("list", <<"m2">>), Value("list", <<>>), Value("string", <<"m2">>), Value("int", <<"-1">>)}
\* Texts that are words, and that are not; numbers, and what 2^32 - 1 is as an int.
MCBare ==
    [t \in {"ondemand", "onaccess", "unknown", "m1", "m2", "m9", "modules", "types", "size", "white"} |-> <<W(t)>>]
    @@ "my section" :> <<W("my"), Blank, W("section")>> @@ "1 key" :> <<I("1"), Blank, W("key")>>
    @@ "*" :> <<P("junk")>> @@ "7" :> <<I("7")>> @@ "-1" :> <<P("junk"), I("1")>>
MCAtoi == "7" :> "7" @@ "1" :> "1" @@ "4294967295" :> "-1"
MCModules == <<"ondemand", "onaccess", "m1", "m2">>
MCFunctions == "ondemand" :> {} @@ "onaccess" :> {"init", "post_init", "close"} @@ "m1" :> {"init"} @@ "m2" :> {}
ThreadSymmetry == Permutations(Threads)
ScanTable == [modules |-> {"string", "list"}, types |-> {"string", "list"}, white |-> {"string", "list"},
              size |-> {"int"}]
MCConfTable == [m \in Range(MCModules) |->
                    CASE m = "m1" -> [white |-> {"string"}] [] m = "m2" -> <<>> [] OTHER -> ScanTable]
MCSupports == "m1" :> {"*"} @@ "m2" :> {"y1"} @@ "ondemand" :> {} @@ "onaccess" :> {}
==============================================================================
