------------------------------- MODULE MCUciSet ------------------------------
EXTENDS UciSet

Sec(id, type, opts) == [id |-> id, type |-> type, anon |-> FALSE, opts |-> opts]
Anon(id, type, opts) == [id |-> id, type |-> type, anon |-> TRUE, opts |-> opts]
Want(name, opts) == [name |-> name, opts |-> opts]
Type(type, sections) == [type |-> type, sections |-> sections]
Cfg(mode, types) == [mode |-> mode, delete |-> FALSE, bad |-> FALSE, types |-> types]
File(secs) == [exists |-> TRUE, secs |-> secs]
NoPackage == [exists |-> FALSE, secs |-> <<>>]

One == "o" :> <<"1">>
Two == "o" :> <<"2">>
Other == "q" :> <<"1">>
List == "l" :> <<"1", "2", "1">>
Both == One @@ Other

\* The file's sections: none, a named one, two anonymous ones, and a mixture.
Files == {NoPackage, File(<<>>),
          File(<<Sec("x", "T", Both @@ List)>>),
          File(<<Anon("cfg1", "T", One), Anon("cfg2", "T", Other)>>),
          File(<<Anon("cfg1", "U", One), Sec("x", "U", One), Anon("cfg2", "T", Both), Sec("y", "T", Two)>>)}

\* Wanted sections, each list in both modes.
Lists == {<<Type("T", <<Want("x", Two)>>)>>,
          <<Type("T", <<Want("", Two)>>)>>,
          <<Type("T", <<Want("", One), Want("x", Other), Want("", <<>>)>>), Type("U", <<Want("", Two)>>)>>,
          <<Type("U", <<Want("", Both), Want("", One), Want("", Other)>>)>>}

Configs ==
  {Cfg(mode, types) : mode \in {"merge", "replace"}, types \in Lists}
    \cup {[Cfg("merge", <<Type("T", <<Want("x", One)>>)>>) EXCEPT !.delete = TRUE],
          [Cfg("replace", <<>>) EXCEPT !.bad = TRUE]}

\* Lines.
Nowhere == [type |-> "", name |-> "", index |-> 0]
Named(n) == [type |-> "", name |-> n, index |-> 0]
Pos(t, i) == [type |-> t, name |-> "", index |-> i]
L(verb, pkg, at, opt, arg) == [verb |-> verb, pkg |-> pkg, at |-> at, opt |-> opt, arg |-> arg]
CommitLine == L("commit", "a", Nowhere, "", "")
RevertLine == L("revert", "a", Nowhere, "", "")

MCScripts ==
  { <<L("set", "a", Named("x"), "", "U"), L("set", "a", Named("x"), "o", <<"2">>), CommitLine>>,
    <<L("add", "a", Nowhere, "", "T"), L("set", "a", Pos("T", -1), "o", <<"3">>)>>,
    <<L("add_list", "a", Named("x"), "l", <<"3">>), L("add_list", "a", Named("x"), "n", <<"1">>), CommitLine>>,
    <<L("del_list", "a", Named("x"), "l", <<"1">>), L("del_list", "a", Named("x"), "l", <<"2">>)>>,
    <<L("delete", "a", Pos("T", 0), "", ""), L("delete", "a", Pos("T", 0), "o", ""), RevertLine>>,
    <<L("bad", "a", Nowhere, "", ""), L("delete", "a", Named("x"), "", ""), CommitLine>>,
    <<L("get", "a", Named("x"), "o", ""), L("set", "b", Named("x"), "o", <<"1">>), CommitLine>> }

ASSUME MCAddressed == AllAddressed
ASSUME MCSound == AllSound

NoScripts == {}
AScripts == {s \in MCScripts : \A i \in DOMAIN s : s[i].pkg = "a"}

MCAnonIds == {"cfg1", "cfg2", "cfg3", "cfg4", "cfg5", "cfg6", "cfg7", "cfg8", "cfg9", "cfg10", "cfg11", "cfg12"}

\* One wide package, and a second one that exists or not; commands for either
\* and a few for both.
TwoPackages == <<"a", "b">>
Images2 == {[a |-> f, b |-> g] : f \in Files, g \in {NoPackage, File(<<Sec("x", "T", Both)>>)}}
FewConfigs == {c \in Configs : c.bad \/ c.delete}
Payloads2 == [{"a"} -> Configs] \cup [{"a", "b"} -> FewConfigs]

OnePackage == <<"a">>
OneImage == [{"a"} -> Files]
OnePayload == [{"a"} -> Configs]
=============================================================================
