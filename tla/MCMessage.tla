------------------------------ MODULE MCMessage ------------------------------
(* Messages and patterns for TLC: up to two fields, and what is nested in   *)
(* the first one up to two levels, with every PUT_* and GET_*.              *)
EXTENDS Message

Vardict == <<"a{sv}", <<<<"c", <<"s", <<"x">>>>>>>>>>

Puts1 == {Raw("x"), Put("string", NoPointer), Put("int32", <<"x">>),
          Put("int64", <<"x">>), Put("boolean", <<"x">>), Put("double", <<"x">>)}
Strvs == {Put("strv", <<"x", "y">>), Put("strv", <<>>), Put("strv", NoPointer)}
Injected == {<<"inject", Vardict>>, <<"inject", NoPointer>>}

Object(v) == <<"{", <<<<Raw("a"), v>>>>>>
Object2(v, w) == <<"{", <<<<Raw("a"), v>>, <<Raw("b"), w>>>>>>

\* With keys in PUT_STRING.
Wrapped(word) == Put("string", <<word>>)
Wrapped2(v, w) == <<"{", <<<<Wrapped("a"), v>>, <<Wrapped("b"), w>>>>>>

MCLists == {<<"[", <<>>>>} \cup {<<"[", <<e>>>> : e \in Puts1}
           \cup {<<"[", <<Raw("y"), e>>>> : e \in {Raw("x"), Object(Raw("x")),
                                                  <<"[", <<Raw("x")>>>>}}

MCValues ==
    Puts1 \cup Strvs \cup Injected \cup MCLists
    \cup {<<"{", <<>>>>} \cup {Object(v) : v \in Puts1 \cup Strvs \cup Injected}
    \cup {Object2(<<"[", <<Raw("x")>>>>, Raw("y"))}

MCSecond == {Raw("y"), Put("int64", <<"y">>), Object(Raw("y")),
             <<"[", <<Raw("y"), Put("int64", <<"y">>)>>>>}

MCMessages ==
    {Object(v) : v \in MCValues} \cup {Object2(v, w) : v \in MCValues, w \in MCSecond}
    \cup {Wrapped2(v, w) :
              v \in Puts1 \cup Injected \cup {Wrapped2(Raw("x"), Raw("y"))},
              w \in {Raw("y"), Put("int64", <<"y">>), Object(Raw("y"))}}
    \cup {l \in MCLists : l[2] # <<>>}

MCGets == {Get(kind) : kind \in DOMAIN MemberTypes}

MCPatternLists ==
    {<<"[", <<>>>>} \cup {<<"[", <<e>>>> : e \in MCGets \cup {Raw("x")}}
    \cup {<<"[", <<e, f>>>> : e \in {Raw("y"), Get("dict")},
              f \in {Raw("x"), Get("string"), Object(Raw("x")), Object(Get("string")),
                     <<"[", <<Get("string")>>>>}}

MCPatternValues ==
    MCGets \cup {Raw("x"), <<"{", <<>>>>} \cup MCPatternLists
    \cup {Object(g) : g \in MCGets \cup {Raw("x")}}

MCPatternSecond == {Get("string"), Object(Raw("y")),
                    <<"[", <<Get("string"), Get("int64")>>>>}

MCPatterns ==
    {<<"{", <<>>>>} \cup {Object(p) : p \in MCPatternValues}
    \cup {Object2(p, q) : p \in MCPatternValues, q \in MCPatternSecond}
    \cup MCPatternLists

==============================================================================
