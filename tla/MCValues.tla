------------------------------ MODULE MCValues ------------------------------
(***************************************************************************)
(* Values, trees, files and scripts: inputs for the algorithms that work   *)
(* on them, and what these should give.                                    *)
(***************************************************************************)
EXTENDS Probe

-----------------------------------------------------------------------------
(* Arguments of remote calls: nested tables, instances that are known where  *)
(* they arrive (1), that are not (2) and that have no NetId (0).             *)

CONSTANT Garbage
Args == INSTANCE LuaArgs WITH Known <- {1}

Plain == {Args!NilValue, Args!Value("Bool", TRUE), Args!Value("Bool", FALSE),
          Args!Value("Number", 7), Args!Value("String", <<>>),
          Args!Value("String", <<"a", "b">>), Args!Value("Function", 0),
          Args!Value("Vector3", <<1, 2, 3>>),
          Args!Value("CFrame", <<4, 5, 6, 1, 0, 0, 0, 1, 0, 0, 0, 1>>)}
         \cup {Args!Value("InstanceRef", id) : id \in 0..2}
Table(pairs) == Args!Value("Table", pairs)
Named(v)     == <<Args!Value("String", <<"n">>), v>>
Keys == Plain \ {Args!NilValue}
Flat == {Table(<<>>)} \cup {Table(<<pair>>) : pair \in Keys \X Keys}
Nested ==
    {Table(<<Named(t), Named(v)>>) : t \in Flat, v \in Keys}
    \cup {Table(<<<<t, v>>, Named(v)>>) : t \in {Table(<<>>), Table(<<Named(Args!Value("InstanceRef", 2))>>)}, v \in Keys}

TryArgs ==
    \/ \E n \in 0..2 : \E args \in [1..n -> Plain] : Try("args", args)
    \/ \E t \in Flat \cup Nested : Try("args", <<t, Args!Value("Bool", TRUE)>>)

\* A call's arguments arrive as they were sent, up to what has no meaning at
\* the other end (LuaArgSerializer.cpp:11-147): every value, however nested,
\* is read from the bytes it was written to; a message that is cut short is never
\* read as a shorter list of arguments, since some read meets CheckBounds
\* (Serializer.hpp:109-112).
ArgsArrive == Probes("args") => Args!Arrives(Input) /\ Args!ShortRaises(Input)

-----------------------------------------------------------------------------
(* Queries on trees of instances, copies of them, and the class registry.    *)

Trees == INSTANCE InstanceQueries

\* The class descriptors; BasePart is what including BasePart.hpp adds.
Registry ==
    [Instance |-> [base |-> "", props |-> {"NetworkOwner"}],
     NetworkEvent |-> [base |-> "Instance", props |-> {}],
     Player |-> [base |-> "Instance", props |-> {}],
     PVInstance |-> [base |-> "Instance", props |-> {}],
     BasePart |-> [base |-> "PVInstance", props |-> {"CFrame", "Size", "Anchored"}]]

\* Trees of n instances; the children of one are in the order of their numbers.
Ups(n) == {f \in [1..n -> 1..n] : f[1] = 1 /\ \A i \in 2..n : f[i] < i}
Tree(n, up, name, parts, kept, locked) ==
    [parent |-> [i \in 1..n |-> IF i = 1 THEN Trees!NoOne ELSE up[i]],
     children |-> [i \in 1..n |-> SelectSeq([k \in 1..n |-> k], LAMBDA k : k > 1 /\ up[k] = i)],
     name |-> name, class |-> [i \in 1..n |-> IF i \in parts THEN "BasePart" ELSE "DataModel"],
     archivable |-> [i \in 1..n |-> i \in kept], locked |-> locked]

Keywords == {"a", "NetworkOwner", "CFrame"}

\* Trees to ask about: who is named alike, and which classes they have.
TryTree ==
    \E n \in 1..4 : \E up \in Ups(n), name \in [1..n -> {"a", "NetworkOwner"}], parts \in SUBSET (1..n) :
        Try("tree", Tree(n, up, name, parts, 1..n, [i \in 1..n |-> <<>>]))

\* Trees to copy: what is archivable and what is locked.
TryCopy ==
    \E n \in 1..4 : \E up \in Ups(n), kept \in SUBSET (1..n),
        locked \in [1..n -> {<<"CFrame">>, <<"NetworkOwner", "CFrame">>}] :
            Try("copy", Tree(n, up, [i \in 1..n |-> <<"CFrame", "a", "b", "c">>[i]],
                             {i \in 1..n : i % 2 = 1}, kept, locked))

TryBind ==
    \E order \in SetToSeqs(DOMAIN Registry \ {"Instance"}) :
        Try("bind", order)

\* Every query of the instance tree agrees with the order of GetDescendants
\* and with the parents (Instance.cpp:144-231, 342-355); a copy mirrors what is
\* archivable of its original, whatever lies below a part that is left out
\* (Instance.cpp:304-323); the locks work with the property lookup of
\* Reflection.cpp; every class is bound to Lua after its base, in whatever
\* order the registry's hash table lists them (Reflection.hpp:134-147).
TreesAgree ==
    /\ Probes("tree") => Trees!Agree(Input, Keywords)
    /\ Probes("copy") => \A i \in DOMAIN Input.parent :
                            Trees!Mirrors(Input, i) /\ Trees!LocksAgree(Registry, Input, i, Keywords)
    /\ Probes("bind") => Trees!BasesFirst(Registry, ToSet(Input), Input)

-----------------------------------------------------------------------------
(* The settings file and signed scripts.                                     *)

Settings == INSTANCE AppSettings WITH Numbers <- {"1", "7"}

Entry(key, value) == [section |-> <<>>, key |-> <<key>>, value |-> value]
Header(section)   == [section |-> <<section>>, key |-> <<>>, value |-> <<>>]
Items == {Header("Generic"), Header("FUN"), Header("Other"),
          Entry("BaseUrl", <<"url", "=", "x", ";", "y">>), Entry("BaseUrl", <<>>),
          Entry("ContentFolder", <<"My", " ", "Files">>),
          Entry("fun", <<"1">>), Entry("fun", <<"7">>), Entry("fun", <<"no">>)}

Style(indent, pad, comment, end) == [indent |-> indent, pad |-> pad, comment |-> comment, end |-> end]
Styles == {Style(indent, pad, comment, end) :
             indent \in {<<>>, <<"tab", " ">>}, pad \in {<<>>, <<" ", " ">>},
             comment \in {<<>>, <<" ", ";", ";", " ", "=">>}, end \in {<<>>, <<" ", "cr">>}}
Ornate == Style(<<" ">>, <<" ">>, <<" ", ";", ";">>, <<"cr">>)

TrySettings ==
    \/ \E n \in 0..2 : \E items \in [1..n -> Items], style \in Styles :
            Try("settings", <<items, style>>)
    \/ \E n \in 3..4 : \E items \in [1..n -> Items \ {Header("Other"), Entry("fun", <<"no">>), Entry("BaseUrl", <<>>)}] :
            Try("settings", <<items, Ornate>>)

\* The signature of the code <<1>> is 2, 3, 4, and of <<1, |, 2>> it is 4, 5, 6.
Signed(signature, code) ==
    \/ signature = <<2, 3, 4>> /\ code = <<1>>
    \/ signature = <<4, 5, 6>> /\ code = <<1, 64, 2>>
Crypts == INSTANCE Crypt WITH IntBits <- 16, SignatureBytes <- 3, Verifies <- Signed

TryBase64 == \E n \in 0..5 : \E input \in [1..n -> {0, 1, 42, 63, 70}] : Try("base64", input)

\* Around the scripts that verify: other signatures, one that is too short or
\* followed by other characters, more or less code, pipes missing or doubled.
TryScript ==
    \E prefix \in {Crypts!Prefix, Tail(Crypts!Prefix)},
        sextets \in {<<0, 32, 12, 4>>, <<1, 0, 20, 6>>, <<0, 32, 12>>, <<0, 32, 12, 4, 70>>},
        pipe \in {<<>>, <<64>>, <<64, 64>>}, code \in {<<>>, <<1>>, <<1, 64, 2>>, <<2, 64, 1>>} :
            Try("script", prefix \o sextets \o pipe \o code)

\* The settings file gives what its lines say, however they are spaced, ended
\* and commented (AppSettings.cpp:14-62).
SettingsRead == Probes("settings") => Settings!Means(Input[1], Input[2])

\* Base64 is decoded to the bit although the decoder's int overflows, and no
\* script runs but one whose signature and whole code verify
\* (Crypt.cpp:25-90).
ScriptsAuthentic ==
    /\ Probes("base64") => Crypts!DecodesExactly(Input)
    /\ Probes("script") => Crypts!RunsOnlySigned(Input)
=============================================================================
