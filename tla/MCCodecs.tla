------------------------------ MODULE MCCodecs ------------------------------
(* The conversions, which share no state: the records of the kernel, the   *)
(* frames between bridge and client, the arguments of the program and the  *)
(* layout of the treemap, each in the behaviours that are about it.        *)
EXTENDS RecordDecoder, Wire, CommandLine, Squarify

VARIABLE part
codecs == <<records, wire, command, layout, part>>

\* Every selection of up to two fields, since two cells that change places show
\* in the pair of their fields; all fields at once; and a field nobody supports.
MCSelections ==
    {{f, g} : f, g \in Selectable} \cup {{}, Selectable, Selectable \cup Always, {"name"}, {"type", "fork_count"}}

\* Terms at every boundary of numbers, lengths and nesting.
I(n) == <<"integer", n>>
A(text) == <<"atom", text>>
B(text) == <<"binary", text>>
L(list) == <<"list", list>>
MCOk == A(<<"o", "k">>)
MCScalars ==
    {I(n) : n \in {-64, -33, -32, -9, -8, 3, 4, 7, 8, 63, 64}}
      \cup {A(Nil), A(Null), A(True), A(False), MCOk, <<"float", "1.5">>,
            B(<<>>), B(<<"a", "ff">>), B(<<"a", "b", "c", "d", "e">>)}
MCCollections ==
    {L(<<>>), L(<<I(0), I(3)>>), L(<<I(0), I(4)>>), L(<<I(-64)>>), L(<<L(<<L(<<>>)>>)>>), L(<<L(<<L(<<I(1)>>)>>)>>),
     L(<<L(<<L(<<I(9)>>)>>)>>),
     <<"tuple", <<MCOk, I(5)>>>>, <<"tuple", <<I(1), I(2), I(3), L(<<>>)>>>>,
     <<"map", <<>>>>, <<"map", <<<<B(<<"o", "k">>), I(40)>>, <<A(<<"x">>), L(<<A(Nil)>>)>>>>>>,
     <<"map", <<<<B(<<"o", "k">>), I(1)>>, <<MCOk, I(2)>>>>>>, <<"map", <<<<I(1), I(2)>>>>>>,
     <<"map", <<<<A(Nil), I(2)>>>>>>, <<"map", <<<<B(<<"ff">>), I(2)>>>>>>}
MCTerms == MCScalars \cup MCCollections
N(n) == <<"number", n>>
S(text) == <<"string", text>>
MCRequests ==
    {N(n) : n \in {-32, -31, -9, -8, -7, -1, 0, 3, 4, 7, 8, 15, 16, 31, 32, 63}}
      \cup {<<"bool", TRUE>>, <<"bool", FALSE>>, <<"float", "1.5">>, S(<<>>), S(<<"o", "k">>),
            <<"array", <<>>>>, <<"array", <<N(1), N(2)>>>>, <<"array", <<N(1), <<"array", <<>>>>>>>>,
            <<"object", <<>>>>,
            <<"object", (<<"i", "d">> :> N(8) @@ <<"r">> :> <<"array", <<S(<<"a">>), <<"null", 0>>>>>>)>>}

\* Lines of up to three words, and of four that take the words before them or
\* not.
MCDashed == {"-h", "--record", "--record-fps", "--project-root", "--workspace-root", "-c", "--field", "--bogus"}
MCNumbers == "7" :> 7 @@ "61" :> 61 @@ "0" :> 0
MCWords == MCDashed \cup DOMAIN MCNumbers \cup {"", "/a"}
MCCommands == UNION {[1 .. n -> MCWords] : n \in 0 .. 3} \cup [1 .. 4 -> {"--field", "-c", "-h", "7", "/a"}]

\* Short lists, and lists with tiles of less than a pixel.
Descending(list) == \A k \in 2 .. Len(list) : list[k - 1] >= list[k]
MCLists == {<<60, 1, 1, 1>>, <<60, 2, 1>>, <<90, 3, 2, 1>>}
             \cup {list \in UNION {[1 .. n -> 0 .. 6] : n \in 1 .. 5} : Descending(list)}
MCSizes == {<<6, 4>>, <<2, 3>>}
MCEpsilon == <<1, 2>>

\* A part that is not run stays as it is at first; nothing is laid out then.
NoLayout == /\ canvas = <<1, 1>> /\ areas = <<>> /\ start = 1 /\ rectangles = <<>> /\ thin = TRUE
            /\ free = [x |-> Zero, y |-> Zero, width |-> Whole(1), height |-> Whole(1)]

CodecsInit ==
    /\ part \in {"records", "frames", "arguments", "treemap"}
    /\ (IF part = "records" THEN TRUE ELSE requested = {}) /\ InitRecord
    /\ (IF part = "frames" THEN TRUE ELSE version = VERSION) /\ InitWire
    /\ (IF part = "arguments" THEN TRUE ELSE words = <<>>) /\ InitCommand
    /\ (IF part = "treemap" THEN InitSquarify ELSE NoLayout)

CodecsNext ==
    /\ UNCHANGED part
    /\ \/ part = "records" /\ NextRecord /\ UNCHANGED <<wire, command, layout>>
       \/ part = "frames" /\ NextWire /\ UNCHANGED <<records, command, layout>>
       \/ part = "arguments" /\ NextCommand /\ UNCHANGED <<records, wire, layout>>
       \/ part = "treemap" /\ FixRow /\ UNCHANGED <<records, wire, command>>

CodecsSpec == CodecsInit /\ [][CodecsNext]_codecs
=============================================================================
