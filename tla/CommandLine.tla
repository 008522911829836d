---------------------------- MODULE CommandLine ----------------------------
(***************************************************************************)
(* The arguments of essm (desktop/src/main.rs), one step for each option   *)
(* with its value, up to the scan that they start: a value is the next     *)
(* word whatever it looks like, and the first mistake ends the program.    *)
(***************************************************************************)
EXTENDS Integers, Sequences, SequencesExt, FiniteSetsExt

CONSTANTS Commands,    \* sequences of words
          Numbers,     \* [words that are a u32 -> its value]
          Dashed,      \* words that start with "-"
          UNSET        \* None

ASSUME CommandsAssumption == Commands \subseteq Seq(STRING) /\ UNSET \notin STRING
ASSUME NumbersAssumption == \A word \in DOMAIN Numbers : Numbers[word] \in Nat /\ Numbers[word] # UNSET

VARIABLES
    words,          \* the arguments
    read,           \* how many have been taken
    cli,            \* Cli
    outcome,        \* "parsing", "refused", "help" or "launched"
    scan_fields     \* fields of the scan that the arguments start

command == <<words, read, cli, outcome, scan_fields>>

\* The spellings of an option and the field of Cli they set.
Spellings == [help |-> {"-h", "--help"}, cross_mounts |-> {"--cross-mounts"}, dark |-> {"--dark"},
              anonymize |-> {"--anonymize"}, autoshot |-> {"--autoshot"}, record |-> {"--record"},
              record_fps |-> {"--record-fps"}, project_root |-> {"--workspace-root", "--project-root"},
              concurrency |-> {"-c", "--concurrency"}, fields |-> {"--field"}]
Flags == {"help", "cross_mounts", "dark", "anonymize"}
Paths == {"autoshot", "record", "project_root"}
Limits == [record_fps |-> 1 .. 60, concurrency |-> Nat \ {0}]
Valued == DOMAIN Spellings \ Flags

\* The options that a word can be; none for a root.
Options(word) == {option \in DOMAIN Spellings : word \in Spellings[option]}

InitCommand ==
    /\ words \in Commands /\ read = 0 /\ outcome = "parsing" /\ scan_fields = <<>>
    /\ cli = [option \in DOMAIN Spellings \cup {"root"} |->
                IF option \in Flags THEN FALSE ELSE IF option = "fields" THEN <<>> ELSE UNSET]

Word == words[read + 1]
ValueLooksRightBug(k) == k < Len(words) /\ words[k + 1] \notin Dashed
\* arguments.next()
HasValue(k) == k < Len(words)

\* What the match accepts as the value of an option.
Suits(option, value) ==
    CASE option \in Paths -> TRUE
      [] option \in DOMAIN Limits -> value \in DOMAIN Numbers /\ Numbers[value] \in Limits[option]
      [] OTHER -> value # ""

ParseFlag(option) ==
    /\ option \in Flags
    /\ cli' = [cli EXCEPT ![option] = TRUE]
    /\ read' = read + 1

ParseValued(option) ==
    /\ option \in Valued /\ HasValue(read + 1) /\ Suits(option, words[read + 2])
    /\ LET value == words[read + 2]
       IN cli' = [cli EXCEPT ![option] = CASE option = "fields" -> Append(@, value)
                                           [] option \in Paths -> value
                                           [] OTHER -> Numbers[value]]
    /\ read' = read + 2

ParseRoot ==
    /\ Options(Word) = {} /\ Word \notin Dashed /\ cli.root = UNSET
    /\ cli' = [cli EXCEPT !.root = Word]
    /\ read' = read + 1

ParseArgument ==
    /\ outcome = "parsing" /\ read < Len(words)
    /\ ParseRoot \/ \E option \in Options(Word) : ParseFlag(option) \/ ParseValued(option)
    /\ UNCHANGED <<words, outcome, scan_fields>>

\* No value, one that does not suit, an unknown option or a second root.
RefuseArgument ==
    /\ outcome = "parsing" /\ read < Len(words)
    /\ \/ \E option \in Options(Word) \cap Valued : ~ (HasValue(read + 1) /\ Suits(option, words[read + 2]))
       \/ Options(Word) = {} /\ (Word \in Dashed \/ cli.root # UNSET)
    /\ outcome' = "refused"
    /\ UNCHANGED <<words, read, cli, scan_fields>>

\* main, and the fields of start_scan: each once, behind those always there.
Launched ==
    /\ outcome = "parsing" /\ read = Len(words)
    /\ IF cli.help THEN outcome' = "help" /\ UNCHANGED scan_fields
       ELSE /\ outcome' = "launched"
            /\ scan_fields' = FoldLeft(LAMBDA fields, field : IF field \in Range(fields) THEN fields
                                                              ELSE Append(fields, field),
                                       <<"type", "allocated_size">>, cli.fields)
    /\ UNCHANGED <<words, read, cli>>

NextCommand == ParseArgument \/ RefuseArgument \/ Launched
CommandSpec == InitCommand /\ [][NextCommand]_command
-----------------------------------------------------------------------------
(***************************************************************************)
(* What comes out is what looking at the whole line says.  A word is a     *)
(* value if an odd number of words that take one stands just before it.    *)
(* A line with a mistake anywhere is refused, asked for help or not; on    *)
(* any other the last of several values wins, the fields add up, and the   *)
(* scan retains each field once.                                           *)
(***************************************************************************)
TakesValue(word) == Options(word) \cap Valued # {}
IsValue(k) == \E run \in 1 .. k - 1 : /\ run % 2 = 1
                                      /\ \A j \in k - run .. k - 1 : TakesValue(words[j])
                                      /\ run = k - 1 \/ ~ TakesValue(words[k - run - 1])
Standing == {k \in DOMAIN words : ~ IsValue(k)}
Uses(option) == {k \in Standing : words[k] \in Spellings[option]}
RootWords == {k \in Standing : Options(words[k]) = {}}

Mistaken ==
    \/ \E option \in Valued : \E k \in Uses(option) : k = Len(words) \/ ~ Suits(option, words[k + 1])
    \/ \E k \in RootWords : words[k] \in Dashed
    \/ Cardinality(RootWords) > 1

ArgumentsMeanWhatTheySay ==
    LET told(option) == words[Max(Uses(option)) + 1]
    IN /\ outcome = "refused" => Mistaken
       /\ outcome \in {"help", "launched"} =>
            /\ ~ Mistaken
            /\ \A option \in Flags : cli[option] = (Uses(option) # {})
            /\ (outcome = "help") = cli.help
            /\ cli.root = (IF RootWords = {} THEN UNSET ELSE words[Max(RootWords)])
            /\ \A option \in Valued \ {"fields"} :
                 cli[option] = IF Uses(option) = {} THEN UNSET
                               ELSE IF option \in Paths THEN told(option) ELSE Numbers[told(option)]
       /\ outcome = "launched" =>
            /\ IsInjective(scan_fields)
            /\ Range(scan_fields) = {"type", "allocated_size"} \cup {words[k + 1] : k \in Uses("fields")}
            /\ SubSeq(scan_fields, 1, 2) = <<"type", "allocated_size">>
=============================================================================
