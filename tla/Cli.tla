--------------------------------- MODULE Cli ---------------------------------
(***************************************************************************)
(* The command line of goodnetd: main's dispatch on the first one or two    *)
(* tokens, the argument count of the positional commands, and the scanners   *)
(* of the commands that take flags, one token per step.  quickstart calls   *)
(* two of them itself, with the operator's answers among the tokens.        *)
(***************************************************************************)
EXTENDS Integers, Sequences, FiniteSets

CONSTANTS Lines,     \* command lines, each a sequence of tokens
          Numerals,  \* tokens std::from_chars takes for an int64 as a whole
          Answers    \* what an operator may type at a prompt of quickstart

ASSUME CliAssumption ==
    /\ Lines \subseteq Seq(STRING)
    /\ "" \notin Numerals \cup Answers

Unset == ""

Nested == [config   |-> {"validate"},
           plugin   |-> {"hash"},
           manifest |-> {"gen"},
           identity |-> {"gen", "show", "import-hsm"}]

Flat == {"version", "run", "doctor", "quickstart"}

\* The commands that only count their arguments.
Arity == [c \in {<<"version">>, <<"config", "validate">>, <<"plugin", "hash">>,
                 <<"manifest", "gen">>, <<"identity", "show">>} |->
             CASE c = <<"version">>         -> {0}
               [] c = <<"manifest", "gen">> -> Nat \ {0}
               [] OTHER                     -> {1}]

Syntax(valued, required, switches, help) ==
    [valued |-> valued, required |-> required, switches |-> switches, help |-> help]

\* The others take flags, with a value or without.
Grammar(c) ==
    CASE c = <<"identity", "gen">> -> Syntax({"--out", "--expiry"}, {"--out"}, {}, {})
      [] c = <<"identity", "import-hsm">> ->
           Syntax({"--extension-id", "--key-label", "--pin-env", "--module", "--config"},
                  {"--extension-id", "--key-label"}, {"--force"}, {"--help", "-h"})
      [] c = <<"run">> -> Syntax({"--config", "--manifest", "--identity"},
                                 {"--config", "--manifest"}, {}, {})
      [] c = <<"doctor">> -> Syntax({}, {}, {"--json"}, {"--help", "-h"})
      [] c = <<"quickstart">> -> Syntax({}, {}, {"--non-interactive"}, {"--help", "-h"})

Flags == {"--out", "--expiry", "--extension-id", "--key-label", "--pin-env",
          "--module", "--config", "--manifest", "--identity"}

VARIABLES line,     \* argv without the program's name
          command,  \* the command main has chosen
          at,       \* the next token
          val,      \* val[f]: the value flag f was last given
          on,       \* switches seen
          outcome   \* usage: exit 2; help: exit 0; work: the command begins

vars == <<line, command, at, val, on, outcome>>

Init ==
    /\ line \in Lines
    /\ command = <<>> /\ at = 1
    /\ val = [f \in Flags |-> Unset] /\ on = {}
    /\ outcome = "scanning"

End(how) == outcome' = how /\ UNCHANGED <<line, command, at, val, on>>

\* What main makes of the first tokens: the command, or <<>> for usage.
Chosen == CASE Len(line) >= 1 /\ line[1] \in Flat -> <<line[1]>>
            [] /\ Len(line) >= 2 /\ line[1] \in DOMAIN Nested
               /\ line[2] \in Nested[line[1]] -> <<line[1], line[2]>>
            [] OTHER -> <<>>

Dispatch ==
    /\ outcome = "scanning" /\ command = <<>>
    /\ IF Chosen = <<>>
       THEN End("usage")
       ELSE /\ command' = Chosen /\ at' = Len(Chosen) + 1
            /\ UNCHANGED <<line, val, on, outcome>>

Count ==
    /\ outcome = "scanning" /\ command \in DOMAIN Arity
    /\ End(IF Len(line) - Len(command) \in Arity[command] THEN "work" ELSE "usage")

Scanning == outcome = "scanning" /\ command \notin {<<>>} \cup DOMAIN Arity

More == Scanning /\ at <= Len(line)

Proper(flag, value) == flag # "--expiry" \/ value \in Numerals

\* Mutant of TakeValue: the first value of a repeated flag is kept.
TakeValueOnce ==
    /\ More /\ line[at] \in Grammar(command).valued
    /\ IF at < Len(line) /\ Proper(line[at], line[at + 1])
       THEN /\ val' = [val EXCEPT ![line[at]] = IF @ = Unset THEN line[at + 1] ELSE @]
            /\ at' = at + 2
            /\ UNCHANGED <<line, command, on, outcome>>
       ELSE End("usage")

\* The value is the next token, whatever it looks like.
TakeValue ==
    /\ More /\ line[at] \in Grammar(command).valued
    /\ IF at < Len(line) /\ Proper(line[at], line[at + 1])
       THEN /\ val' = [val EXCEPT ![line[at]] = line[at + 1]]
            /\ at' = at + 2
            /\ UNCHANGED <<line, command, on, outcome>>
       ELSE End("usage")

\* Mutant of TakeSwitch: a switch takes a value.
TakeSwitchAndNext ==
    /\ More /\ line[at] \in Grammar(command).switches
    /\ on' = on \cup {line[at]} /\ at' = at + 2
    /\ UNCHANGED <<line, command, val, outcome>>

TakeSwitch ==
    /\ More /\ line[at] \in Grammar(command).switches
    /\ on' = on \cup {line[at]} /\ at' = at + 1
    /\ UNCHANGED <<line, command, val, outcome>>

\* --help ends the scan, whatever follows.
Help == More /\ line[at] \in Grammar(command).help /\ End("help")

Unknown ==
    /\ More
    /\ LET g == Grammar(command) IN line[at] \notin g.valued \cup g.switches \cup g.help
    /\ End("usage")

\* An empty value counts as none.
Complete ==
    /\ Scanning /\ at > Len(line)
    /\ End(IF \E f \in Grammar(command).required : val[f] = Unset THEN "usage" ELSE "work")

Next == Dispatch \/ Count \/ TakeValue \/ TakeSwitch \/ Help \/ Unknown \/ Complete

Spec == Init /\ [][Next]_vars

-----------------------------------------------------------------------------
(* The same language, said without a scanner.                               *)

Operands(c) == SubSeq(line, Len(c) + 1, Len(line))

\* Positions where a flag stands: every one but those a flag's value takes.
FlagPositions(t, valued) ==
    CHOOSE s \in SUBSET (1..Len(t)) :
        \A i \in 1..Len(t) : i \in s <=> ~(i - 1 \in s /\ t[i - 1] \in valued)

Lasts(s, t, f) == {i \in s : t[i] = f /\ \A j \in s : t[j] = f => j <= i}

Only(S) == CHOOSE x \in S : TRUE

ValueIn(s, t, f) == IF Lasts(s, t, f) = {} THEN Unset ELSE t[Only(Lasts(s, t, f)) + 1]

\* An unknown token, a flag without its value, or with one it does not take.
Wrong(g, t, i) ==
    \/ t[i] \notin g.valued \cup g.switches \cup g.help
    \/ t[i] \in g.valued /\ (i = Len(t) \/ ~Proper(t[i], t[i + 1]))

\* How a line must end, and with which values: an error at a flag counts
\* unless a --help stands before it.
Expected(c, t) ==
    LET g == Grammar(c)
        s == FlagPositions(t, g.valued)
        help == {i \in s : t[i] \in g.help}
        wrong == {i \in s : Wrong(g, t, i)}
    IN CASE \E i \in help : \A j \in wrong : i < j -> [how |-> "help"]
         [] \E j \in wrong : \A i \in help : j < i -> [how |-> "usage"]
         [] help \cup wrong = {} ->
              IF \E f \in g.required : ValueIn(s, t, f) = Unset
              THEN [how |-> "usage"]
              ELSE [how |-> "work",
                    val |-> [f \in Flags |-> IF f \in g.valued THEN ValueIn(s, t, f) ELSE Unset],
                    on  |-> {t[i] : i \in s} \cap g.switches]

-----------------------------------------------------------------------------
(* Properties.                                                              *)

\* Every scanner accepts exactly the lines of its grammar, with the last value
\* of each flag, however values look like flags and flags are repeated.
ScansGrammar ==
    outcome # "scanning" /\ command \notin {<<>>} \cup DOMAIN Arity =>
        LET e == Expected(command, Operands(command)) IN
        /\ outcome = e.how
        /\ outcome = "work" => val = e.val /\ on = e.on

\* The two command lines quickstart composes from the operator's answers.
WizardGen(path) == <<"identity", "gen", "--out", path>>

\* Mutant of WizardImport: the options that have a default come first.
WizardImportSpliced(label, module, pin) ==
    <<"identity", "import-hsm", "--extension-id", "gn.identity.pkcs11",
      "--key-label", "--module", module, "--pin-env", pin, label>>

WizardImport(label, module, pin) ==
    <<"identity", "import-hsm", "--extension-id", "gn.identity.pkcs11",
      "--key-label", label, "--module", module, "--pin-env", pin>>

\* They are never refused, nor taken for a call for help, and carry exactly
\* what was typed, also where an answer is spelled like a flag.
WizardUnderstood ==
    outcome # "scanning" =>
        /\ \A p \in Answers : line = WizardGen(p) =>
              outcome = "work" /\ val["--out"] = p /\ val["--expiry"] = Unset
        /\ \A l, m, p \in Answers : line = WizardImport(l, m, p) =>
              /\ outcome = "work" /\ on = {}
              /\ val["--key-label"] = l /\ val["--module"] = m /\ val["--pin-env"] = p
              /\ val["--config"] = Unset

\* The variables keep their types, and no scanner reads past argv.
TypeOK ==
    /\ line \in Seq(STRING)
    /\ command = <<>> \/ command = Chosen
    /\ at \in 1..(Len(line) + 1)
    /\ DOMAIN val = Flags
    /\ on \subseteq {"--force", "--json", "--non-interactive"}
    /\ outcome \in {"scanning", "usage", "help", "work"}
=============================================================================
