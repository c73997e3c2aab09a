-------------------------------- MODULE MCCli --------------------------------
(***************************************************************************)
(* Cli on all short lines over each command's own tokens and some others.   *)
(***************************************************************************)
EXTENDS Cli

CONSTANT MaxTail  \* bound: tokens after the command

UpTo(tokens, n) == UNION {[1..k -> tokens] : k \in 0..n}

Command(head, tokens) == {head \o t : t \in UpTo(tokens, MaxTail)}

MCNumerals == {"7"}

MCAnswers == {"x", "--help", "--force", "--module", "--out"}

\* Dispatch and counting; each scanner on its flags, a word, an empty token.
MCLines ==
    UpTo({"config", "validate", "plugin", "hash", "manifest", "identity", "gen",
          "show", "version", "x"}, 3)
    \cup Command(<<"identity", "gen">>, {"--out", "--expiry", "7", "x", "", "--help"})
    \cup Command(<<"identity", "import-hsm">>,
                 {"--extension-id", "--key-label", "--module", "--force", "--help", "x", ""})
    \cup Command(<<"run">>, {"--config", "--manifest", "--identity", "x", "", "-h"})
    \cup Command(<<"doctor">>, {"--json", "--help", "x"})
    \cup Command(<<"quickstart">>, {"--non-interactive", "-h", "x"})
    \cup {WizardGen(p) : p \in MCAnswers}
    \cup {WizardImport(l, m, p) : l \in MCAnswers, m \in MCAnswers, p \in MCAnswers}
=============================================================================
