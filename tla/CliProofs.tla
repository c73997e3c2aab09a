------------------------------ MODULE CliProofs ------------------------------
(***************************************************************************)
(* Theorems about Cli for command lines of any length: the scanners accept  *)
(* exactly their grammars, and the lines quickstart composes are understood *)
(* whatever the operator typed.                                             *)
(***************************************************************************)
EXTENDS Cli, WellFoundedInduction, TLAPS

-----------------------------------------------------------------------------
(* Positions of flags.                                                      *)

\* A set of natural numbers that is not empty has a least element: induction,
\* in a form that speaks about sets only.
LEMMA LeastElement ==
  ASSUME NEW T \in SUBSET Nat, T # {}
  PROVE  \E n \in T : \A m \in T : n <= m
<1> DEFINE R == {ij \in Nat \X Nat : ij[1] < ij[2]}
<1>1. IsWellFoundedOn(R, Nat)
  BY NatLessThanWellFounded DEF OpToRel
<1>2. PICK n \in T : \A m \in T : <<m, n>> \notin R
  <2> HIDE DEF R
  <2> QED
    BY <1>1, WFMin
<1>3. ASSUME NEW m \in T PROVE n <= m
  <2>1. <<m, n>> \in Nat \X Nat /\ <<m, n>> \notin R
    BY <1>2
  <2>2. ~(m < n)
    BY <2>1
  <2> QED
    BY <2>2
<1> HIDE DEF R
<1> QED
  BY <1>3

\* s marks the flags among the first n tokens of t.
Marks(s, t, n, valued) ==
    /\ s \in SUBSET (1..n)
    /\ \A i \in 1..n : i \in s <=> ~(i - 1 \in s /\ t[i - 1] \in valued)

\* Every line has such a set, by induction over its length.
LEMMA MarksExist ==
  ASSUME NEW t, NEW valued, NEW n \in Nat
  PROVE  \E s : Marks(s, t, n, valued)
<1> DEFINE T == {k \in Nat : ~ \E s : Marks(s, t, k, valued)}
<1>1. ASSUME T # {} PROVE FALSE
  <2>1. PICK k \in T : \A m \in T : k <= m
    BY <1>1, LeastElement
  <2>2. k \in Nat /\ k # 0
    <3>1. Marks({}, t, 0, valued)
      BY DEF Marks
    <3> QED
      BY <3>1
  <2>3. PICK s : Marks(s, t, k - 1, valued)
    <3>1. k - 1 \in Nat /\ k - 1 \notin T
      BY <2>1, <2>2
    <3> QED
      BY <3>1
  <2> DEFINE s1 == IF k - 1 \in s /\ t[k - 1] \in valued THEN s ELSE s \cup {k}
  <2>4. s1 \in SUBSET (1..k)
    BY <2>2, <2>3 DEF Marks
  <2>5. ASSUME NEW i \in 1..k
        PROVE  i \in s1 <=> ~(i - 1 \in s1 /\ t[i - 1] \in valued)
    <3>1. CASE i = k
      BY <2>2, <2>3, <3>1 DEF Marks
    <3>2. CASE i # k
      <4>1. i \in 1..(k - 1) /\ i - 1 # k
        BY <2>2, <3>2
      <4> QED
        BY <2>3, <3>2, <4>1 DEF Marks
    <3> QED
      BY <3>1, <3>2
  <2>6. Marks(s1, t, k, valued)
    BY <2>4, <2>5 DEF Marks
  <2> HIDE DEF s1
  <2> QED
    BY <2>1, <2>6
<1> QED
  BY <1>1

\* FlagPositions is what it is meant to be.
LEMMA FlagPositionsMark ==
  ASSUME NEW t \in Seq(STRING), NEW valued
  PROVE  Marks(FlagPositions(t, valued), t, Len(t), valued)
<1>1. Len(t) \in Nat
  OBVIOUS
<1>2. \E s : Marks(s, t, Len(t), valued)
  BY <1>1, MarksExist
<1> QED
  BY <1>2 DEF Marks, FlagPositions

-----------------------------------------------------------------------------
(* The value of a flag.                                                     *)

LEMMA NoValueYet ==
  ASSUME NEW t, NEW f
  PROVE  ValueIn({}, t, f) = Unset
BY DEF ValueIn, Lasts

\* A flag that stands after all others so far has the token that follows it.
LEMMA ValueOfLast ==
  ASSUME NEW s \in SUBSET Nat, NEW t, NEW a \in Nat, \A i \in s : i < a
  PROVE  ValueIn(s \cup {a}, t, t[a]) = t[a + 1]
<1>1. Lasts(s \cup {a}, t, t[a]) = {a}
  <2>1. a \in Lasts(s \cup {a}, t, t[a])
    BY DEF Lasts
  <2>2. ASSUME NEW i \in Lasts(s \cup {a}, t, t[a]) PROVE i = a
    <3>1. i \in s \cup {a} /\ a <= i
      BY DEF Lasts
    <3> QED
      BY <3>1
  <2> QED
    BY <2>1, <2>2
<1>2. Only({a}) = a
  BY DEF Only
<1> QED
  BY <1>1, <1>2 DEF ValueIn

\* It leaves the values of the others alone.
LEMMA ValueOfOthers ==
  ASSUME NEW s, NEW t, NEW a, NEW f, t[a] # f
  PROVE  ValueIn(s \cup {a}, t, f) = ValueIn(s, t, f)
<1>1. Lasts(s \cup {a}, t, f) = Lasts(s, t, f)
  BY DEF Lasts
<1> QED
  BY <1>1 DEF ValueIn

-----------------------------------------------------------------------------
(* Commands and their grammars.                                             *)

\* The commands that scan flags.
Scanned == {<<"identity", "gen">>, <<"identity", "import-hsm">>, <<"run">>,
            <<"doctor">>, <<"quickstart">>}

LEMMA ChosenIsCommand == Chosen \in {<<>>} \cup Scanned \cup DOMAIN Arity
<1>1. DOMAIN Arity = {<<"version">>, <<"config", "validate">>, <<"plugin", "hash">>,
                      <<"manifest", "gen">>, <<"identity", "show">>}
  BY DEF Arity
<1>2. ASSUME line[1] \in Flat
      PROVE  <<line[1]>> \in Scanned \cup DOMAIN Arity
  BY <1>1, <1>2 DEF Scanned, Flat
<1>3. ASSUME line[1] \in DOMAIN Nested, line[2] \in Nested[line[1]]
      PROVE  <<line[1], line[2]>> \in Scanned \cup DOMAIN Arity
  <2>1. DOMAIN Nested = {"config", "plugin", "manifest", "identity"}
    BY DEF Nested
  <2> QED
    BY <1>1, <1>3, <2>1 DEF Scanned, Nested
<1> QED
  BY <1>2, <1>3 DEF Chosen

LEMMA ScannedDoNotCount == Scanned \cap ({<<>>} \cup DOMAIN Arity) = {}
BY DEF Scanned, Arity

LEMMA CommandLength ==
  ASSUME NEW c \in Scanned
  PROVE  Len(c) \in 1..2
BY DEF Scanned

\* No token is a flag with a value and one without, or a switch and a help;
\* what is required is a flag with a value.
LEMMA GrammarFacts ==
  ASSUME NEW c \in Scanned
  PROVE  LET g == Grammar(c) IN
         /\ g.required \subseteq g.valued /\ g.valued \subseteq Flags
         /\ g.valued \cap (g.switches \cup g.help) = {} /\ g.switches \cap g.help = {}
         /\ g.switches \subseteq {"--force", "--json", "--non-interactive"}
<1>1. CASE c = <<"identity", "gen">>
  BY <1>1 DEF Grammar, Syntax, Flags
<1>2. CASE c = <<"identity", "import-hsm">>
  BY <1>2 DEF Grammar, Syntax, Flags
<1>3. CASE c = <<"run">>
  BY <1>3 DEF Grammar, Syntax, Flags
<1>4. CASE c = <<"doctor">>
  BY <1>4 DEF Grammar, Syntax, Flags
<1>5. CASE c = <<"quickstart">>
  BY <1>5 DEF Grammar, Syntax, Flags
<1> QED
  BY <1>1, <1>2, <1>3, <1>4, <1>5 DEF Scanned

-----------------------------------------------------------------------------
(* Types.                                                                   *)

LEMMA TypeInit == Init => TypeOK
<1> SUFFICES ASSUME Init PROVE TypeOK
  OBVIOUS
<1>1. line \in Seq(STRING)
  <2>1. line \in Lines
    BY DEF Init
  <2> QED
    BY <2>1, CliAssumption
<1>2. at \in 1..(Len(line) + 1)
  BY <1>1 DEF Init
<1> QED
  BY <1>1, <1>2 DEF Init, TypeOK

LEMMA TypeStep == TypeOK /\ [Next]_vars => TypeOK'
<1> SUFFICES ASSUME TypeOK, [Next]_vars PROVE TypeOK'
  OBVIOUS
<1> USE DEF TypeOK
<1>a. Chosen' = Chosen
  BY DEF Next, Dispatch, Count, TakeValue, TakeSwitch, Help, Unknown, Complete, End, vars,
     Chosen
<1>b. Scanning => command \in Scanned
  BY ChosenIsCommand DEF Scanning
<1>1. CASE Dispatch
  <2>1. Chosen # <<>> => Len(Chosen) + 1 \in 1..(Len(line) + 1)
    BY DEF Chosen
  <2> QED
    BY <1>1, <1>a, <2>1 DEF Dispatch, End
<1>2. CASE Count \/ Help \/ Unknown \/ Complete \/ UNCHANGED vars
  BY <1>2, <1>a DEF Count, Help, Unknown, Complete, End, vars
<1>3. CASE TakeValue
  BY <1>3, <1>a DEF TakeValue, More, End
<1>4. CASE TakeSwitch
  BY <1>4, <1>a, <1>b, GrammarFacts DEF TakeSwitch, More
<1> QED
  BY <1>1, <1>2, <1>3, <1>4 DEF Next

\* The variables keep their types: no scanner reads past argv, on a line of
\* any length.
THEOREM TypeCorrect == Spec => []TypeOK
BY TypeInit, TypeStep, PTL DEF Spec

-----------------------------------------------------------------------------
(* The scanners.                                                            *)

Before(s, a) == {i \in s : i < a}

\* A scanner that stands at a, with values v and switches o: a is a flag's
\* place, and up to there all was well and has been noted.
ScanState(t, g, s, a, v, o) ==
    /\ a \in 1..(Len(t) + 1)
    /\ a \in 1..Len(t) => a \in s
    /\ \A i \in Before(s, a) : ~Wrong(g, t, i) /\ t[i] \notin g.help
    /\ v = [f \in Flags |-> IF f \in g.valued THEN ValueIn(Before(s, a), t, f) ELSE Unset]
    /\ o = {t[i] : i \in Before(s, a)} \cap g.switches

\* Flags before a are at positions, and before a.
LEMMA BeforeIsEarlier ==
  ASSUME NEW t \in Seq(STRING), NEW valued, NEW s, Marks(s, t, Len(t), valued), NEW a
  PROVE  Before(s, a) \in SUBSET Nat /\ \A i \in Before(s, a) : i < a
<1>1. s \subseteq Nat
  <2>1. s \subseteq 1..Len(t) /\ Len(t) \in Nat
    BY DEF Marks
  <2> QED
    BY <2>1
<1> QED
  BY <1>1, Zenon DEF Before

LEMMA ScanStart ==
  ASSUME NEW t \in Seq(STRING), NEW g, NEW s, Marks(s, t, Len(t), g.valued)
  PROVE  ScanState(t, g, s, 1, [f \in Flags |-> Unset], {})
<1>1. Before(s, 1) = {}
  <2>1. s \subseteq 1..Len(t) /\ Len(t) \in Nat
    BY DEF Marks
  <2>2. \A i \in s : ~(i < 1)
    BY <2>1
  <2> QED
    BY <2>2 DEF Before
<1>2. 1 \in 1..Len(t) => 1 \in s
  BY DEF Marks
<1>3. 1 \in 1..(Len(t) + 1)
  OBVIOUS
<1>4. \A f : ValueIn(Before(s, 1), t, f) = Unset
  BY <1>1, NoValueYet
<1> QED
  BY <1>1, <1>2, <1>3, <1>4 DEF ScanState

\* One token on from a switch, two from a flag and its value, is a flag's place.
LEMMA NextPlace ==
  ASSUME NEW t \in Seq(STRING), NEW valued, NEW s, Marks(s, t, Len(t), valued),
         NEW a \in s
  PROVE  /\ t[a] \notin valued =>
               /\ a + 1 \in 1..Len(t) => a + 1 \in s
               /\ Before(s, a + 1) = Before(s, a) \cup {a}
         /\ t[a] \in valued =>
               /\ a + 2 \in 1..Len(t) => a + 2 \in s
               /\ Before(s, a + 2) = Before(s, a) \cup {a}
<1>1. a \in 1..Len(t) /\ (\A i \in s : i \in Int) /\ Len(t) \in Nat
  <2>1. s \subseteq 1..Len(t)
    BY DEF Marks
  <2> QED
    BY <2>1
<1>2. Before(s, a + 1) = Before(s, a) \cup {a}
  <2>1. \A i \in s : i < a + 1 <=> i < a \/ i = a
    BY <1>1
  <2> QED
    BY <2>1 DEF Before
<1>3. ASSUME t[a] \notin valued, a + 1 \in 1..Len(t) PROVE a + 1 \in s
  <2>1. (a + 1) - 1 = a
    BY <1>1
  <2> QED
    BY <1>3, <2>1 DEF Marks
<1>4. ASSUME t[a] \in valued PROVE a + 1 \notin s
  <2>1. (a + 1) - 1 = a
    BY <1>1
  <2>2. CASE a + 1 \in 1..Len(t)
    BY <1>4, <2>1, <2>2 DEF Marks
  <2>3. CASE a + 1 \notin 1..Len(t)
    BY <2>3 DEF Marks
  <2> QED
    BY <2>2, <2>3
<1>5. ASSUME t[a] \in valued, a + 2 \in 1..Len(t) PROVE a + 2 \in s
  <2>1. (a + 2) - 1 = a + 1
    BY <1>1
  <2> QED
    BY <1>4, <1>5, <2>1 DEF Marks
<1>6. ASSUME t[a] \in valued PROVE Before(s, a + 2) = Before(s, a) \cup {a}
  <2>1. \A i \in s : i < a + 2 <=> i < a \/ i = a \/ i = a + 1
    BY <1>1
  <2> QED
    BY <1>4, <1>6, <2>1 DEF Before
<1> QED
  BY <1>2, <1>3, <1>5, <1>6

LEMMA AfterValue ==
  ASSUME NEW t \in Seq(STRING), NEW g, NEW s, Marks(s, t, Len(t), g.valued),
         g.valued \subseteq Flags, g.valued \cap (g.switches \cup g.help) = {},
         NEW a, NEW v, NEW o, ScanState(t, g, s, a, v, o),
         a < Len(t), t[a] \in g.valued, Proper(t[a], t[a + 1])
  PROVE  ScanState(t, g, s, a + 2, [v EXCEPT ![t[a]] = t[a + 1]], o)
<1>1. a \in 1..Len(t) /\ a \in s /\ a + 2 \in 1..(Len(t) + 1)
  BY DEF ScanState
<1>2. /\ a + 2 \in 1..Len(t) => a + 2 \in s
      /\ Before(s, a + 2) = Before(s, a) \cup {a}
  BY <1>1, NextPlace
<1>3. ~Wrong(g, t, a) /\ t[a] \notin g.help
  BY <1>1 DEF Wrong
<1>4. \A i \in Before(s, a + 2) : ~Wrong(g, t, i) /\ t[i] \notin g.help
  BY <1>2, <1>3 DEF ScanState
<1>5. o = {t[i] : i \in Before(s, a + 2)} \cap g.switches
  BY <1>2 DEF ScanState
<1>6. ValueIn(Before(s, a + 2), t, t[a]) = t[a + 1]
  <2>1. Before(s, a) \in SUBSET Nat /\ a \in Nat /\ \A i \in Before(s, a) : i < a
    <3>1. a \in Nat
      BY <1>1
    <3> QED
      BY <3>1, BeforeIsEarlier
  <2>2. ValueIn(Before(s, a) \cup {a}, t, t[a]) = t[a + 1]
    BY <2>1, ValueOfLast
  <2> QED
    BY <1>2, <2>2
<1>7. ASSUME NEW f, f # t[a]
      PROVE  ValueIn(Before(s, a + 2), t, f) = ValueIn(Before(s, a), t, f)
  BY <1>2, <1>7, ValueOfOthers
<1>8. [v EXCEPT ![t[a]] = t[a + 1]] =
      [f \in Flags |-> IF f \in g.valued THEN ValueIn(Before(s, a + 2), t, f) ELSE Unset]
  BY <1>6, <1>7 DEF ScanState
<1> QED
  BY <1>1, <1>2, <1>4, <1>5, <1>8 DEF ScanState

LEMMA AfterSwitch ==
  ASSUME NEW t \in Seq(STRING), NEW g, NEW s, Marks(s, t, Len(t), g.valued),
         g.valued \cap (g.switches \cup g.help) = {}, g.switches \cap g.help = {},
         NEW a, NEW v, NEW o, ScanState(t, g, s, a, v, o),
         a <= Len(t), t[a] \in g.switches
  PROVE  ScanState(t, g, s, a + 1, v, o \cup {t[a]})
<1>1. a \in 1..Len(t) /\ a \in s /\ a + 1 \in 1..(Len(t) + 1)
  BY DEF ScanState
<1>2. t[a] \notin g.valued /\ ~Wrong(g, t, a) /\ t[a] \notin g.help
  BY <1>1 DEF Wrong
<1>3. /\ a + 1 \in 1..Len(t) => a + 1 \in s
      /\ Before(s, a + 1) = Before(s, a) \cup {a}
  BY <1>1, <1>2, NextPlace
<1>4. \A i \in Before(s, a + 1) : ~Wrong(g, t, i) /\ t[i] \notin g.help
  BY <1>2, <1>3 DEF ScanState
<1>5. o \cup {t[a]} = {t[i] : i \in Before(s, a + 1)} \cap g.switches
  BY <1>3 DEF ScanState
<1>6. ASSUME NEW f \in g.valued
      PROVE  ValueIn(Before(s, a + 1), t, f) = ValueIn(Before(s, a), t, f)
  <2>1. t[a] # f
    BY <1>2
  <2>2. ValueIn(Before(s, a) \cup {a}, t, f) = ValueIn(Before(s, a), t, f)
    BY <2>1, ValueOfOthers
  <2> QED
    BY <1>3, <2>2
<1>7. v = [f \in Flags |-> IF f \in g.valued THEN ValueIn(Before(s, a + 1), t, f) ELSE Unset]
  BY <1>6 DEF ScanState
<1> QED
  BY <1>1, <1>3, <1>4, <1>5, <1>7 DEF ScanState

\* What is expected of a line whose scan has come to a without an error.
ExpectedIs(c, t, g, a, v, o) ==
    /\ a <= Len(t) /\ t[a] \in g.help => Expected(c, t).how = "help"
    /\ a <= Len(t) /\ Wrong(g, t, a) => Expected(c, t).how = "usage"
    /\ a > Len(t) =>
          IF \E f \in g.required : v[f] = Unset
          THEN Expected(c, t).how = "usage"
          ELSE Expected(c, t) = [how |-> "work", val |-> v, on |-> o]

LEMMA ExpectedAt ==
  ASSUME NEW c \in Scanned, NEW t \in Seq(STRING), NEW g, g = Grammar(c),
         NEW s, s = FlagPositions(t, g.valued),
         NEW a, NEW v, NEW o, ScanState(t, g, s, a, v, o)
  PROVE  ExpectedIs(c, t, g, a, v, o)
<1> DEFINE help == {i \in s : t[i] \in g.help}
           wrong == {i \in s : Wrong(g, t, i)}
<1>1. Marks(s, t, Len(t), g.valued)
  BY FlagPositionsMark
<1>2. a \in Int /\ Len(t) \in Nat /\ (\A i \in s : i \in Int /\ i <= Len(t))
  <2>1. s \subseteq 1..Len(t)
    BY <1>1 DEF Marks
  <2> QED
    BY <2>1 DEF ScanState
<1>3. \A i \in help \cup wrong : a <= i
  BY <1>2 DEF ScanState, Before
<1>4. \A i \in s : ~(t[i] \in g.help /\ Wrong(g, t, i))
  BY GrammarFacts DEF Wrong
<1>5. Expected(c, t) =
        CASE \E i \in help : \A j \in wrong : i < j -> [how |-> "help"]
          [] \E j \in wrong : \A i \in help : j < i -> [how |-> "usage"]
          [] help \cup wrong = {} ->
               IF \E f \in g.required : ValueIn(s, t, f) = Unset
               THEN [how |-> "usage"]
               ELSE [how |-> "work",
                     val |-> [f \in Flags |-> IF f \in g.valued THEN ValueIn(s, t, f) ELSE Unset],
                     on  |-> {t[i] : i \in s} \cap g.switches]
  BY DEF Expected
<1>6. a <= Len(t) => a \in s
  BY <1>2 DEF ScanState
<1>7. ~ ((\E i \in help : \A j \in wrong : i < j) /\ (\E j \in wrong : \A i \in help : j < i))
  BY <1>2
<1>8. ASSUME a <= Len(t), t[a] \in g.help PROVE Expected(c, t).how = "help"
  <2>1. a \in help /\ \A j \in wrong : a < j
    BY <1>2, <1>3, <1>4, <1>6, <1>8
  <2>2. /\ \E i \in help : \A j \in wrong : i < j
        /\ help \cup wrong # {}
    BY <2>1
  <2> HIDE DEF help, wrong
  <2>3. Expected(c, t) = [how |-> "help"]
    BY <1>5, <1>7, <2>2
  <2> QED
    BY <2>3
<1>9. ASSUME a <= Len(t), Wrong(g, t, a) PROVE Expected(c, t).how = "usage"
  <2>1. a \in wrong /\ \A i \in help : a < i
    BY <1>2, <1>3, <1>4, <1>6, <1>9
  <2>2. /\ \E j \in wrong : \A i \in help : j < i
        /\ help \cup wrong # {}
    BY <2>1
  <2> HIDE DEF help, wrong
  <2>3. Expected(c, t) = [how |-> "usage"]
    BY <1>5, <1>7, <2>2
  <2> QED
    BY <2>3
<1>10. ASSUME a > Len(t)
       PROVE  IF \E f \in g.required : v[f] = Unset
              THEN Expected(c, t).how = "usage"
              ELSE Expected(c, t) = [how |-> "work", val |-> v, on |-> o]
  <2>1. help \cup wrong = {}
    BY <1>2, <1>3, <1>10
  <2>2. Before(s, a) = s
    BY <1>2, <1>10 DEF Before
  <2>3. /\ v = [f \in Flags |-> IF f \in g.valued THEN ValueIn(s, t, f) ELSE Unset]
        /\ o = {t[i] : i \in s} \cap g.switches
    BY <2>2 DEF ScanState
  <2>4. /\ ~ \E i \in help : \A j \in wrong : i < j
        /\ ~ \E j \in wrong : \A i \in help : j < i
    BY <2>1
  <2>5. Expected(c, t) = IF \E f \in g.required : ValueIn(s, t, f) = Unset
                         THEN [how |-> "usage"]
                         ELSE [how |-> "work", val |-> v, on |-> o]
    <3> HIDE DEF help, wrong
    <3> QED
      BY <1>5, <2>1, <2>3, <2>4
  <2>6. \A f \in g.required : v[f] = ValueIn(s, t, f)
    <3>1. g.required \subseteq g.valued /\ g.valued \subseteq Flags
      BY GrammarFacts
    <3> QED
      BY <2>3, <3>1
  <2> QED
    BY <2>5, <2>6
<1> QED
  BY <1>8, <1>9, <1>10 DEF ExpectedIs

\* The scanner looks at the operands of its command.
LEMMA OperandsAhead ==
  ASSUME TypeOK, command \in Scanned
  PROVE  LET t == Operands(command)
             k == Len(command)
         IN /\ t \in Seq(STRING) /\ Len(t) = Len(line) - k /\ k \in 1..2
            /\ \A i \in 1..Len(t) : t[i] = line[k + i]
<1>1. command = Chosen /\ command # <<>>
  BY ScannedDoNotCount DEF TypeOK
<1>2. Len(command) <= Len(line)
  BY <1>1 DEF Chosen, TypeOK
<1>3. Len(command) \in 1..2
  BY CommandLength
<1> QED
  BY <1>2, <1>3 DEF TypeOK, Operands

\* Where the scanner stands, and what it has noted.
ScanInv ==
    outcome = "scanning" =>
        /\ command = <<>> => val = [f \in Flags |-> Unset] /\ on = {}
        /\ command \in Scanned =>
              LET t == Operands(command)
                  g == Grammar(command)
              IN ScanState(t, g, FlagPositions(t, g.valued), at - Len(command), val, on)

\* Inductive: what the scanner has noted, and what it makes of it at its end.
GInv == ScanInv /\ ScansGrammar

LEMMA GInvInit == Init => GInv
BY ScannedDoNotCount DEF Init, GInv, ScanInv, ScansGrammar

LEMMA DispatchKeepsGInv ==
  ASSUME TypeOK, TypeOK', GInv, Dispatch
  PROVE  GInv'
<1>1. CASE Chosen = <<>>
  BY <1>1 DEF Dispatch, End, GInv, ScanInv, ScansGrammar
<1>2. CASE Chosen # <<>>
  <2>1. /\ outcome' = "scanning" /\ command' = Chosen /\ at' = Len(command') + 1
        /\ val' = [f \in Flags |-> Unset] /\ on' = {}
    BY <1>2 DEF Dispatch, GInv, ScanInv
  <2>2. ASSUME NEW c, c = command', c \in Scanned, NEW t, t = Operands(c)', NEW g, g = Grammar(c)
        PROVE  ScanState(t, g, FlagPositions(t, g.valued), at' - Len(c), val', on')
    <3>1. t \in Seq(STRING) /\ Len(c) \in 1..2
      BY <2>2, CommandLength DEF TypeOK, Operands
    <3>2. at' - Len(c) = 1
      BY <2>1, <2>2, <3>1
    <3>3. Marks(FlagPositions(t, g.valued), t, Len(t), g.valued)
      BY <3>1, FlagPositionsMark
    <3> QED
      BY <2>1, <3>1, <3>2, <3>3, ScanStart
  <2>3. ScanInv'
    BY <1>2, <2>1, <2>2 DEF ScanInv
  <2> QED
    BY <2>1, <2>3 DEF GInv, ScansGrammar
<1> QED
  BY <1>1, <1>2

\* A scanner's step.
LEMMA ScannerKeepsGInv ==
  ASSUME TypeOK, TypeOK', GInv, Scanning,
         TakeValue \/ TakeSwitch \/ Help \/ Unknown \/ Complete
  PROVE  GInv'
<1> DEFINE k == Len(command)
           t == Operands(command)
           g == Grammar(command)
           s == FlagPositions(t, g.valued)
           a == at - k
<1>1. command \in Scanned /\ command \notin {<<>>} \cup DOMAIN Arity
  BY ChosenIsCommand DEF TypeOK, Scanning
<1>2. UNCHANGED <<line, command>>
  BY DEF TakeValue, TakeSwitch, Help, Unknown, Complete, End
<1>3. t' = t
  BY <1>2 DEF Operands
<1>4. /\ t \in Seq(STRING) /\ Len(t) = Len(line) - k /\ k \in 1..2
      /\ \A i \in 1..Len(t) : t[i] = line[k + i]
  BY <1>1, OperandsAhead
<1>5. ScanState(t, g, s, a, val, on)
  BY <1>1 DEF GInv, ScanInv, Scanning
<1>6. Marks(s, t, Len(t), g.valued)
  BY <1>4, FlagPositionsMark
<1>7. /\ g.required \subseteq g.valued /\ g.valued \subseteq Flags
      /\ g.valued \cap (g.switches \cup g.help) = {} /\ g.switches \cap g.help = {}
  BY <1>1, GrammarFacts
<1>8. /\ a \in Int /\ at \in Int /\ Len(t) \in Nat /\ Len(line) \in Nat /\ k \in Int
      /\ a \in 1..(Len(t) + 1) /\ k + a = at /\ k + (a + 1) = at + 1
  BY <1>4, <1>5 DEF TypeOK, ScanState
<1>a. g = Grammar(command) /\ s = FlagPositions(t, g.valued)
  OBVIOUS
<1> HIDE DEF k, t, g, s, a
<1>9. /\ at <= Len(line) => a <= Len(t) /\ t[a] = line[at]
      /\ at < Len(line) => a < Len(t) /\ t[a + 1] = line[at + 1]
      /\ a < Len(t) => at < Len(line)
      /\ at > Len(line) => a > Len(t)
      /\ a = Len(t) => ~(at < Len(line))
  <2>1. /\ at <= Len(line) => a <= Len(t)
        /\ at < Len(line) => a < Len(t)
        /\ a < Len(t) => at < Len(line)
        /\ at > Len(line) => a > Len(t)
        /\ a = Len(t) => ~(at < Len(line))
    BY <1>4, <1>8, SMTT(30)
  <2>2. a <= Len(t) => t[a] = line[at]
    BY <1>4, <1>8, SMTT(30)
  <2>3. a < Len(t) => t[a + 1] = line[at + 1]
    <3>1. a < Len(t) => a + 1 \in 1..Len(t)
      BY <1>8
    <3> QED
      BY <1>4, <1>8, <3>1
  <2> QED
    BY <2>1, <2>2, <2>3
<1>b. ExpectedIs(command, t, g, a, val, on)
  BY <1>1, <1>4, <1>5, <1>a, ExpectedAt, Zenon
<1>10. /\ a <= Len(t) /\ t[a] \in g.help => Expected(command, t).how = "help"
       /\ a <= Len(t) /\ Wrong(g, t, a) => Expected(command, t).how = "usage"
       /\ a > Len(t) =>
             IF \E f \in g.required : val[f] = Unset
             THEN Expected(command, t).how = "usage"
             ELSE Expected(command, t) = [how |-> "work", val |-> val, on |-> on]
  BY <1>b DEF ExpectedIs
<1>11. ASSUME \E how \in {"usage", "help"} : End(how) /\ Expected(command, t).how = how
       PROVE  GInv'
  <2>1. ScanInv'
    BY <1>11 DEF ScanInv, End
  <2>2. ScansGrammar'
    BY <1>2, <1>3, <1>11 DEF ScansGrammar, End, t
  <2> QED
    BY <2>1, <2>2 DEF GInv
<1>12. ASSUME outcome' = "scanning",
              ScanState(t, g, s, at' - k, val', on')
       PROVE  GInv'
  <2>1. ScanInv'
    BY <1>1, <1>2, <1>3, <1>12 DEF ScanInv, t, g, s, k
  <2> QED
    BY <2>1, <1>12 DEF GInv, ScansGrammar
<1>13. CASE TakeValue
  <2>1. at <= Len(line) /\ line[at] \in g.valued
    BY <1>13 DEF TakeValue, More, g
  <2>2. CASE at < Len(line) /\ Proper(line[at], line[at + 1])
    <3>1. ScanState(t, g, s, a + 2, [val EXCEPT ![t[a]] = t[a + 1]], on)
      BY <1>4, <1>5, <1>6, <1>7, <1>9, <2>1, <2>2, AfterValue
    <3>2. /\ val' = [val EXCEPT ![t[a]] = t[a + 1]] /\ on' = on
          /\ at' = at + 2 /\ outcome' = "scanning"
      BY <1>13, <1>9, <2>1, <2>2 DEF TakeValue, More, Scanning
    <3>3. at' - k = a + 2
      BY <3>2, <1>8 DEF a
    <3> QED
      BY <3>1, <3>2, <3>3, <1>12
  <2>3. CASE ~(at < Len(line) /\ Proper(line[at], line[at + 1]))
    <3>1. Wrong(g, t, a)
      BY <1>8, <1>9, <2>1, <2>3 DEF Wrong
    <3>2. End("usage")
      BY <1>13, <2>3 DEF TakeValue
    <3> QED
      BY <1>9, <1>10, <1>11, <2>1, <3>1, <3>2
  <2> QED
    BY <2>2, <2>3
<1>14. CASE TakeSwitch
  <2>1. at <= Len(line) /\ line[at] \in g.switches
    BY <1>14 DEF TakeSwitch, More, g
  <2>2. ScanState(t, g, s, a + 1, val, on \cup {t[a]})
    BY <1>4, <1>5, <1>6, <1>7, <1>9, <2>1, AfterSwitch
  <2>3. /\ val' = val /\ on' = on \cup {t[a]} /\ at' = at + 1 /\ outcome' = "scanning"
    BY <1>14, <1>9, <2>1 DEF TakeSwitch, More, Scanning
  <2>4. at' - k = a + 1
    BY <2>3, <1>8 DEF a
  <2> QED
    BY <2>2, <2>3, <2>4, <1>12
<1>15. CASE Help
  <2>1. at <= Len(line) /\ line[at] \in g.help /\ End("help")
    BY <1>15 DEF Help, More, g
  <2> QED
    BY <1>9, <1>10, <1>11, <2>1
<1>16. CASE Unknown
  <2>1. /\ at <= Len(line) /\ End("usage")
        /\ line[at] \notin g.valued \cup g.switches \cup g.help
    BY <1>16 DEF Unknown, More, g
  <2>2. Wrong(g, t, a)
    BY <1>9, <2>1 DEF Wrong
  <2> QED
    BY <1>9, <1>10, <1>11, <2>1, <2>2
<1>17. CASE Complete
  <2>1. a > Len(t)
    BY <1>17, <1>9 DEF Complete
  <2>2. CASE \E f \in g.required : val[f] = Unset
    <3>1. End("usage")
      BY <1>17, <2>2 DEF Complete, g
    <3> QED
      BY <1>10, <1>11, <2>1, <2>2, <3>1
  <2>3. CASE ~ \E f \in g.required : val[f] = Unset
    <3>1. End("work")
      BY <1>17, <2>3 DEF Complete, g
    <3>2. Expected(command, t) = [how |-> "work", val |-> val, on |-> on]
      BY <1>10, <2>1, <2>3
    <3>3. Expected(command', t') = [how |-> "work", val |-> val', on |-> on']
      BY <1>2, <1>3, <3>1, <3>2 DEF End
    <3>4. ScansGrammar'
      BY <3>1, <3>3 DEF End, ScansGrammar, t
    <3>5. ScanInv'
      BY <3>1 DEF End, ScanInv
    <3> QED
      BY <3>4, <3>5 DEF GInv
  <2> QED
    BY <2>2, <2>3
<1> QED
  BY <1>13, <1>14, <1>15, <1>16, <1>17

\* Every scanner accepts exactly the lines of its grammar, with the last value
\* of each flag, for lines of any length over any tokens.
THEOREM ScannersAreRight == Spec => []ScansGrammar
<1>1. TypeOK /\ GInv /\ [Next]_vars => GInv'
  <2> SUFFICES ASSUME TypeOK, GInv, [Next]_vars PROVE GInv'
    OBVIOUS
  <2>1. TypeOK'
    BY TypeStep
  <2>2. CASE Dispatch
    BY <2>1, <2>2, DispatchKeepsGInv
  <2>3. CASE Count
    BY <2>3 DEF Count, End, GInv, ScanInv, ScansGrammar
  <2>4. CASE TakeValue \/ TakeSwitch \/ Help \/ Unknown \/ Complete
    BY <2>1, <2>4, ScannerKeepsGInv
       DEF TakeValue, TakeSwitch, Help, Unknown, Complete, More
  <2>5. CASE UNCHANGED vars
    BY <2>5 DEF vars, GInv, ScanInv, ScansGrammar, Operands
  <2> QED
    BY <2>2, <2>3, <2>4, <2>5 DEF Next
<1>2. GInv => ScansGrammar
  BY DEF GInv
<1> QED
  BY <1>1, <1>2, GInvInit, TypeCorrect, PTL DEF Spec

-----------------------------------------------------------------------------
(* The lines quickstart composes.                                           *)

NothingNoted == val = [f \in Flags |-> Unset] /\ on = {}

\* Where the scan of WizardGen(p) can be.
GenScan(p) ==
    \/ outcome = "scanning" /\ command = <<>> /\ NothingNoted
    \/ outcome = "scanning" /\ command = <<"identity", "gen">> /\ at = 3 /\ NothingNoted
    \/ /\ \/ outcome = "scanning" /\ command = <<"identity", "gen">> /\ at = 5
          \/ outcome = "work"
       /\ val["--out"] = p /\ val["--expiry"] = Unset

\* Where the scan of WizardImport(l, m, p) can be: between two flags.
ImportScan(l, m, p) ==
    \/ outcome = "scanning" /\ command = <<>> /\ NothingNoted
    \/ /\ \/ outcome = "scanning" /\ at \in {3, 5, 7, 9, 11}
          \/ outcome = "work" /\ at = 11
       /\ command = <<"identity", "import-hsm">> /\ on = {}
       /\ DOMAIN val = Flags /\ val["--config"] = Unset
       /\ at >= 5 => val["--extension-id"] = "gn.identity.pkcs11"
       /\ at >= 7 => val["--key-label"] = l
       /\ at >= 9 => val["--module"] = m
       /\ at >= 11 => val["--pin-env"] = p

WizardInv == /\ \A p \in Answers : line = WizardGen(p) => GenScan(p)
             /\ \A l, m, p \in Answers : line = WizardImport(l, m, p) => ImportScan(l, m, p)

LEMMA GenGrammar ==
  ASSUME command = <<"identity", "gen">>
  PROVE  /\ command \notin {<<>>} \cup DOMAIN Arity
         /\ Grammar(command).valued = {"--out", "--expiry"}
         /\ Grammar(command).required = {"--out"}
         /\ Grammar(command).switches = {} /\ Grammar(command).help = {}
BY DEF Grammar, Syntax, Arity

LEMMA ImportGrammar ==
  ASSUME command = <<"identity", "import-hsm">>
  PROVE  /\ command \notin {<<>>} \cup DOMAIN Arity
         /\ Grammar(command).valued =
              {"--extension-id", "--key-label", "--pin-env", "--module", "--config"}
         /\ Grammar(command).required = {"--extension-id", "--key-label"}
         /\ Grammar(command).switches = {"--force"}
         /\ Grammar(command).help = {"--help", "-h"}
BY DEF Grammar, Syntax, Arity

\* A command that has begun, or one that is not chosen yet, scans nothing.
LEMMA OnlyDispatch ==
  ASSUME Next, outcome # "scanning" \/ command = <<>>
  PROVE  outcome = "scanning" /\ Dispatch
<1>1. <<>> \notin DOMAIN Arity
  BY DEF Arity
<1>2. ~Count /\ ~Scanning
  BY <1>1 DEF Count, Scanning
<1> QED
  BY <1>2 DEF Next, Dispatch, TakeValue, TakeSwitch, Help, Unknown, Complete, More

\* A scanner in front of a flag takes its value, and says so at the end.
LEMMA OnlyTakeValue ==
  ASSUME Next, command \notin {<<>>} \cup DOMAIN Arity, line \in Seq(STRING), at \in Nat
  PROVE  LET g == Grammar(command) IN
         /\ at <= Len(line) /\ line[at] \in g.valued \ (g.switches \cup g.help) => TakeValue
         /\ at > Len(line) => Complete
BY DEF Next, Dispatch, Count, TakeSwitch, Help, Unknown, Complete, TakeValue, More

LEMMA GenStep ==
  ASSUME [Next]_vars, line \in Seq(STRING),
         NEW p \in Answers, line = WizardGen(p), GenScan(p)
  PROVE  GenScan(p)'
<1>1. Len(line) = 4 /\ line[1] = "identity" /\ line[2] = "gen" /\ line[3] = "--out" /\ line[4] = p
  BY DEF WizardGen
<1>2. Chosen = <<"identity", "gen">>
  <2>1. "identity" \in DOMAIN Nested /\ "gen" \in Nested["identity"] /\ "identity" \notin Flat
    BY DEF Nested, Flat
  <2> QED
    BY <1>1, <2>1 DEF Chosen
<1>3. p # ""
  BY CliAssumption
<1>4. CASE UNCHANGED vars
  BY <1>4 DEF vars, GenScan, NothingNoted
<1>5. CASE Next /\ command = <<>> /\ outcome = "scanning"
  <2>1. Dispatch
    BY <1>5, OnlyDispatch
  <2>2. /\ outcome' = "scanning" /\ command' = <<"identity", "gen">> /\ at' = 3
        /\ UNCHANGED <<val, on>>
    BY <1>2, <2>1 DEF Dispatch
  <2>3. NothingNoted
    BY <1>5 DEF GenScan
  <2> QED
    BY <2>2, <2>3 DEF GenScan, NothingNoted
<1>6. CASE Next /\ command = <<"identity", "gen">> /\ at = 3 /\ outcome = "scanning"
  <2>1. TakeValue
    BY <1>1, <1>6, GenGrammar, OnlyTakeValue
  <2>2. /\ val' = [val EXCEPT !["--out"] = p] /\ at' = 5
        /\ UNCHANGED <<command, outcome>>
    BY <1>1, <1>6, <2>1 DEF TakeValue, Proper
  <2>3. val = [f \in Flags |-> Unset]
    BY <1>6 DEF GenScan, NothingNoted
  <2>4. val'["--out"] = p /\ val'["--expiry"] = Unset
    BY <2>2, <2>3 DEF Flags
  <2> QED
    BY <1>6, <2>2, <2>4 DEF GenScan
<1>7. CASE Next /\ command = <<"identity", "gen">> /\ at = 5 /\ outcome = "scanning"
  <2>1. Complete
    BY <1>1, <1>7, GenGrammar, OnlyTakeValue
  <2>2. val["--out"] = p /\ val["--expiry"] = Unset
    BY <1>7 DEF GenScan
  <2>3. outcome' = "work" /\ val' = val
    BY <1>3, <1>7, <2>1, <2>2, GenGrammar DEF Complete, End, Unset
  <2> QED
    BY <2>2, <2>3 DEF GenScan
<1>8. CASE Next /\ outcome = "work"
  BY <1>8, OnlyDispatch
<1> QED
  BY <1>4, <1>5, <1>6, <1>7, <1>8 DEF GenScan

LEMMA ImportStep ==
  ASSUME [Next]_vars, line \in Seq(STRING),
         NEW l \in Answers, NEW m \in Answers, NEW p \in Answers,
         line = WizardImport(l, m, p), ImportScan(l, m, p)
  PROVE  ImportScan(l, m, p)'
<1>1. /\ Len(line) = 10 /\ line[1] = "identity" /\ line[2] = "import-hsm"
      /\ line[3] = "--extension-id" /\ line[4] = "gn.identity.pkcs11"
      /\ line[5] = "--key-label" /\ line[6] = l /\ line[7] = "--module" /\ line[8] = m
      /\ line[9] = "--pin-env" /\ line[10] = p
  BY DEF WizardImport
<1>2. Chosen = <<"identity", "import-hsm">>
  <2>1. /\ "identity" \in DOMAIN Nested /\ "import-hsm" \in Nested["identity"]
        /\ "identity" \notin Flat
    BY DEF Nested, Flat
  <2> QED
    BY <1>1, <2>1 DEF Chosen
<1>3. l # ""
  BY CliAssumption
<1>4. CASE UNCHANGED vars
  BY <1>4 DEF vars, ImportScan, NothingNoted
<1>5. CASE Next /\ outcome = "scanning" /\ command = <<>>
  <2>1. Dispatch
    BY <1>5, OnlyDispatch
  <2>2. /\ outcome' = "scanning" /\ command' = <<"identity", "import-hsm">> /\ at' = 3
        /\ UNCHANGED <<val, on>>
    BY <1>2, <2>1 DEF Dispatch
  <2>3. val = [f \in Flags |-> Unset] /\ on = {}
    BY <1>5 DEF ImportScan, NothingNoted
  <2>4. DOMAIN val = Flags /\ val["--config"] = Unset
    BY <2>3 DEF Flags
  <2> QED
    BY <2>2, <2>3, <2>4 DEF ImportScan
<1>6. CASE /\ Next /\ outcome = "scanning" /\ command = <<"identity", "import-hsm">>
           /\ at \in {3, 5, 7, 9}
  <2>1. TakeValue
    <3>1. line[at] \in {"--extension-id", "--key-label", "--module", "--pin-env"}
      BY <1>1, <1>6
    <3> QED
      BY <1>1, <1>6, <3>1, ImportGrammar, OnlyTakeValue, SMTT(30)
  <2>2. /\ val' = [val EXCEPT ![line[at]] = line[at + 1]] /\ at' = at + 2
        /\ UNCHANGED <<command, on, outcome>>
    <3>1. at < Len(line) /\ line[at] # "--expiry"
      BY <1>1, <1>6
    <3> QED
      BY <2>1, <3>1 DEF TakeValue, Proper
  <2>3. /\ on = {} /\ DOMAIN val = Flags /\ val["--config"] = Unset
        /\ at >= 5 => val["--extension-id"] = "gn.identity.pkcs11"
        /\ at >= 7 => val["--key-label"] = l
        /\ at >= 9 => val["--module"] = m
    BY <1>6 DEF ImportScan
  <2>4. CASE at = 3
    BY <1>1, <1>6, <2>2, <2>3, <2>4 DEF ImportScan, Flags
  <2>5. CASE at = 5
    BY <1>1, <1>6, <2>2, <2>3, <2>5 DEF ImportScan, Flags
  <2>6. CASE at = 7
    BY <1>1, <1>6, <2>2, <2>3, <2>6 DEF ImportScan, Flags
  <2>7. CASE at = 9
    BY <1>1, <1>6, <2>2, <2>3, <2>7 DEF ImportScan, Flags
  <2> QED
    BY <1>6, <2>4, <2>5, <2>6, <2>7
<1>7. CASE Next /\ outcome = "scanning" /\ command = <<"identity", "import-hsm">> /\ at = 11
  <2>1. Complete
    BY <1>1, <1>7, ImportGrammar, OnlyTakeValue
  <2>2. val["--extension-id"] # Unset /\ val["--key-label"] # Unset
    <3>1. val["--extension-id"] = "gn.identity.pkcs11" /\ val["--key-label"] = l
      BY <1>7 DEF ImportScan
    <3> QED
      BY <1>3, <3>1 DEF Unset
  <2>3. outcome' = "work" /\ UNCHANGED <<command, at, val, on>>
    BY <1>7, <2>1, <2>2, ImportGrammar DEF Complete, End
  <2> QED
    BY <1>7, <2>3 DEF ImportScan
<1>8. CASE Next /\ outcome = "work"
  BY <1>8, OnlyDispatch
<1> QED
  BY <1>4, <1>5, <1>6, <1>7, <1>8 DEF ImportScan

\* Whatever the operator answers, also what is spelled like a flag, the two
\* commands quickstart calls are not refused and get exactly that.
THEOREM AnswersUnderstood == Spec => []WizardUnderstood
<1>1. Init => WizardInv
  BY DEF Init, WizardInv, GenScan, ImportScan, NothingNoted
<1>2. TypeOK /\ WizardInv /\ [Next]_vars => WizardInv'
  <2> SUFFICES ASSUME TypeOK, WizardInv, [Next]_vars PROVE WizardInv'
    OBVIOUS
  <2>1. line' = line
    BY DEF Next, Dispatch, Count, TakeValue, TakeSwitch, Help, Unknown, Complete, End, vars
  <2> QED
    BY <2>1, GenStep, ImportStep DEF WizardInv, WizardGen, WizardImport, TypeOK
<1>3. WizardInv => WizardUnderstood
  BY DEF WizardInv, GenScan, ImportScan, WizardUnderstood
<1> QED
  BY <1>1, <1>2, <1>3, TypeCorrect, PTL DEF Spec
=============================================================================
