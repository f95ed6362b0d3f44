---------------------------- MODULE MCPrefManager ----------------------------
(***************************************************************************)
(* Instances of PrefManager for TLC: payloads of each interesting kind, and *)
(* definitions that differ in what some operation tells apart.             *)
(***************************************************************************)
EXTENDS PrefManagerRefinement, PrefManagerClaims, TLC

CONSTANTS u1, u2, k1, k2, p1, p2, c1, c2,
          a, b,             \* strings
          j,                \* a string whose text is JSON
          seven,            \* an int
          nan,              \* a float json.Marshal rejects
          nothing           \* nil

MCKind == [x \in Ids |-> CASE x = seven -> "int" [] x = nan -> "float"
                           [] x = nothing -> "nil" [] OTHER -> "string"]
MCUnencodable == Ids \cap {nan}
MCBlank == Ids \cap {nothing}
MCParses == {<<x, t>> \in Ids \X Types :
                \/ t = "string"
                \/ t = "json" /\ x \in {j, seven}
                \/ t \in {"int", "float"} /\ x = seven}

Def(k, t, x, c, e) ==
    [key |-> k, type |-> t, dflt |-> x, cat |-> c, encrypted |-> e, admits |-> Ids]

\* One definition per key: the ones D holds.
Defined(D) == [k \in Keys |-> IF \E d \in D : d.key = k
                              THEN CHOOSE d \in D : d.key = k ELSE None]

PlainA == Def(k1, "string", a, c1, FALSE)
PlainB == Def(k1, "string", b, c2, FALSE)
PlainA2 == Def(k2, "string", a, c1, FALSE)
SecretA == Def(k1, "string", a, c1, TRUE)
\* A secret JSON preference whose ValidateFunc lets only JSON text through.
SecretJson == [Def(k1, "json", seven, c1, TRUE) EXCEPT !.admits = Ids \ {a, b}]
SecretFloat == Def(k1, "float", nan, c2, TRUE)
Invalid == {Def(Empty, "string", a, c1, FALSE), Def(k1, "unsupported", a, c1, FALSE)}

OnlyPlain == {PlainA}
DefinedPlain == Defined(OnlyPlain)
TwoPlain == {PlainA, PlainA2}
DefinedTwo == Defined(TwoPlain)
Redefinitions == {PlainA, PlainB, SecretA}
AnySecretJson == {Def(k2, "json", seven, c1, TRUE)}
DefinedAnySecret == Defined(AnySecretJson)
LateDefs == {PlainA, SecretJson, SecretFloat} \cup Invalid
NoneDefined == Defined({})

ProcSymmetry == Permutations(Procs)
=============================================================================
