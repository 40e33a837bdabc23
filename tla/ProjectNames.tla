---------------------------- MODULE ProjectNames ----------------------------
(***************************************************************************)
(* Names of OpenStack projects (their domains' names fare alike) and the   *)
(* labels persephone makes of them: labels do not take every name.         *)
(***************************************************************************)
EXTENDS Integers, Sequences, FiniteSetsExt

CONSTANTS
    MaxLength,   \* validation.LabelValueMaxLength
    MaxName      \* bound: length of a name

ASSUME NamesAssumption == MaxLength \in Nat \ {0} /\ MaxName \in Nat

\* A letter or digit; one of - _ . ; any other character.
Char == {"a", "_", " "}
Name == UNION {[1..n -> Char] : n \in 0..MaxName}

Label == UNION {[1..n -> Char] : n \in 0..MaxLength}
NoLabel == <<"none">>

-----------------------------------------------------------------------------
(* sanitizeLabelValue                                                      *)

Alphanumeric(s) == {i \in DOMAIN s : s[i] = "a"}

TrimRight(s) == IF Alphanumeric(s) = {} THEN <<>> ELSE SubSeq(s, 1, Max(Alphanumeric(s)))
TrimBoth(s) == IF Alphanumeric(s) = {} THEN <<>>
               ELSE SubSeq(s, Min(Alphanumeric(s)), Max(Alphanumeric(s)))

Replaced(s) == [i \in DOMAIN s |-> IF s[i] = " " THEN "_" ELSE s[i]]

\* Mutants of Sanitize: nothing is trimmed after the truncation; a name of the
\* maximal length is truncated.
SanitizeWithoutLastTrim(s) ==
    LET trimmed == TrimBoth(Replaced(s)) IN
    IF Len(trimmed) > MaxLength THEN SubSeq(trimmed, 1, MaxLength) ELSE trimmed

SanitizeOneShorter(s) ==
    LET trimmed == TrimBoth(Replaced(s)) IN
    IF Len(trimmed) >= MaxLength THEN TrimRight(SubSeq(trimmed, 1, MaxLength - 1)) ELSE trimmed

Sanitize(s) ==
    LET trimmed == TrimBoth(Replaced(s)) IN
    IF Len(trimmed) > MaxLength THEN TrimRight(SubSeq(trimmed, 1, MaxLength)) ELSE trimmed

\* The name is read back from a label (OpenStackUserInfoFromLabels) unless
\* that is missing or empty, which is an error.
Readable(label) == label \notin {NoLabel, <<>>}

\* The API server takes a value that is empty or begins and ends with a letter
\* or digit, has no odd character in between and is not too long.
Valid(label) ==
    /\ Len(label) =< MaxLength
    /\ \A i \in DOMAIN label : label[i] # " "
    /\ label # <<>> => label[1] = "a" /\ label[Len(label)] = "a"
=============================================================================
